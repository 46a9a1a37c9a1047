----------------------------- MODULE RpcProofs -----------------------------
(***************************************************************************)
(* The node's RPC client, for any number of concurrent operations, any     *)
(* endpoint, any cache limits and any request timeout; and the startup     *)
(* probe, against any endpoint.                                            *)
(***************************************************************************)
EXTENDS NodeRpc, NodeProbe, FiniteSetTheorems, TLAPS

Profile == {"auto", "vm1_only", "vm2_only"}

Method == Vm1 \cup Vm2 \cup {"chain.info"}

\* The calls an operation makes at most.
Calls(profile, op) ==
    LET pair == IF profile = "auto" THEN 2 ELSE 1
    IN  IF op \in DOMAIN Pairs \cup {"list_resources"} THEN pair
        ELSE IF op = "get_account_state" THEN IF profile = "vm2_only" THEN 1 ELSE pair + 1
        ELSE 1

\* A good reply is not an error.
Heard == {reply \in Reply : reply.ok => ~Missing(reply)}

\* A reply after which an operation may have to look elsewhere.
Harmless(reply) == reply.ok \/ Missing(reply)

\* A legacy listing after which VM2's is asked for.
Retried(reply) == Missing(reply) \/ (reply.ok /\ reply.content \in {"nothing", "malformed"})

\* A legacy account state that has to be completed.
Unfinished(reply) == Missing(reply) \/ (reply.ok /\ reply.content # "full")

\* The methods of the VM that the profile leaves out.
Excluded(profile, method) ==
    \/ profile = "vm1_only" /\ method \in Vm2
    \/ profile = "vm2_only" /\ method \in Vm1
---------------------------------------------------------------------------
(* Operators.                                                              *)

\* NodeRpcClient::call: every outcome becomes a reply, a good one is no error,
\* and a method is missing only if the endpoint said so.
LEMMA CallReply ==
    ASSUME NEW o \in Outcome
    PROVE  /\ call(o) \in Heard
           /\ Missing(call(o)) => o.kind = "method not found"
<1>1. CASE o \in {[kind |-> k, words |-> {}, content |-> "nothing"] : k \in
        {"unreachable", "body lost", "http error", "garbled", "method not found", "invalid params"}}
  <2>1. PICK k \in {"unreachable", "body lost", "http error", "garbled", "method not found",
                    "invalid params"} : o = [kind |-> k, words |-> {}, content |-> "nothing"]
    BY <1>1, Zenon
  <2>2. o.kind = k
    BY <2>1, Zenon
  <2> QED
    BY <2>1, <2>2, Zenon DEF call, Err, Unsupported, Missing, Heard, Reply, Content
<1>2. CASE o \in {[kind |-> "rpc error", words |-> w, content |-> "nothing"] : w \in Words}
  <2>1. PICK w \in Words : o = [kind |-> "rpc error", words |-> w, content |-> "nothing"]
    BY <1>2, Zenon
  <2>2. map_rpc_error_code(o.words) \in {"transaction_expired", "sequence_number_stale",
            "submission_unknown", "node_unavailable", "submission_failed"}
    BY DEF map_rpc_error_code
  <2>3. call(o) = Err(map_rpc_error_code(o.words), map_rpc_error_code(o.words) \in
                      {"node_unavailable", "rpc_unavailable", "submission_unknown"})
    BY <2>1, Zenon DEF call
  <2>4. \A code \in {"transaction_expired", "sequence_number_stale",
            "submission_unknown", "node_unavailable", "submission_failed"}, retryable \in BOOLEAN :
            Err(code, retryable) \in Heard /\ ~Missing(Err(code, retryable))
    BY DEF Err, Missing, Heard, Reply, Content
  <2>5. (map_rpc_error_code(o.words) \in
             {"node_unavailable", "rpc_unavailable", "submission_unknown"}) \in BOOLEAN
    OBVIOUS
  <2> QED
    BY <2>2, <2>3, <2>4, <2>5, Zenon
<1>3. CASE o \in {[kind |-> "answer", words |-> {}, content |-> c] : c \in Content}
  <2>1. o.kind = "answer" /\ o.content \in Content
    BY <1>3
  <2> QED
    BY <2>1 DEF call, Ok, Missing, Heard, Reply
<1> QED
  BY <1>1, <1>2, <1>3, Zenon DEF Outcome

\* The replies the client makes up itself.
LEMMA ReplyForms ==
    /\ \A content \in Content : Ok(content) \in Heard
    /\ Unsupported \in Heard /\ Err("rpc_unavailable", FALSE) \in Heard
    /\ Ok("nothing") \in Heard /\ Ok("full") \in Heard
  BY DEF Ok, Unsupported, Err, Heard, Reply, Missing, Content

\* The first method of a pair is VM2's, the second VM1's.
LEMMA PairsByVm ==
    ASSUME NEW op \in DOMAIN Pairs
    PROVE  /\ Pairs[op] = <<Pairs[op][1], Pairs[op][2]>>
           /\ Pairs[op][1] \in Vm2 \ Vm1
           /\ Pairs[op][2] \in Vm1 \ Vm2
           /\ Pairs[op][1] # "none" /\ Pairs[op][2] # "none"
  BY DEF Pairs, Vm1, Vm2

\* call_first_available over the methods of the profile: what is asked, and what
\* is returned.
LEMMA PairedStep ==
    ASSUME NEW op \in DOMAIN Pairs, NEW replies \in Seq(Heard), vm_profile \in Profile,
           Len(replies) <= Calls(vm_profile, op)
    PROVE  LET step == paired(op, replies)
               heard == replies # <<>> /\ ~Missing(Latest(replies))
           IN  /\ step.reply \in Heard
               /\ Asks(step) <=> ~heard /\ Len(replies) < Calls(vm_profile, op)
               /\ Asks(step) => step.ask \in Method /\ ~Excluded(vm_profile, step.ask)
               /\ ~Asks(step) => step.reply = IF heard THEN Latest(replies) ELSE Unsupported
<1> DEFINE methods == transaction_methods(Pairs[op][1], Pairs[op][2])
           heard == replies # <<>> /\ ~Missing(Latest(replies))
<1>1. methods \in Seq(Method) /\ Len(methods) = Calls(vm_profile, op)
  <2>1. Pairs[op][1] \in Method /\ Pairs[op][2] \in Method
    BY PairsByVm DEF Method
  <2>2. methods = IF vm_profile = "auto" THEN <<Pairs[op][1], Pairs[op][2]>>
                  ELSE IF vm_profile = "vm2_only" THEN <<Pairs[op][1]>> ELSE <<Pairs[op][2]>>
    BY DEF transaction_methods, Profile
  <2> HIDE DEF methods
  <2> QED
    BY <2>1, <2>2, PairsByVm DEF Calls
<1>2. \A i \in 1 .. Len(methods) : methods[i] # "none" /\ ~Excluded(vm_profile, methods[i])
  BY PairsByVm DEF transaction_methods, Calls, Profile, Excluded
<1>3. Unsupported \in Heard /\ Ok("nothing") \in Heard
  BY ReplyForms
<1>4. CASE heard
  <2>1. Latest(replies) \in Heard
    BY <1>4 DEF Latest
  <2>2. paired(op, replies) = Return(Latest(replies))
    BY <1>4 DEF paired, call_first_available
  <2> QED
    BY <1>4, <2>1, <2>2 DEF Return, Asks
<1>5. CASE ~heard /\ Len(replies) = Len(methods)
  <2>1. paired(op, replies) = Return(Unsupported)
    BY <1>5 DEF paired, call_first_available
  <2> QED
    BY <1>1, <1>3, <1>5, <2>1 DEF Return, Asks
<1>6. CASE ~heard /\ Len(replies) < Len(methods)
  <2>1. paired(op, replies) = Ask(methods[Len(replies) + 1])
    BY <1>6 DEF paired, call_first_available
  <2>2. Len(replies) + 1 \in 1 .. Len(methods)
    BY <1>1, <1>6
  <2> QED
    BY <1>1, <1>2, <1>3, <1>6, <2>1, <2>2 DEF Ask, Asks
<1> QED
  BY <1>1, <1>4, <1>5, <1>6

\* One method of the profile, whose reply is returned.
LEMMA SingleStep ==
    ASSUME NEW op \in {"chain_info", "get_state_root", "list_code",
                       "get_primary_stc_balance_resource"},
           NEW replies \in Seq(Heard), vm_profile \in Profile, Len(replies) <= 1
    PROVE  LET step == Proceed(op, replies)
           IN  /\ step.reply \in Heard
               /\ Asks(step) => replies = <<>> /\ step.ask \in Method /\ ~Excluded(vm_profile, step.ask)
               /\ replies # <<>> => ~Asks(step)
               /\ op = "chain_info" /\ ~Asks(step) => replies # <<>> /\ step.reply = Latest(replies)
<1>1. replies = <<>> \/ (Len(replies) = 1 /\ replies[1] \in Heard)
  OBVIOUS
<1>2. Ok("nothing") \in Heard
  BY ReplyForms
<1>3. CASE op = "chain_info"
  <2>1. Proceed(op, replies) = chain_info_uncached(replies)
    BY <1>3 DEF Proceed, Pairs
  <2> QED
    BY <1>1, <1>2, <1>3, <2>1
    DEF chain_info_uncached, Ask, Return, Asks, Method, Excluded, Vm1, Vm2, Latest
<1>4. CASE op = "get_state_root"
  <2>1. Proceed(op, replies) = get_state_root(replies)
    BY <1>4 DEF Proceed, Pairs
  <2> QED
    BY <1>1, <1>2, <1>4, <2>1
    DEF get_state_root, Ask, Return, Asks, Method, Excluded, Vm1, Vm2, Profile
<1>5. CASE op = "list_code"
  <2>1. Proceed(op, replies) = list_code(replies)
    BY <1>5 DEF Proceed, Pairs
  <2> QED
    BY <1>1, <1>2, <1>5, <2>1
    DEF list_code, Ask, Return, Asks, Method, Excluded, Vm1, Vm2, Profile
<1>6. CASE op = "get_primary_stc_balance_resource"
  <2>1. Proceed(op, replies) = get_primary_stc_balance_resource(replies)
    BY <1>6 DEF Proceed, Pairs
  <2> QED
    BY <1>1, <1>2, <1>6, <2>1
    DEF get_primary_stc_balance_resource, Ask, Return, Asks, Method, Excluded, Vm1, Vm2, Profile
<1> QED
  BY <1>3, <1>4, <1>5, <1>6

\* The empty sequence is the one of length 0.
LEMMA NoElements ==
    ASSUME NEW S
    PROVE  /\ <<>> \in Seq(S) /\ Len(<<>>) = 0
           /\ \A seq \in Seq(S) : seq # <<>> => Len(seq) \in Nat \ {0}
OBVIOUS

\* What is appended comes last, and nothing else changes.
LEMMA Appended ==
    ASSUME NEW S, NEW s \in Seq(S), NEW e \in S
    PROVE  /\ Append(s, e) \in Seq(S)
           /\ \A i \in DOMAIN Append(s, e) :
                 \/ Append(s, e)[i] = e
                 \/ i \in DOMAIN s /\ Append(s, e)[i] = s[i]
OBVIOUS

\* A sequence with a length is not empty.
LEMMA NonEmpty ==
    ASSUME NEW s, Len(s) # 0
    PROVE  s # <<>>
<1>1. Len(<<>>) = 0
  OBVIOUS
<1> QED
  BY <1>1, Zenon

\* What is left of a sequence without its first element.
LEMMA TailFacts ==
    ASSUME NEW S, NEW s \in Seq(S), s # <<>>
    PROVE  /\ s[1] \in S
           /\ Tail(s) \in Seq(S)
           /\ Len(Tail(s)) = Len(s) - 1
           /\ Len(s) = 1 => Tail(s) = <<>>
           /\ Len(s) # 1 => Tail(s) # <<>> /\ Tail(s)[1] = s[2]
           /\ Len(s) = 2 => Len(Tail(s)) = 1
           /\ Len(s) = 3 => Len(Tail(s)) = 2 /\ Tail(s)[2] = s[3]
<1>1. Len(s) \in Nat \ {0} /\ s[1] \in S
  OBVIOUS
<1>2. Tail(s) \in Seq(S) /\ Len(Tail(s)) = Len(s) - 1
  BY <1>1
<1>3. Len(s) = 1 => Tail(s) = <<>>
  <2>1. Tail(s) # <<>> => Len(Tail(s)) \in Nat \ {0}
    BY <1>2
  <2> QED
    BY <1>1, <1>2, <2>1
<1>4. Len(s) # 1 => Tail(s) # <<>> /\ Tail(s)[1] = s[2]
  <2> SUFFICES ASSUME Len(s) # 1
               PROVE  Tail(s) # <<>> /\ Tail(s)[1] = s[2]
    OBVIOUS
  <2> DEFINE n == Len(s)
  <2>1. n \in Nat /\ n # 0 /\ n # 1 /\ Len(Tail(s)) = n - 1
    BY <1>1, <1>2
  <2> HIDE DEF n
  <2>2. n >= 2 /\ n - 1 # 0
    BY <2>1
  <2>3. Len(Tail(s)) # 0
    BY <2>1, <2>2
  <2>4. Tail(s)[1] = s[2]
    BY <2>2 DEF n
  <2> QED
    BY <2>3, <2>4, NonEmpty, Zenon
<1>5. Len(s) = 2 => Len(Tail(s)) = 1
  BY <1>2
<1>6. Len(s) = 3 => Len(Tail(s)) = 2
  BY <1>2
<1>7. Len(s) = 3 => Tail(s)[2] = s[3]
  <2> SUFFICES ASSUME Len(s) = 3  PROVE Tail(s)[2] = s[3]
    BY Zenon
  <2>1. 2 \in 1 .. Len(Tail(s))
    BY <1>6
  <2> QED
    BY <2>1
<1> QED
  BY <1>1, <1>2, <1>3, <1>4, <1>5, <1>6, <1>7, Zenon

\* The lengths that matter.
LEMMA SmallLengths ==
    \A n \in Nat : /\ n <= 1 => n = 0 \/ n = 1
                   /\ n <= 2 => n = 0 \/ n = 1 \/ n = 2
                   /\ n <= 3 => n = 0 \/ n = 1 \/ n = 2 \/ n = 3
  OBVIOUS

\* VM2's resource listing: a malformed one is an error.
LEMMA Vm2ListingStep ==
    ASSUME NEW replies \in Seq(Heard)
    PROVE  LET step == list_resources_via_vm2(replies)
           IN  /\ step.reply \in Heard
               /\ replies = <<>> => step.ask = "state2.list_resource"
               /\ Asks(step) => replies = <<>>
               /\ ~Asks(step) => replies # <<>>
               /\ ~Asks(step) /\ Harmless(step.reply) => step.reply = replies[1]
<1>1. replies # <<>> => replies[1] \in Heard
  OBVIOUS
<1> QED
  BY <1>1, ReplyForms
  DEF list_resources_via_vm2, Ask, Return, Asks, Harmless, Err, Missing

\* The resource listing of the profile: VM2 is asked only if the legacy method
\* is missing or has nothing, and a failing call is never hidden.
LEMMA ListingStep ==
    ASSUME NEW replies \in Seq(Heard), vm_profile \in Profile,
           Len(replies) <= IF vm_profile = "auto" THEN 2 ELSE 1,
           Len(replies) = 2 => Retried(replies[1])
    PROVE  LET step == list_resources(replies)
           IN  /\ step.reply \in Heard
               /\ Asks(step) => /\ Len(replies) < IF vm_profile = "auto" THEN 2 ELSE 1
                                /\ step.ask \in Method /\ ~Excluded(vm_profile, step.ask)
                                /\ Len(replies) = 1 => Retried(replies[1])
               /\ ~Asks(step) => replies # <<>>
               /\ ~Asks(step) /\ Harmless(step.reply) =>
                      \A i \in DOMAIN replies : Harmless(replies[i])
<1> DEFINE step == list_resources(replies)
           vm2  == list_resources_via_vm2(Tail(replies))
<1>2. "state2.list_resource" \in Vm2 \ Vm1 /\ "state.list_resource" \in Vm1 \ Vm2
  BY DEF Vm1, Vm2
<1>3. CASE vm_profile = "vm2_only"
  <2>1. step = list_resources_via_vm2(replies)
    BY <1>3 DEF list_resources
  <2> QED
    BY <1>2, <1>3, <2>1, Vm2ListingStep DEF Method, Excluded
<1>4. CASE vm_profile # "vm2_only" /\ replies = <<>>
  <2>1. step = Ask("state.list_resource")
    BY <1>4 DEF list_resources
  <2> QED
    BY <1>2, <1>4, <2>1, ReplyForms DEF Ask, Asks, Method, Excluded
<1>5. CASE vm_profile = "vm1_only" /\ replies # <<>>
  <2>1. step = Return(replies[1])
    BY <1>5 DEF list_resources
  <2> QED
    BY <1>5, <2>1 DEF Return, Asks
<1>6. CASE vm_profile = "auto" /\ replies # <<>>
  <2>1. /\ Tail(replies) \in Seq(Heard) /\ replies[1] \in Heard
        /\ (Len(replies) = 1 \/ Len(replies) = 2)
        /\ Len(replies) = 1 => Tail(replies) = <<>>
        /\ Len(replies) = 2 => Tail(replies) # <<>> /\ Tail(replies)[1] = replies[2]
    <3>0. Len(replies) \in Nat \ {0}
      BY <1>6, NoElements
    <3>1. Len(replies) <= 2 /\ Len(replies) # 0
      BY <3>0, <1>6
    <3>2. (Len(replies) = 1 \/ Len(replies) = 2)
      BY <3>0, <3>1, SmallLengths, Zenon
    <3>3. Len(replies) = 2 => Len(replies) # 1
      OBVIOUS
    <3> QED
      BY <1>6, <3>2, <3>3, TailFacts, Zenon
  <2>2. step = IF ~Retried(replies[1]) THEN Return(replies[1])
               ELSE IF replies[1].ok /\ ~Asks(vm2) /\ Missing(vm2.reply)
               THEN Return(replies[1]) ELSE vm2
    BY <1>6, <2>1 DEF list_resources, Retried, Heard
  <2>3. /\ vm2.reply \in Heard
        /\ Asks(vm2) => Len(replies) = 1 /\ vm2.ask = "state2.list_resource"
        /\ Len(replies) = 1 => Asks(vm2)
        /\ ~Asks(vm2) /\ Harmless(vm2.reply) => vm2.reply = replies[2]
    BY <2>1, Vm2ListingStep, Zenon DEF Asks
  <2> HIDE DEF step, vm2
  <2>4. CASE ~Retried(replies[1])
    BY <1>6, <2>1, <2>2, <2>4 DEF step, Return, Asks
  <2>5. CASE Retried(replies[1]) /\ Len(replies) = 1
    BY <1>2, <1>6, <2>1, <2>2, <2>3, <2>5 DEF step, Method, Excluded
  <2>6. CASE Retried(replies[1]) /\ Len(replies) = 2
    <3>1. ~Asks(step) /\ step.reply \in Heard
      BY <2>1, <2>2, <2>3, <2>6 DEF Return, Asks
    <3>2. Harmless(step.reply) => Harmless(vm2.reply)
      BY <2>2, <2>3, <2>6 DEF Harmless, Missing
    <3>3. Harmless(replies[1])
      BY <2>6 DEF Retried, Harmless
    <3> QED
      BY <1>6, <2>1, <2>3, <2>6, <3>1, <3>2, <3>3 DEF step
  <2> QED
    BY <2>1, <2>4, <2>5, <2>6, Zenon
<1> QED
  BY <1>3, <1>4, <1>5, <1>6, Zenon DEF Profile

\* The account state: a listing completes a legacy answer only if the legacy
\* method is missing or shows no sequence number, and "no such account" is
\* returned only if no call failed.
LEMMA AccountStep ==
    ASSUME NEW replies \in Seq(Heard), vm_profile \in Profile,
           Len(replies) <= Calls(vm_profile, "get_account_state"),
           Len(replies) \in {2, 3} => Unfinished(replies[1]),
           Len(replies) = 3 => Retried(replies[2])
    PROVE  LET step == get_account_state(replies)
           IN  /\ step.reply \in Heard
               /\ Asks(step) => /\ Len(replies) < Calls(vm_profile, "get_account_state")
                                /\ step.ask \in Method /\ ~Excluded(vm_profile, step.ask)
                                /\ Len(replies) = 1 => Unfinished(replies[1])
                                /\ Len(replies) = 2 => Retried(replies[2])
               /\ ~Asks(step) /\ step.reply = Ok("nothing") =>
                      \A i \in DOMAIN replies : Harmless(replies[i])
<1> DEFINE step == get_account_state(replies)
           rest == Tail(replies)
           listing == list_resources(rest)
           listed == synthesize_account_state_from_resources(listing)
<1>1. Calls(vm_profile, "get_account_state") = IF vm_profile = "vm2_only" THEN 1
                                   ELSE IF vm_profile = "auto" THEN 3 ELSE 2
  BY DEF Calls, Pairs
<1>2. "state2.list_resource" \in Vm2 \ Vm1 /\ "state.get_account_state" \in Vm1 \ Vm2
  BY DEF Vm1, Vm2
<1>3. ASSUME NEW s, s.reply \in Heard
      PROVE  LET t == synthesize_account_state_from_resources(s)
             IN  /\ t.reply \in Heard
                 /\ Asks(t) <=> Asks(s)
                 /\ Asks(s) => t = s
                 /\ Harmless(t.reply) => Harmless(s.reply)
  BY <1>3, ReplyForms, Zenon DEF synthesize_account_state_from_resources, Asks, Return, Harmless
<1>4. CASE vm_profile = "vm2_only"
  <2> DEFINE direct == list_resources_via_vm2(replies)
  <2>1. step = synthesize_account_state_from_resources(direct)
    BY <1>4 DEF get_account_state
  <2>2. Len(replies) <= 1
    BY <1>1, <1>4
  <2>3. /\ direct.reply \in Heard
        /\ Asks(direct) => replies = <<>> /\ direct.ask = "state2.list_resource"
        /\ ~Asks(direct) => replies # <<>>
        /\ ~Asks(direct) /\ Harmless(direct.reply) => direct.reply = replies[1]
    BY Vm2ListingStep
  <2> HIDE DEF step, direct
  <2>4. Harmless(Ok("nothing"))
    BY DEF Harmless, Ok
  <2>5. ~Asks(step) /\ step.reply = Ok("nothing") => Harmless(replies[1])
    BY <1>3, <2>1, <2>3, <2>4
  <2>6. \A i \in DOMAIN replies : i = 1
    BY <2>2
  <2>7. Asks(step) => replies = <<>> /\ step.ask = "state2.list_resource"
    BY <1>3, <2>1, <2>3
  <2>8. step.reply \in Heard
    BY <1>3, <2>1, <2>3
  <2> QED
    BY <1>1, <1>2, <1>4, <2>5, <2>6, <2>7, <2>8 DEF step, Method, Excluded
<1>5. CASE vm_profile # "vm2_only" /\ replies = <<>>
  <2>1. step = Ask("state.get_account_state")
    BY <1>5 DEF get_account_state
  <2> QED
    BY <1>1, <1>2, <1>5, <2>1, ReplyForms DEF Ask, Asks, Method, Excluded
<1>6. CASE vm_profile # "vm2_only" /\ replies # <<>>
  <2>1. Len(replies) \in Nat \ {0}
    BY <1>6, NoElements
  <2>2. Len(replies) <= 3 /\ Len(replies) # 0 /\ (vm_profile # "auto" => Len(replies) <= 2)
    BY <1>1, <1>6, <2>1
  <2>3. /\ Len(replies) = 1 \/ Len(replies) = 2 \/ Len(replies) = 3
        /\ vm_profile # "auto" => Len(replies) = 1 \/ Len(replies) = 2
    BY <2>1, <2>2, SmallLengths, Zenon
  <2>4. /\ replies[1] \in Heard /\ rest \in Seq(Heard)
        /\ Len(replies) = 1 => rest = <<>> /\ Len(rest) = 0
        /\ Len(replies) # 1 => rest # <<>> /\ rest[1] = replies[2]
        /\ Len(replies) = 2 => Len(rest) = 1
        /\ Len(replies) = 3 => Len(rest) = 2 /\ rest[2] = replies[3]
    BY <1>6, TailFacts, NoElements
  <2> HIDE DEF rest
  <2>5. /\ Len(rest) <= IF vm_profile = "auto" THEN 2 ELSE 1
        /\ Len(rest) = 2 => Len(replies) = 3
    BY <2>3, <2>4
  <2>6. Len(rest) = 2 => Retried(rest[1])
    BY <2>4, <2>5
  <2>7. /\ listing.reply \in Heard
        /\ Asks(listing) => /\ Len(rest) < IF vm_profile = "auto" THEN 2 ELSE 1
                            /\ listing.ask \in Method /\ ~Excluded(vm_profile, listing.ask)
                            /\ Len(rest) = 1 => Retried(rest[1])
        /\ ~Asks(listing) /\ Harmless(listing.reply) =>
               \A i \in DOMAIN rest : Harmless(rest[i])
    BY <2>4, <2>5, <2>6, ListingStep, Zenon
  <2>8. /\ listed.reply \in Heard
        /\ Asks(listed) <=> Asks(listing)
        /\ Asks(listing) => listed = listing
        /\ Harmless(listed.reply) => Harmless(listing.reply)
    BY <1>3, <2>7, Zenon
  <2>9. step = IF ~Unfinished(replies[1]) THEN Return(replies[1])
               ELSE IF /\ replies[1].ok /\ ~Asks(listed)
                       /\ Missing(listed.reply) \/ listed.reply = Ok("nothing")
               THEN Return(replies[1]) ELSE listed
    BY <1>6, <2>4 DEF get_account_state, Unfinished, Heard, rest
  <2> HIDE DEF listed, listing, step
  <2>10. Harmless(Ok("nothing"))
    BY DEF Harmless, Ok
  <2>11. CASE ~Unfinished(replies[1])
    <3>1. Len(replies) = 1
      BY <2>3, <2>11
    <3>2. \A i \in DOMAIN replies : i = 1
      BY <3>1
    <3>3. step.reply = replies[1] /\ ~Asks(step)
      BY <2>9, <2>11 DEF Return, Asks
    <3> QED
      BY <2>4, <2>10, <3>2, <3>3, Zenon DEF step
  <2>12. CASE Unfinished(replies[1]) /\ Asks(listed)
    <3>1. step = listing /\ Asks(listing)
      BY <2>8, <2>9, <2>12
    <3>2. Len(replies) = 2 => Retried(replies[2])
      BY <2>4, <2>7, <3>1
    <3>3. Len(replies) < Calls(vm_profile, "get_account_state")
      <4>1. Calls(vm_profile, "get_account_state") = IF vm_profile = "auto" THEN 3 ELSE 2
        BY <1>1, <1>6
      <4>2. Len(rest) < IF vm_profile = "auto" THEN 2 ELSE 1
        BY <2>7, <3>1, Zenon
      <4>3. CASE Len(replies) = 1
        BY <4>1, <4>3
      <4>4. CASE Len(replies) = 2
        BY <2>4, <4>1, <4>2, <4>4
      <4>5. CASE Len(replies) = 3
        <5>1. Len(rest) = 2
          BY <2>4, <4>5
        <5>2. ~(2 < IF vm_profile = "auto" THEN 2 ELSE 1)
          OBVIOUS
        <5> QED
          BY <4>2, <5>1, <5>2
      <4> QED
        BY <2>3, <4>3, <4>4, <4>5
    <3> QED
      BY <2>7, <2>12, <3>1, <3>2, <3>3, Zenon DEF step
  <2>13. CASE Unfinished(replies[1]) /\ ~Asks(listed)
    <3>1. ~Asks(step) /\ step.reply \in Heard
      BY <2>4, <2>8, <2>9, <2>13 DEF Return, Asks
    <3>2. step.reply = Ok("nothing") => Harmless(listed.reply)
      BY <2>9, <2>10, <2>13 DEF Harmless
    <3>3. step.reply = Ok("nothing") => \A i \in DOMAIN rest : Harmless(rest[i])
      BY <2>7, <2>8, <2>13, <3>2, Zenon
    <3>4. Harmless(replies[1])
      BY <2>13, Zenon DEF Unfinished, Harmless
    <3>5. ASSUME step.reply = Ok("nothing"), NEW i \in DOMAIN replies
          PROVE  Harmless(replies[i])
      <4>1. CASE Len(replies) = 1
        BY <3>4, <4>1
      <4>2. CASE Len(replies) = 2
        BY <2>4, <3>3, <3>4, <3>5, <4>2
      <4>3. CASE Len(replies) = 3
        BY <2>4, <3>3, <3>4, <3>5, <4>3
      <4> QED
        BY <2>3, <4>1, <4>2, <4>3
    <3> QED
      BY <3>1, <3>5 DEF step
  <2> QED
    BY <2>11, <2>12, <2>13, Zenon
<1> QED
  BY <1>4, <1>5, <1>6, Zenon

\* Submission: like every pair, but an answer that is no hash is an error.
LEMMA SubmitStep ==
    ASSUME NEW replies \in Seq(Heard), vm_profile \in Profile,
           Len(replies) <= Calls(vm_profile, "submit_signed_transaction")
    PROVE  LET step == Proceed("submit_signed_transaction", replies)
           IN  /\ step.reply \in Heard
               /\ Asks(step) => /\ Len(replies) < Calls(vm_profile, "submit_signed_transaction")
                                /\ step.ask \in Method /\ ~Excluded(vm_profile, step.ask)
                                /\ replies = <<>> \/ Missing(Latest(replies))
               /\ ~Asks(step) /\ Missing(step.reply) => replies = <<>> \/ Missing(Latest(replies))
<1> DEFINE op == "submit_signed_transaction"
           pair == paired(op, replies)
<1>1. op \in DOMAIN Pairs
  BY Zenon DEF Pairs
<1>2. Proceed(op, replies) = IF ~Asks(pair) /\ pair.reply.ok /\ pair.reply.content # "full"
                             THEN Return(Err("rpc_unavailable", FALSE)) ELSE pair
  BY DEF Proceed, submit_signed_transaction
<1>3. /\ pair.reply \in Heard
      /\ Asks(pair) => /\ Len(replies) < Calls(vm_profile, op)
                       /\ pair.ask \in Method /\ ~Excluded(vm_profile, pair.ask)
                       /\ replies = <<>> \/ Missing(Latest(replies))
      /\ ~Asks(pair) /\ ~(replies = <<>> \/ Missing(Latest(replies))) => pair.reply = Latest(replies)
  BY <1>1, PairedStep, Zenon
<1> HIDE DEF op, pair
<1>4. CASE ~Asks(pair) /\ pair.reply.ok /\ pair.reply.content # "full"
  <2>1. Proceed(op, replies) = Return(Err("rpc_unavailable", FALSE))
    BY <1>2, <1>4, Zenon
  <2>2. ~Missing(Err("rpc_unavailable", FALSE))
    BY DEF Err, Missing
  <2>3. ~Asks(Proceed(op, replies)) /\ Proceed(op, replies).reply = Err("rpc_unavailable", FALSE)
    BY <2>1 DEF Return, Asks
  <2> QED
    BY <2>2, <2>3, ReplyForms, Zenon DEF op
<1>5. CASE ~(~Asks(pair) /\ pair.reply.ok /\ pair.reply.content # "full")
  BY <1>2, <1>3, <1>5, Zenon DEF op
<1> QED
  BY <1>4, <1>5, Zenon

\* A cached operation returns what it heard last, and returns it at once.
LEMMA CachedStep ==
    ASSUME NEW op \in Cached, NEW replies \in Seq(Heard), vm_profile \in Profile,
           Len(replies) <= Calls(vm_profile, op)
    PROVE  LET step == Proceed(op, replies)
           IN  /\ ~Asks(step) /\ step.reply.ok => replies # <<>> /\ Latest(replies).ok
               /\ replies # <<>> /\ Latest(replies).ok => ~Asks(step)
<1>1. CASE op = "chain_info"
  <2>1. Calls(vm_profile, op) = 1
    BY <1>1, Zenon DEF Calls, Pairs
  <2> QED
    BY <1>1, <2>1, SingleStep, Zenon
<1>2. CASE op # "chain_info"
  <2>1. op \in DOMAIN Pairs \ {"submit_signed_transaction"}
    BY <1>2, Zenon DEF Cached, Pairs
  <2>2. Proceed(op, replies) = paired(op, replies)
    BY <1>2, <2>1 DEF Cached, Proceed
  <2>3. ~Unsupported.ok
    BY DEF Unsupported, Err
  <2>4. replies # <<>> => Latest(replies) \in Heard
    BY DEF Latest
  <2> QED
    BY <2>1, <2>2, <2>3, <2>4, PairedStep, Zenon DEF Heard
<1> QED
  BY <1>1, <1>2

\* What every operation does: it makes a bounded number of calls, none of them
\* to a method that the profile excludes.
LEMMA ProceedStep ==
    ASSUME NEW op \in Operation, NEW replies \in Seq(Heard), vm_profile \in Profile,
           Len(replies) <= Calls(vm_profile, op),
           op = "list_resources" /\ Len(replies) = 2 => Retried(replies[1]),
           op = "get_account_state" /\ Len(replies) \in {2, 3} => Unfinished(replies[1]),
           op = "get_account_state" /\ Len(replies) = 3 => Retried(replies[2])
    PROVE  LET step == Proceed(op, replies)
           IN  /\ step.reply \in Heard
               /\ Asks(step) => /\ Len(replies) < Calls(vm_profile, op)
                                /\ step.ask \in Method /\ ~Excluded(vm_profile, step.ask)
<1>1. CASE op = "submit_signed_transaction"
  BY <1>1, SubmitStep, Zenon
<1>2. CASE op \in DOMAIN Pairs \ {"submit_signed_transaction"}
  <2>1. Proceed(op, replies) = paired(op, replies)
    BY <1>2 DEF Proceed, Pairs
  <2> QED
    BY <1>2, <2>1, PairedStep, Zenon
<1>3. CASE op \in {"chain_info", "get_state_root", "list_code",
                   "get_primary_stc_balance_resource"}
  <2>1. Calls(vm_profile, op) = 1
    BY <1>3, Zenon DEF Calls, Pairs
  <2>2. Len(<<>>) < 1
    OBVIOUS
  <2> QED
    BY <1>3, <2>1, <2>2, SingleStep, Zenon
<1>4. CASE op = "list_resources"
  <2>1. Proceed(op, replies) = list_resources(replies)
    BY <1>4 DEF Proceed, Pairs
  <2>2. Calls(vm_profile, op) = IF vm_profile = "auto" THEN 2 ELSE 1
    BY <1>4 DEF Calls
  <2> QED
    BY <1>4, <2>1, <2>2, ListingStep, Zenon
<1>5. CASE op = "get_account_state"
  <2>1. Proceed(op, replies) = get_account_state(replies)
    BY <1>5 DEF Proceed, Pairs
  <2> QED
    BY <1>5, <2>1, AccountStep, Zenon
<1> QED
  BY <1>1, <1>2, <1>3, <1>4, <1>5, Zenon DEF Operation
---------------------------------------------------------------------------
(* The invariant.                                                          *)

ClientState ==
    [stage : {"idle", "run", "flight", "done"}, op : Op \cup {"none"},
     key : Key \cup Op \cup {"none"}, replies : Seq(Heard), asked : Seq(Method),
     flight : Heard, observed_at : Nat, result : Heard, done_at : Nat, executed : Nat]

\* Replies an operation can have had ...
Consistent(profile, op, replies) ==
    /\ Len(replies) <= Calls(profile, op)
    /\ op = "list_resources" /\ Len(replies) = 2 => Retried(replies[1])
    /\ op = "get_account_state" /\ Len(replies) \in {2, 3} => Unfinished(replies[1])
    /\ op = "get_account_state" /\ Len(replies) = 3 => Retried(replies[2])

\* ... and those it goes on after.
Asking(profile, op, replies) ==
    /\ Len(replies) < Calls(profile, op)
    /\ op = "list_resources" /\ Len(replies) = 1 => Retried(replies[1])
    /\ op = "get_account_state" /\ Len(replies) = 1 => Unfinished(replies[1])
    /\ op = "get_account_state" /\ Len(replies) = 2 => Retried(replies[2])

\* The calls an operation has made.
CallsOK(x, profile) ==
    /\ x.stage # "idle" => x.op \in Op /\ Consistent(profile, x.op, x.replies)
    /\ x.stage = "flight" => Asking(profile, x.op, x.replies)
    /\ \A i \in DOMAIN x.asked : ~Excluded(profile, x.asked[i])

\* A submission: until a method answers it, no method has executed it.
SubmitOK(x) ==
    x.op = "submit_signed_transaction" =>
        /\ x.executed <= 1
        /\ x.stage = "run" /\ (x.replies = <<>> \/ Missing(Latest(x.replies))) => x.executed = 0
        /\ x.stage = "flight" /\ Missing(x.flight) => x.executed = 0
        /\ x.stage = "done" /\ Missing(x.result) => x.executed = 0

AbsentOK(x) ==
    x.stage = "done" /\ x.op = "get_account_state" /\ x.result = Ok("nothing") =>
        \A i \in DOMAIN x.replies : Harmless(x.replies[i])

\* A call on its way, and an answer that is about to be returned, are recent.
TimeOK(x, time) ==
    /\ x.stage = "flight" => time - x.observed_at <= RequestTimeout
    /\ x.stage = "run" /\ x.op \in Cached /\ x.replies # <<>> /\ Latest(x.replies).ok =>
           time - x.observed_at <= RequestTimeout
    /\ x.stage = "done" /\ x.op \in Cached /\ x.result.ok =>
           x.done_at - x.observed_at <= CacheTtl[CacheOf(x.op)] + RequestTimeout

ClientOK(x, profile, time) ==
    x \in ClientState /\ CallsOK(x, profile) /\ SubmitOK(x) /\ AbsentOK(x) /\ TimeOK(x, time)

\* An entry was observed at most one request before it was inserted.
EntryOK(entry) ==
    /\ entry \in [content : Content, inserted_at : Nat, observed_at : Nat]
    /\ entry.inserted_at - entry.observed_at <= RequestTimeout

CacheOK(entries, which) ==
    /\ IsFiniteSet(DOMAIN entries)
    /\ Cardinality(DOMAIN entries) <= CacheCapacity[which]
    /\ \A key \in DOMAIN entries : EntryOK(entries[key])

CachesOK(caches) ==
    DOMAIN caches = Caches /\ \A which \in Caches : CacheOK(caches[which], which)

RpcInv ==
    /\ vm_profile \in Profile /\ now \in Nat
    /\ DOMAIN client = Client
    /\ client = [c \in Client |-> client[c]]
    /\ \A c \in Client : ClientOK(client[c], vm_profile, now)
    /\ CachesOK(cache)
---------------------------------------------------------------------------
\* One operation changes, and time stands still.
LEMMA OneClient ==
    ASSUME RpcInv, NEW c \in Client, NEW x, client' = [client EXCEPT ![c] = x],
           ClientOK(x, vm_profile, now), CachesOK(cache'),
           vm_profile' = vm_profile, now' = now
    PROVE  RpcInv'
<1>1. DOMAIN client' = Client /\ client' = [d \in Client |-> client'[d]]
  BY DEF RpcInv
<1>2. ASSUME NEW d \in Client
      PROVE  ClientOK(client'[d], vm_profile', now')
  BY DEF RpcInv
<1> QED
  BY <1>1, <1>2 DEF RpcInv

\* The limits.
LEMMA Limits ==
    /\ RequestTimeout \in Nat
    /\ \A which \in Caches : CacheTtl[which] \in Nat /\ CacheCapacity[which] \in Nat
    /\ \A op : CacheOf(op) \in Caches
    /\ Op \subseteq Operation /\ Exchange \subseteq Outcome /\ VmProfile \subseteq Profile
  BY RpcAssumption DEF RpcAssumption, Caches, CacheOf, Profile

\* An idle client.
LEMMA IdleOK ==
    ASSUME NEW profile \in Profile, NEW time \in Nat
    PROVE  /\ Idle \in ClientState
           /\ ClientOK(Idle, profile, time)
<1>1. Idle \in ClientState
  BY ReplyForms DEF Idle, ClientState
<1> QED
  BY <1>1 DEF Idle, ClientOK, CallsOK, SubmitOK, AbsentOK, TimeOK

\* A reply to what was asked keeps the replies consistent.
LEMMA AppendReply ==
    ASSUME NEW profile \in Profile, NEW op, NEW replies \in Seq(Heard), NEW reply \in Heard,
           Consistent(profile, op, replies), Asking(profile, op, replies)
    PROVE  /\ Append(replies, reply) \in Seq(Heard)
           /\ Append(replies, reply) # <<>>
           /\ Latest(Append(replies, reply)) = reply
           /\ Consistent(profile, op, Append(replies, reply))
<1> DEFINE n == Len(replies)
           longer == Append(replies, reply)
<1>1. n \in Nat /\ longer \in Seq(Heard) /\ Len(longer) = n + 1
  OBVIOUS
<1>2. /\ longer[n + 1] = reply
      /\ n >= 1 => longer[1] = replies[1]
      /\ n >= 2 => longer[2] = replies[2]
  OBVIOUS
<1>3. longer # <<>>
  BY <1>1
<1>4. Latest(longer) = reply
  BY <1>1, <1>2, Zenon DEF Latest
<1>5. Calls(profile, op) \in Nat
  BY DEF Calls
<1> HIDE DEF n, longer
<1>6. /\ n + 1 <= Calls(profile, op) <=> n < Calls(profile, op)
      /\ n + 1 = 2 => n = 1 /\ n >= 1
      /\ n + 1 = 3 => n = 2 /\ n >= 2 /\ n >= 1
  BY <1>1, <1>5
<1>7. Len(longer) <= Calls(profile, op)
  BY <1>1, <1>6, Zenon DEF Asking, n
<1>8. op = "list_resources" /\ Len(longer) = 2 => Retried(longer[1])
  BY <1>1, <1>2, <1>6, Zenon DEF Asking, n
<1>9. op = "get_account_state" /\ Len(longer) \in {2, 3} => Unfinished(longer[1])
  BY <1>1, <1>2, <1>6, Zenon DEF Asking, Consistent, n
<1>10. op = "get_account_state" /\ Len(longer) = 3 => Retried(longer[2])
  BY <1>1, <1>2, <1>6, Zenon DEF Asking, n
<1> QED
  BY <1>1, <1>3, <1>4, <1>7, <1>8, <1>9, <1>10, Zenon DEF Consistent, longer

\* What an operation under way does next.
LEMMA StepFacts ==
    ASSUME RpcInv, NEW c \in Client, client[c].stage = "run"
    PROVE  /\ client[c] \in ClientState /\ client[c].op \in Op
           /\ Step(c).reply \in Heard
           /\ Asks(Step(c)) => /\ Asking(vm_profile, client[c].op, client[c].replies)
                               /\ Step(c).ask \in Method /\ ~Excluded(vm_profile, Step(c).ask)
<1> DEFINE op == client[c].op
           replies == client[c].replies
<1>1. /\ client[c] \in ClientState /\ op \in Op /\ vm_profile \in Profile
      /\ Consistent(vm_profile, op, replies)
  BY Zenon DEF RpcInv, ClientOK, CallsOK
<1>2. replies \in Seq(Heard) /\ op \in Operation
  BY <1>1, Limits, Zenon DEF ClientState
<1>3. Step(c) = Proceed(op, replies)
  BY Zenon DEF Step
<1> HIDE DEF op, replies
<1>4. /\ Step(c).reply \in Heard
      /\ Asks(Step(c)) => /\ Len(replies) < Calls(vm_profile, op)
                          /\ Step(c).ask \in Method /\ ~Excluded(vm_profile, Step(c).ask)
  BY <1>1, <1>2, <1>3, ProceedStep, Zenon DEF Consistent
<1>5. ASSUME op = "list_resources", Asks(Step(c)), Len(replies) = 1
      PROVE  Retried(replies[1])
  <2>1. Step(c) = list_resources(replies)
    BY <1>3, <1>5 DEF Proceed, Pairs
  <2>2. Calls(vm_profile, op) = IF vm_profile = "auto" THEN 2 ELSE 1
    BY <1>5, Zenon DEF Calls
  <2> QED
    BY <1>1, <1>2, <1>5, <2>1, <2>2, ListingStep, Zenon DEF Consistent
<1>6. ASSUME op = "get_account_state", Asks(Step(c))
      PROVE  /\ Len(replies) = 1 => Unfinished(replies[1])
             /\ Len(replies) = 2 => Retried(replies[2])
  <2>1. Step(c) = get_account_state(replies)
    BY <1>3, <1>6 DEF Proceed, Pairs
  <2> QED
    BY <1>1, <1>2, <1>6, <2>1, AccountStep, Zenon DEF Consistent
<1> QED
  BY <1>1, <1>4, <1>5, <1>6, Zenon DEF Asking, op, replies

\* An operation that has asked nothing is sound once its times are.
LEMMA NothingAsked ==
    ASSUME NEW x \in ClientState, NEW profile \in Profile, NEW time, TimeOK(x, time),
           x.stage \in {"run", "done"}, x.op \in Op,
           x.replies = <<>>, x.asked = <<>>, x.executed = 0
    PROVE  ClientOK(x, profile, time)
<1>1. Consistent(profile, x.op, x.replies)
  BY DEF Consistent, Calls
<1>2. DOMAIN x.asked = {} /\ DOMAIN x.replies = {} /\ x.executed <= 1
  OBVIOUS
<1> QED
  BY <1>1, <1>2, Zenon DEF ClientOK, CallsOK, SubmitOK, AbsentOK

LEMMA BeginInv ==
    ASSUME RpcInv, NEW c \in Client, Begin(c)
    PROVE  RpcInv'
<1>1. /\ vm_profile \in Profile /\ now \in Nat /\ CachesOK(cache)
      /\ UNCHANGED <<vm_profile, now, cache>>
  BY DEF RpcInv, Begin, world
<1>2. PICK op \in Op, key \in Key \cup Op :
          /\ op \in Cached \ {"chain_info"} \/ key = op
          /\ client' = [client EXCEPT ![c] =
               IF op \in Cached /\ get(CacheOf(op), key)
               THEN [Idle EXCEPT !.stage = "done", !.op = op, !.key = key, !.done_at = now,
                                 !.result = Ok(cache[CacheOf(op)][key].content),
                                 !.observed_at = cache[CacheOf(op)][key].observed_at]
               ELSE [Idle EXCEPT !.stage = "run", !.op = op, !.key = key]]
  BY Zenon DEF Begin
<1>3. CASE op \in Cached /\ get(CacheOf(op), key)
  <2> DEFINE entry == cache[CacheOf(op)][key]
             x == [Idle EXCEPT !.stage = "done", !.op = op, !.key = key, !.done_at = now,
                               !.result = Ok(entry.content),
                               !.observed_at = entry.observed_at]
  <2>1. EntryOK(entry) /\ now - entry.inserted_at <= CacheTtl[CacheOf(op)]
    BY <1>1, <1>3, Limits, Zenon DEF get, CachesOK, CacheOK
  <2>2. /\ entry.content \in Content /\ entry.observed_at \in Nat /\ entry.inserted_at \in Nat
        /\ entry.inserted_at - entry.observed_at <= RequestTimeout
    BY <2>1, Zenon DEF EntryOK
  <2> HIDE DEF entry
  <2>3. now - entry.observed_at <= CacheTtl[CacheOf(op)] + RequestTimeout
    BY <1>1, <2>1, <2>2, Limits
  <2>4. x \in ClientState
    BY <1>1, <2>2, IdleOK, ReplyForms, Zenon DEF ClientState, Idle
  <2>5. /\ x.stage = "done" /\ x.op = op /\ x.done_at = now /\ x.observed_at = entry.observed_at
        /\ x.replies = <<>> /\ x.asked = <<>> /\ x.executed = 0
    BY Zenon DEF Idle
  <2> HIDE DEF x
  <2>6. TimeOK(x, now)
    BY <2>3, <2>5, Zenon DEF TimeOK
  <2>7. ClientOK(x, vm_profile, now)
    BY <1>1, <2>4, <2>5, <2>6, NothingAsked, Zenon
  <2> QED
    BY <1>1, <1>2, <1>3, <2>7, OneClient, Zenon DEF x, entry
<1>4. CASE ~(op \in Cached /\ get(CacheOf(op), key))
  <2> DEFINE x == [Idle EXCEPT !.stage = "run", !.op = op, !.key = key]
  <2>1. x \in ClientState
    BY <1>1, IdleOK, Zenon DEF ClientState, Idle
  <2>2. /\ x.stage = "run" /\ x.op = op
        /\ x.replies = <<>> /\ x.asked = <<>> /\ x.executed = 0
    BY DEF Idle
  <2> HIDE DEF x
  <2>3. TimeOK(x, now)
    BY <2>2, Zenon DEF TimeOK
  <2>4. ClientOK(x, vm_profile, now)
    BY <1>1, <2>1, <2>2, <2>3, NothingAsked, Zenon
  <2> QED
    BY <1>1, <1>2, <1>4, <2>4, OneClient, Zenon DEF x
<1> QED
  BY <1>3, <1>4

\* A call is executed only by an endpoint that knows its method, and then its
\* reply is not that the method is missing.
LEMMA HandleInv ==
    ASSUME RpcInv, NEW c \in Client, Handle(c)
    PROVE  RpcInv'
<1>1. /\ vm_profile \in Profile /\ now \in Nat /\ CachesOK(cache)
      /\ UNCHANGED <<vm_profile, now, cache>>
      /\ client[c].stage = "run" /\ Asks(Step(c))
  BY DEF RpcInv, Handle, world
<1>2. PICK o \in Outcomes(Step(c).ask) : \E executes \in MayExecute(Step(c).ask, o) :
          client' = [client EXCEPT ![c].stage = "flight", ![c].flight = call(o),
                                   ![c].asked = Append(@, Step(c).ask),
                                   ![c].observed_at = now,
                                   ![c].executed = @ + (IF executes THEN 1 ELSE 0)]
  BY Zenon DEF Handle
<1>2a. PICK executes \in MayExecute(Step(c).ask, o) :
          client' = [client EXCEPT ![c].stage = "flight", ![c].flight = call(o),
                                   ![c].asked = Append(@, Step(c).ask),
                                   ![c].observed_at = now,
                                   ![c].executed = @ + (IF executes THEN 1 ELSE 0)]
  BY <1>2, Zenon
<1> DEFINE y == client[c]
           ran == IF executes THEN 1 ELSE 0
           x == [y EXCEPT !.stage = "flight", !.flight = call(o),
                          !.asked = Append(y.asked, Step(c).ask),
                          !.observed_at = now, !.executed = y.executed + ran]
<1>3. /\ y \in ClientState /\ y.op \in Op
      /\ Asking(vm_profile, y.op, y.replies)
      /\ Step(c).ask \in Method /\ ~Excluded(vm_profile, Step(c).ask)
  BY <1>1, StepFacts, Zenon
<1>4. client' = [client EXCEPT ![c] = x]
  BY <1>2a, <1>3, Zenon DEF RpcInv, ClientState
<1>5. /\ o \in Outcome /\ call(o) \in Heard
      /\ ran \in {0, 1}
      /\ Missing(call(o)) => ran = 0
  <2>1. o \in Outcome
    BY Limits, Zenon DEF Outcomes
  <2>2. Missing(call(o)) => ~Knows(Step(c).ask)
    BY <2>1, CallReply, Zenon DEF Outcomes
  <2>3. ~Knows(Step(c).ask) => executes = FALSE
    BY DEF MayExecute
  <2> QED
    BY <2>1, <2>2, <2>3, CallReply, Zenon
<1> DEFINE asked == Append(y.asked, Step(c).ask)
<1>6. /\ y.asked \in Seq(Method) /\ y.executed \in Nat
      /\ asked \in Seq(Method) /\ y.executed + ran \in Nat
  <2>1. y.asked \in Seq(Method) /\ y.executed \in Nat
    BY <1>3, Zenon DEF ClientState
  <2>2. asked \in Seq(Method)
    BY <1>3, <2>1, Appended, Zenon
  <2>3. y.executed + ran \in Nat
    <3> HIDE DEF y, ran
    <3> QED
      BY <1>5, <2>1
  <2> QED
    BY <2>1, <2>2, <2>3, Zenon
<1>7. /\ x \in ClientState /\ x.stage = "flight" /\ x.op = y.op /\ x.replies = y.replies
      /\ x.asked = asked /\ x.flight = call(o) /\ x.observed_at = now
      /\ x.executed = y.executed + ran
  BY <1>1, <1>3, <1>5, <1>6, Zenon DEF ClientState
<1>8. \A i \in DOMAIN asked : ~Excluded(vm_profile, asked[i])
  <2>1. \A i \in DOMAIN y.asked : ~Excluded(vm_profile, y.asked[i])
    BY Zenon DEF RpcInv, ClientOK, CallsOK
  <2> HIDE DEF x, y
  <2>2. \A i \in DOMAIN asked : \/ asked[i] = Step(c).ask
                                \/ i \in DOMAIN y.asked /\ asked[i] = y.asked[i]
    BY <1>3, <1>6, Appended
  <2> HIDE DEF asked
  <2> QED
    BY <1>3, <2>1, <2>2, Zenon
<1>9. y.op = "submit_signed_transaction" => y.executed = 0
  <2>1. SUFFICES ASSUME y.op = "submit_signed_transaction" PROVE y.executed = 0
    BY Zenon
  <2>2. y.replies \in Seq(Heard) /\ Len(y.replies) <= Calls(vm_profile, y.op)
    BY <1>1, <1>3, Zenon DEF RpcInv, ClientOK, CallsOK, Consistent, ClientState
  <2>3. Step(c) = Proceed("submit_signed_transaction", y.replies)
    BY <2>1, Zenon DEF Step
  <2>4. y.replies = <<>> \/ Missing(Latest(y.replies))
    BY <1>1, <2>1, <2>2, <2>3, SubmitStep, Zenon
  <2> QED
    BY <1>1, <2>1, <2>4, Zenon DEF RpcInv, ClientOK, SubmitOK
<1>10. Consistent(vm_profile, y.op, y.replies)
  BY <1>1, Zenon DEF RpcInv, ClientOK, CallsOK
<1> HIDE DEF x, y, ran, asked
<1>11. CallsOK(x, vm_profile)
  BY <1>3, <1>7, <1>8, <1>10, Zenon DEF CallsOK
<1>12. SubmitOK(x)
  <2>1. ran <= 1 /\ (y.executed = 0 => y.executed + ran = ran)
    BY <1>5
  <2> QED
    BY <1>5, <1>7, <1>9, <2>1, Zenon DEF SubmitOK
<1>13. AbsentOK(x) /\ TimeOK(x, now)
  <2>1. now - now <= RequestTimeout
    BY <1>1, Limits
  <2> QED
    BY <1>7, <2>1, Zenon DEF AbsentOK, TimeOK
<1>14. ClientOK(x, vm_profile, now)
  BY <1>7, <1>11, <1>12, <1>13, Zenon DEF ClientOK
<1> QED
  BY <1>1, <1>4, <1>14, OneClient, Zenon

LEMMA ReceiveInv ==
    ASSUME RpcInv, NEW c \in Client, Receive(c)
    PROVE  RpcInv'
<1> DEFINE y == client[c]
           replies == Append(y.replies, y.flight)
           x == [y EXCEPT !.stage = "run", !.flight = Idle.flight, !.replies = replies]
<1>1. /\ vm_profile \in Profile /\ now \in Nat /\ CachesOK(cache)
      /\ UNCHANGED <<vm_profile, now, cache>>
      /\ y.stage = "flight" /\ ClientOK(y, vm_profile, now) /\ y \in ClientState
  BY DEF RpcInv, ClientOK, Receive, world
<1>2. client' = [client EXCEPT ![c] = x]
  BY <1>1, Zenon DEF Receive, RpcInv, ClientState
<1>3. y.replies \in Seq(Heard) /\ y.flight \in Heard /\ Idle.flight \in Heard
  BY <1>1, ReplyForms, Zenon DEF ClientState, Idle
<1>4. y.op \in Op /\ Consistent(vm_profile, y.op, y.replies) /\ Asking(vm_profile, y.op, y.replies)
  BY <1>1, Zenon DEF ClientOK, CallsOK
<1>5. /\ replies \in Seq(Heard) /\ replies # <<>> /\ Latest(replies) = y.flight
      /\ Consistent(vm_profile, y.op, replies)
  <2> HIDE DEF y, x
  <2> QED
    BY <1>1, <1>3, <1>4, AppendReply
<1> HIDE DEF replies
<1>6. /\ x \in ClientState /\ x.stage = "run" /\ x.op = y.op /\ x.replies = replies
      /\ x.asked = y.asked /\ x.observed_at = y.observed_at /\ x.executed = y.executed
  BY <1>1, <1>3, <1>5, Zenon DEF ClientState
<1> HIDE DEF x, y
<1>7. CallsOK(x, vm_profile)
  BY <1>1, <1>4, <1>5, <1>6, Zenon DEF ClientOK, CallsOK
<1>8. SubmitOK(x)
  BY <1>1, <1>5, <1>6, Zenon DEF ClientOK, SubmitOK
<1>9. AbsentOK(x) /\ TimeOK(x, now)
  BY <1>1, <1>6, Zenon DEF ClientOK, AbsentOK, TimeOK
<1>10. ClientOK(x, vm_profile, now)
  BY <1>6, <1>7, <1>8, <1>9, Zenon DEF ClientOK
<1> QED
  BY <1>1, <1>2, <1>10, OneClient, Zenon

\* TimedValueCache::insert: an entry goes before one is added to a full cache.
LEMMA InsertOK ==
    ASSUME CachesOK(cache), NEW which \in Caches, NEW key, NEW entry, EntryOK(entry),
           NEW caches \in insert(which, key, entry)
    PROVE  CachesOK(caches)
<1> DEFINE entries == cache[which]
           keys == DOMAIN entries
           capacity == CacheCapacity[which]
<1>1. /\ IsFiniteSet(keys) /\ Cardinality(keys) <= capacity /\ capacity \in Nat
      /\ \A k \in keys : EntryOK(entries[k])
      /\ Cardinality(keys) \in Nat
  BY Limits, FS_CardinalityType, Zenon DEF CachesOK, CacheOK
<1>2. CASE capacity = 0
  BY <1>2 DEF insert
<1>3. CASE capacity # 0
  <2>1. PICK K \in Kept(which) :
            caches = [cache EXCEPT ![which] =
                        [k \in K \cup {key} |-> IF k = key THEN entry ELSE cache[which][k]]]
    BY <1>3, Zenon DEF insert
  <2> DEFINE added == [k \in K \cup {key} |-> IF k = key THEN entry ELSE cache[which][k]]
  <2>2. K \subseteq keys /\ IsFiniteSet(K) /\ Cardinality(K) \in Nat /\ Cardinality(K) < capacity
    <3>1. CASE Cardinality(keys) >= capacity
      <4>1. PICK k \in keys : K = keys \ {k}
        BY <3>1, Zenon DEF Kept
      <4>2. IsFiniteSet(K) /\ Cardinality(K) = Cardinality(keys) - 1
        BY <1>1, <4>1, FS_RemoveElement, Zenon
      <4> HIDE DEF keys, capacity
      <4> QED
        BY <1>1, <1>3, <3>1, <4>1, <4>2
    <3>2. CASE ~(Cardinality(keys) >= capacity)
      <4>1. K = keys
        BY <3>2, Zenon DEF Kept
      <4> QED
        BY <1>1, <3>2, <4>1
    <3> QED
      BY <3>1, <3>2, Zenon
  <2>3. IsFiniteSet(K \cup {key}) /\ Cardinality(K \cup {key}) <= capacity
    <3>1. /\ IsFiniteSet(K \cup {key})
          /\ Cardinality(K \cup {key}) = IF key \in K THEN Cardinality(K) ELSE Cardinality(K) + 1
      BY <2>2, FS_AddElement, Zenon
    <3> HIDE DEF capacity
    <3> QED
      BY <1>1, <2>2, <3>1
  <2>4. DOMAIN added = K \cup {key} /\ \A k \in K \cup {key} : EntryOK(added[k])
    BY <1>1, <2>2, Zenon
  <2> HIDE DEF added
  <2>5. CacheOK(added, which)
    BY <2>3, <2>4, Zenon DEF CacheOK
  <2>6. /\ DOMAIN caches = Caches /\ caches[which] = added
        /\ \A other \in Caches \ {which} : caches[other] = cache[other]
    BY <2>1, Zenon DEF CachesOK, added
  <2> QED
    BY <2>5, <2>6, Zenon DEF CachesOK
<1> QED
  BY <1>2, <1>3

LEMMA FinishInv ==
    ASSUME RpcInv, NEW c \in Client, Finish(c)
    PROVE  RpcInv'
<1> DEFINE y == client[c]
           x == [y EXCEPT !.stage = "done", !.result = Step(c).reply, !.done_at = now]
<1>1. /\ vm_profile \in Profile /\ now \in Nat /\ CachesOK(cache)
      /\ UNCHANGED <<vm_profile, now>>
      /\ y.stage = "run" /\ ClientOK(y, vm_profile, now) /\ y \in ClientState
      /\ ~Asks(Step(c))
  BY Zenon DEF RpcInv, ClientOK, Finish, world
<1>2. client' = [client EXCEPT ![c] = x]
  BY <1>1, Zenon DEF Finish, RpcInv, ClientState
<1>3. /\ y.op \in Op /\ Step(c).reply \in Heard /\ y.replies \in Seq(Heard)
      /\ y.observed_at \in Nat /\ Consistent(vm_profile, y.op, y.replies)
      /\ Step(c) = Proceed(y.op, y.replies)
  BY <1>1, StepFacts, Zenon DEF ClientState, ClientOK, CallsOK, Step
<1>4. /\ x \in ClientState /\ x.stage = "done" /\ x.op = y.op /\ x.replies = y.replies
      /\ x.asked = y.asked /\ x.observed_at = y.observed_at /\ x.executed = y.executed
      /\ x.result = Step(c).reply /\ x.done_at = now
  BY <1>1, <1>3, Zenon DEF ClientState
<1>5. y.op \in Cached /\ Step(c).reply.ok => now - y.observed_at <= RequestTimeout
  <2>1. SUFFICES ASSUME y.op \in Cached, Step(c).reply.ok
                 PROVE  now - y.observed_at <= RequestTimeout
    BY Zenon
  <2>2. y.replies # <<>> /\ Latest(y.replies).ok
    BY <1>1, <1>3, <2>1, CachedStep, Zenon DEF Consistent
  <2> QED
    BY <1>1, <2>1, <2>2, Zenon DEF ClientOK, TimeOK
<1>6. CachesOK(cache')
  <2>1. CASE y.op \in Cached /\ Step(c).reply.ok
    <3> DEFINE entry == [content |-> Step(c).reply.content, inserted_at |-> now,
                         observed_at |-> y.observed_at]
    <3>1. cache' \in insert(CacheOf(y.op), y.key, entry)
      BY <2>1, Zenon DEF Finish
    <3>2. EntryOK(entry)
      BY <1>1, <1>3, <1>5, <2>1, Zenon DEF EntryOK, Heard, Reply
    <3> HIDE DEF entry
    <3> QED
      BY <1>1, <3>1, <3>2, InsertOK, Limits, Zenon
  <2>2. CASE ~(y.op \in Cached /\ Step(c).reply.ok)
    BY <1>1, <2>2 DEF Finish
  <2> QED
    BY <2>1, <2>2
<1>7. CallsOK(x, vm_profile)
  BY <1>1, <1>4 DEF ClientOK, CallsOK
<1>8. SubmitOK(x)
  <2>1. y.op = "submit_signed_transaction" /\ Missing(Step(c).reply) =>
            y.replies = <<>> \/ Missing(Latest(y.replies))
    BY <1>1, <1>3, SubmitStep, Zenon DEF Consistent
  <2> QED
    BY <1>1, <1>4, <2>1, Zenon DEF ClientOK, SubmitOK
<1>9. AbsentOK(x)
  <2>1. ASSUME y.op = "get_account_state", Step(c).reply = Ok("nothing")
        PROVE  \A i \in DOMAIN y.replies : Harmless(y.replies[i])
    <3>1. Step(c) = get_account_state(y.replies)
      BY <1>3, <2>1 DEF Proceed, Pairs
    <3> QED
      BY <1>1, <1>3, <2>1, <3>1, AccountStep, Zenon DEF Consistent
  <2> QED
    BY <1>4, <2>1, Zenon DEF AbsentOK
<1>10. TimeOK(x, now)
  <2>1. CacheTtl[CacheOf(y.op)] \in Nat /\ RequestTimeout \in Nat
    BY Limits, Zenon
  <2>2. now - y.observed_at <= RequestTimeout =>
            now - y.observed_at <= CacheTtl[CacheOf(y.op)] + RequestTimeout
    <3> DEFINE ttl == CacheTtl[CacheOf(y.op)]
               at == y.observed_at
    <3>1. now \in Nat /\ at \in Nat /\ ttl \in Nat
      BY <1>1, <1>3, <2>1, Zenon
    <3> HIDE DEF ttl, at
    <3>2. now - at <= RequestTimeout => now - at <= ttl + RequestTimeout
      BY <2>1, <3>1
    <3> QED
      BY <3>2, Zenon DEF ttl, at
  <2> QED
    BY <1>4, <1>5, <2>2 DEF TimeOK
<1>11. ClientOK(x, vm_profile, now)
  BY <1>4, <1>7, <1>8, <1>9, <1>10 DEF ClientOK
<1> QED
  BY <1>1, <1>2, <1>6, <1>11, OneClient, Zenon

LEMMA LeaveInv ==
    ASSUME RpcInv, NEW c \in Client, Leave(c)
    PROVE  RpcInv'
<1>1. /\ vm_profile \in Profile /\ now \in Nat /\ CachesOK(cache)
      /\ UNCHANGED <<vm_profile, now, cache>>
      /\ client' = [client EXCEPT ![c] = Idle]
  BY DEF RpcInv, Leave, world
<1> QED
  BY <1>1, IdleOK, OneClient, Zenon

\* Time passes only while replies are not late, and no answer waits to be used.
LEMMA TickInv ==
    ASSUME RpcInv, Tick
    PROVE  RpcInv'
<1>1. /\ vm_profile \in Profile /\ now \in Nat
      /\ UNCHANGED <<vm_profile, client, cache>> /\ now' = now + 1
  BY Zenon DEF RpcInv, Tick
<1>2. ASSUME NEW c \in Client
      PROVE  ClientOK(client[c], vm_profile, now + 1)
  <2> DEFINE x == client[c]
  <2>1. ClientOK(x, vm_profile, now) /\ x \in ClientState
    BY DEF RpcInv, ClientOK
  <2>2. x.observed_at \in Nat /\ x.replies \in Seq(Heard) /\ RequestTimeout \in Nat
    BY <2>1, Limits, Zenon DEF ClientState
  <2>3. x.stage = "flight" => (now + 1) - x.observed_at <= RequestTimeout
    <3>1. x.stage = "flight" => now - x.observed_at < RequestTimeout
      BY Zenon DEF Tick
    <3> HIDE DEF x
    <3> QED
      BY <1>1, <2>2, <3>1
  <2>4. x.stage = "run" /\ x.op \in Cached /\ x.replies # <<>> => ~Latest(x.replies).ok
    <3>1. SUFFICES ASSUME x.stage = "run", x.op \in Cached, x.replies # <<>>
                   PROVE  ~Latest(x.replies).ok
      BY Zenon
    <3>2. Asks(Proceed(x.op, x.replies))
      BY <3>1, Zenon DEF Tick, Step
    <3>3. Len(x.replies) <= Calls(vm_profile, x.op)
      BY <2>1, <3>1, Zenon DEF ClientOK, CallsOK, Consistent
    <3> QED
      BY <1>1, <2>2, <3>1, <3>2, <3>3, CachedStep, Zenon
  <2> HIDE DEF x
  <2>5. TimeOK(x, now + 1)
    BY <2>1, <2>3, <2>4, Zenon DEF ClientOK, TimeOK
  <2>6. ClientOK(x, vm_profile, now + 1)
    BY <2>1, <2>5 DEF ClientOK
  <2> QED
    BY <2>6 DEF x
<1> QED
  BY <1>1, <1>2 DEF RpcInv

\* Every step keeps the invariant.
LEMMA RpcStep == RpcInv /\ [Next]_vars => RpcInv'
<1>1. SUFFICES ASSUME RpcInv, [Next]_vars PROVE RpcInv'
  OBVIOUS
<1>2. ASSUME NEW c \in Client, Begin(c) PROVE RpcInv'
  BY <1>1, <1>2, BeginInv
<1>3. ASSUME NEW c \in Client, Handle(c) PROVE RpcInv'
  BY <1>1, <1>3, HandleInv
<1>4. ASSUME NEW c \in Client, Receive(c) PROVE RpcInv'
  BY <1>1, <1>4, ReceiveInv
<1>5. ASSUME NEW c \in Client, Finish(c) PROVE RpcInv'
  BY <1>1, <1>5, FinishInv
<1>6. ASSUME NEW c \in Client, Leave(c) PROVE RpcInv'
  BY <1>1, <1>6, LeaveInv
<1>7. CASE EndpointChanges
  BY <1>1, <1>7, Zenon DEF EndpointChanges, RpcInv
<1>8. CASE Tick
  BY <1>1, <1>8, TickInv
<1>9. CASE UNCHANGED vars
  BY <1>1, <1>9, Zenon DEF vars, RpcInv
<1> QED
  BY <1>1, <1>2, <1>3, <1>4, <1>5, <1>6, <1>7, <1>8, <1>9, Zenon DEF Next

\* At the start nothing is asked for and the caches are empty.
LEMMA RpcStart == Init => RpcInv
<1> SUFFICES ASSUME Init PROVE RpcInv
  OBVIOUS
<1>1. vm_profile \in Profile /\ now \in Nat
  BY Limits, Zenon DEF Init
<1>2. client = [c \in Client |-> Idle]
  BY DEF Init
<1>3. \A c \in Client : ClientOK(client[c], vm_profile, now)
  BY <1>1, <1>2, IdleOK
<1>4. CachesOK(cache)
  <2>1. /\ DOMAIN cache = Caches
        /\ \A which \in Caches : DOMAIN cache[which] = {}
    BY DEF Init
  <2> QED
    BY <2>1, FS_EmptySet, Limits DEF CachesOK, CacheOK
<1> QED
  BY <1>1, <1>2, <1>3, <1>4, Zenon DEF RpcInv

LEMMA RpcInvariant == Spec => []RpcInv
  BY RpcStart, RpcStep, PTL DEF Spec
---------------------------------------------------------------------------
(* What callers can rely on.                                               *)

\* submit_signed_transaction: however many methods it tries and whatever is lost
\* on the way, the endpoint executes the transaction at most once, and not at
\* all when the submission is reported as unsupported.
THEOREM SubmissionsCorrect == Spec => []SubmittedOnce
<1>1. RpcInv => SubmittedOnce
  BY Zenon DEF RpcInv, ClientOK, SubmitOK, SubmittedOnce
<1> QED
  BY <1>1, RpcInvariant, PTL

\* get_account_state and the other lookups: an account is reported absent only
\* if no call failed, and no method of the VM that the profile leaves out is
\* ever called.
THEOREM LookupsCorrect == Spec => []LookupsAreSound
<1>1. RpcInv => AbsentIsNotAnError
  BY Zenon DEF RpcInv, ClientOK, AbsentOK, AbsentIsNotAnError, Harmless
<1>2. RpcInv => ProfileRespected
  BY Zenon DEF RpcInv, ClientOK, CallsOK, Excluded, ProfileRespected
<1> QED
  BY <1>1, <1>2, RpcInvariant, PTL DEF LookupsAreSound

\* TimedValueCache shared by operations that overlap: no cache outgrows its
\* capacity, and what is served was observed at most one time to live and one
\* request timeout ago.
THEOREM CachesCorrect == Spec => []CachesAreSound
<1>1. RpcInv => ServedIsRecent
  BY Zenon DEF RpcInv, ClientOK, TimeOK, ServedIsRecent
<1>2. RpcInv => CacheWithinCapacity
  BY Zenon DEF RpcInv, CachesOK, CacheOK, CacheWithinCapacity
<1> QED
  BY <1>1, <1>2, RpcInvariant, PTL DEF CachesAreSound
---------------------------------------------------------------------------
(* The startup probe.                                                      *)

There(method) == method \notin Optional \/ method \in ever
Offers(g) == \E i \in DOMAIN Groups[g] : There(Groups[g][i])

\* What the probe has found was there; and if the endpoint stayed the same and
\* refused nothing it knows, nothing it has passed over was.
ProbeTypeOK ==
    /\ vm_profile \in {"auto", "vm1_only", "vm2_only"} /\ mode \in {"read_only", "transaction"}
    /\ stage \in {"probing", "deciding", "identity", "ready", "failed"}
    /\ changes \in Nat /\ group \in Nat \ {0} /\ candidate \in Nat \ {0} /\ refused \in BOOLEAN
ProbeInv ==
    /\ ProbeTypeOK
    /\ offered \subseteq ever /\ (changes = 0 => ever = offered)
    /\ stage = "probing" => group <= LastGroup /\ candidate <= Len(Groups[group])
    /\ stage \in {"deciding", "identity", "ready"} => group = LastGroup + 1
    /\ stage \in {"identity", "ready"} => Equipped
    /\ \A g \in found : g \in 1 .. LastGroup /\ Offers(g)
    /\ ~refused /\ changes = 0 =>
          /\ \A g \in 1 .. group - 1 : Offers(g) => g \in found
          /\ stage = "probing" => \A i \in 1 .. candidate - 1 : ~There(Groups[group][i])

\* A call answers, or finds fault with the parameters, only as the endpoint did.
LEMMA CallTells ==
    ASSUME NEW o \in Outcome
    PROVE  /\ call(o).ok => o.kind = "answer"
           /\ call(o).invalid_params => o.kind = "invalid params"
<1>1. o.kind \in {"unreachable", "body lost", "http error", "garbled", "method not found",
                  "invalid params", "rpc error", "answer"}
  <2>1. CASE o \in {[kind |-> k, words |-> {}, content |-> "nothing"] : k \in
            {"unreachable", "body lost", "http error", "garbled", "method not found",
             "invalid params"}}
    <3>1. PICK k \in {"unreachable", "body lost", "http error", "garbled", "method not found",
                      "invalid params"} : o = [kind |-> k, words |-> {}, content |-> "nothing"]
      BY <2>1, Zenon
    <3>2. o.kind = k
      BY <3>1, Zenon
    <3> QED  BY <3>2
  <2>2. CASE o \in {[kind |-> "rpc error", words |-> w, content |-> "nothing"] : w \in Words}
    <3>1. PICK w \in Words : o = [kind |-> "rpc error", words |-> w, content |-> "nothing"]
      BY <2>2, Zenon
    <3> QED  BY <3>1, Zenon
  <2>3. CASE o \in {[kind |-> "answer", words |-> {}, content |-> c] : c \in Content}
    <3>1. PICK c \in Content : o = [kind |-> "answer", words |-> {}, content |-> c]
      BY <2>3, Zenon
    <3> QED  BY <3>1, Zenon
  <2> QED  BY <2>1, <2>2, <2>3, Zenon DEF Outcome
<1>2. CASE o.kind \in {"answer", "invalid params"}
  <2>1. CASE o.kind = "answer"
    BY <2>1, Zenon DEF call, Ok
  <2>2. CASE o.kind = "invalid params"
    BY <2>2, Zenon DEF call, Err
  <2> QED  BY <1>2, <2>1, <2>2, Zenon
<1>3. CASE o.kind \notin {"answer", "invalid params"}
  <2>1. PICK code, retryable : call(o) = Err(code, retryable)
    <3>1. CASE o.kind = "unreachable"
      BY <3>1, Zenon DEF call
    <3>2. CASE o.kind = "body lost"
      BY <3>2, Zenon DEF call
    <3>3. CASE o.kind = "http error"
      BY <3>3, Zenon DEF call
    <3>4. CASE o.kind = "garbled"
      BY <3>4, Zenon DEF call
    <3>5. CASE o.kind = "method not found"
      BY <3>5, Zenon DEF call, Unsupported
    <3>6. CASE o.kind = "rpc error"
      BY <3>6, Zenon DEF call
    <3> QED  BY <1>1, <1>3, <3>1, <3>2, <3>3, <3>4, <3>5, <3>6, Zenon
  <2>2. call(o).ok = FALSE /\ call(o).invalid_params = FALSE
    BY <2>1 DEF Err
  <2> QED  BY <2>2, Zenon
<1> QED  BY <1>2, <1>3, Zenon

\* Every capability has a method or two to try.
LEMMA GroupShape ==
    ASSUME vm_profile \in {"auto", "vm1_only", "vm2_only"}, NEW g \in 1 .. 20
    PROVE  DOMAIN Groups[g] = 1 .. Len(Groups[g]) /\ Len(Groups[g]) \in Nat \ {0}
<1> DEFINE Fine(methods) == DOMAIN methods = 1 .. Len(methods) /\ Len(methods) \in Nat \ {0}
<1>1. \A m, n : Fine(<<m>>) /\ Fine(<<m, n>>)
  OBVIOUS
<1>2. \A m, n : Fine(ByProfile(m, n)) /\ Fine(transaction_methods(m, n))
  BY <1>1, Zenon DEF ByProfile, transaction_methods
<1>3. \A op : Fine(Both(op))
  BY <1>2, Zenon DEF Both
<1> HIDE DEF Fine
<1>4. /\ Fine(Groups[1]) /\ Fine(Groups[2]) /\ Fine(Groups[3]) /\ Fine(Groups[4])
      /\ Fine(Groups[5]) /\ Fine(Groups[6]) /\ Fine(Groups[7]) /\ Fine(Groups[8])
  BY <1>1, <1>2, <1>3, Zenon DEF Groups
<1>5. /\ Fine(Groups[9]) /\ Fine(Groups[10]) /\ Fine(Groups[11]) /\ Fine(Groups[12])
      /\ Fine(Groups[13]) /\ Fine(Groups[14])
  BY <1>1, <1>2, <1>3, Zenon DEF Groups
<1>6. /\ Fine(Groups[15]) /\ Fine(Groups[16]) /\ Fine(Groups[17]) /\ Fine(Groups[18])
      /\ Fine(Groups[19]) /\ Fine(Groups[20])
  BY <1>1, <1>2, <1>3, Zenon DEF Groups
<1>7. g \in 1 .. 8 \/ g \in 9 .. 14 \/ g \in 15 .. 20
  OBVIOUS
<1>8. Fine(Groups[g])
  <2>1. CASE g \in 1 .. 8
    BY <1>4, <2>1
  <2>2. CASE g \in 9 .. 14
    BY <1>5, <2>2
  <2>3. CASE g \in 15 .. 20
    BY <1>6, <2>3
  <2> QED  BY <1>7, <2>1, <2>2, <2>3, Zenon
<1> QED  BY <1>8, Zenon DEF Fine

\* The same where the profile is one of the three.
LEMMA GroupsHaveMethods ==
    ASSUME ProbeTypeOK
    PROVE  \A g \in 1 .. 20 : /\ DOMAIN Groups[g] = 1 .. Len(Groups[g])
                               /\ Len(Groups[g]) \in Nat /\ 1 <= Len(Groups[g])
<1>1. vm_profile \in {"auto", "vm1_only", "vm2_only"}
  BY DEF ProbeTypeOK
<1> SUFFICES ASSUME NEW g \in 1 .. 20
             PROVE  /\ DOMAIN Groups[g] = 1 .. Len(Groups[g])
                    /\ Len(Groups[g]) \in Nat /\ 1 <= Len(Groups[g])
  BY Zenon
<1>2. DOMAIN Groups[g] = 1 .. Len(Groups[g]) /\ Len(Groups[g]) \in Nat \ {0}
  BY <1>1, GroupShape, Zenon
<1> QED  BY <1>2

LEMMA NamedGroups ==
    /\ Groups[6] = Both("get_transaction") /\ Groups[18] = Both("next_sequence_number")
    /\ Groups[19] = Both("submit_signed_transaction") /\ Groups[20] = Both("dry_run_raw")
BY Zenon DEF Groups

LEMMA ProbeInvInit == ProbeInit => ProbeInv
<1> SUFFICES ASSUME ProbeInit PROVE ProbeInv
  OBVIOUS
<1>1. ProbeTypeOK
  <2>1. /\ vm_profile \in {"auto", "vm1_only", "vm2_only"}
        /\ mode \in {"read_only", "transaction"}
    BY ProbeAssumption, Zenon DEF ProbeInit
  <2>2. refused \in BOOLEAN
    BY Zenon DEF ProbeInit
  <2>3. stage = "probing" /\ changes = 0 /\ group = 1 /\ candidate = 1
    BY DEF ProbeInit
  <2> QED  BY <2>1, <2>2, <2>3 DEF ProbeTypeOK
<1>2. 1 <= LastGroup /\ 1 <= Len(Groups[1])
  BY <1>1, GroupsHaveMethods DEF LastGroup
<1> QED  BY <1>1, <1>2 DEF ProbeInit, ProbeInv

\* The capabilities and the methods for them do not depend on the probe.
LEMMA GroupsStay ==
    ASSUME UNCHANGED <<vm_profile, mode>>
    PROVE  Groups' = Groups /\ LastGroup' = LastGroup
BY DEF Groups, LastGroup, Both, ByProfile, transaction_methods

\* The steps that leave the probe where it is.
LEMMA DecisionKeeps ==
    ASSUME ProbeInv, TimesOut \/ Decide \/ CheckIdentity
    PROVE  ProbeInv'
<1>1. /\ UNCHANGED <<vm_profile, mode, offered, changes, ever, group, candidate, found, refused>>
      /\ stage' \in {"identity", "ready", "failed"}
      /\ stage' # "failed" => stage \in {"deciding", "identity"} /\ Equipped
  BY Zenon DEF TimesOut, Decide, CheckIdentity, settled, ProbeInv
<1>2. Groups' = Groups /\ LastGroup' = LastGroup
  BY <1>1, GroupsStay, Zenon
<1> QED  BY <1>1, <1>2, Zenon DEF ProbeInv, ProbeTypeOK, Offers, There, Equipped

LEMMA UpgradeKeeps ==
    ASSUME ProbeInv, EndpointUpgraded
    PROVE  ProbeInv'
<1>1. /\ UNCHANGED <<vm_profile, mode, stage, group, candidate, found, refused>>
      /\ stage = "probing" /\ changes' = changes + 1 /\ ever' = ever \cup offered'
  BY Zenon DEF EndpointUpgraded
<1>2. Groups' = Groups /\ LastGroup' = LastGroup
  BY <1>1, GroupsStay, Zenon
<1>3. changes' # 0
  BY <1>1 DEF ProbeInv, ProbeTypeOK
<1>4. \A g \in found : Offers(g) => Offers(g)'
  BY <1>1, <1>2, Zenon DEF Offers, There
<1> QED  BY <1>1, <1>2, <1>3, <1>4 DEF ProbeInv, ProbeTypeOK

\* The next capability, when what is known of this one is right.
LEMMA NextGroupKeeps ==
    ASSUME ProbeInv, stage = "probing", NextGroup,
           UNCHANGED <<vm_profile, mode, offered, changes, ever>>, refused' \in BOOLEAN,
           refused => refused', found' \in {found, found \cup {group}},
           group \in found' => Offers(group),
           ~refused' /\ changes = 0 /\ Offers(group) => group \in found'
    PROVE  ProbeInv'
<1>1. Groups' = Groups /\ LastGroup' = LastGroup /\ LastGroup \in {16, 20}
  BY GroupsStay, Zenon DEF LastGroup
<1>2. /\ candidate' = 1 /\ group' = group + 1 /\ group \in 1 .. LastGroup
      /\ stage' = IF group < LastGroup THEN "probing" ELSE "deciding"
  BY <1>1 DEF NextGroup, ProbeInv, ProbeTypeOK
<1>3. ProbeTypeOK'
  BY <1>2 DEF ProbeInv, ProbeTypeOK
<1>4. stage' = "probing" => group' <= LastGroup /\ candidate' <= Len(Groups[group'])
  <2>1. ProbeTypeOK
    BY Zenon DEF ProbeInv
  <2>2. stage' = "probing" => group' <= LastGroup /\ group' \in 1 .. 20
    BY <1>1, <1>2
  <2> QED  BY <1>2, <2>1, <2>2, GroupsHaveMethods, Zenon
<1>5. \A g : Offers(g)' <=> Offers(g)
  BY <1>1, Zenon DEF Offers, There
<1>6. \A g \in found' : g \in 1 .. LastGroup /\ Offers(g)
  BY <1>2, Zenon DEF ProbeInv
<1>7. ~refused' /\ changes = 0 => \A g \in 1 .. group : Offers(g) => g \in found'
  BY <1>2 DEF ProbeInv
<1>8. stage' # "probing" => group' = LastGroup' + 1
  BY <1>1, <1>2
<1>9. 1 .. group' - 1 = 1 .. group /\ 1 .. candidate' - 1 = {}
  BY <1>1, <1>2
<1>10. stage' \in {"probing", "deciding"} /\ offered \subseteq ever /\ (changes = 0 => ever = offered)
  BY <1>2, Zenon DEF ProbeInv
<1> QED  BY <1>1, <1>3, <1>4, <1>5, <1>6, <1>7, <1>8, <1>9, <1>10, Zenon DEF ProbeInv

\* A method is taken for there only if it is, and passed over only if it is not,
\* or refused the probe.
LEMMA CallKeeps ==
    ASSUME ProbeInv, ProbeCall
    PROVE  ProbeInv'
<1> DEFINE method == Groups[group][candidate]
           known == Knows(method)
           Verdict(o) == IF group \notin Answering THEN probe_method_supported(call(o))
                         ELSE IF call(o).ok THEN "yes" ELSE "error"
<1>1. PICK o \in Outcome :
         /\ o.kind = "method not found" => ~known
         /\ o.kind \in {"answer", "invalid params"} => known
         /\ \/ Verdict(o) = "yes" /\ found' = found \cup {group} /\ NextGroup
            \/ Verdict(o) = "no" /\ Advance /\ UNCHANGED found
            \/ Verdict(o) = "error" /\ stage' = "failed" /\ UNCHANGED <<found, candidate, group>>
         /\ refused' = (refused \/ (Verdict(o) = "no" /\ o.kind # "method not found"))
  BY Zenon DEF ProbeCall
<1>2. stage = "probing" /\ UNCHANGED <<vm_profile, mode, offered, changes, ever>>
  BY Zenon DEF ProbeCall, settled
<1>3. group \in 1 .. 20 /\ candidate \in DOMAIN Groups[group]
  <2>1. ProbeTypeOK /\ group <= LastGroup /\ candidate <= Len(Groups[group])
    BY <1>2, Zenon DEF ProbeInv
  <2>2. group \in 1 .. 20 /\ candidate \in Nat \ {0}
    BY <2>1 DEF ProbeTypeOK, LastGroup
  <2>3. DOMAIN Groups[group] = 1 .. Len(Groups[group]) /\ Len(Groups[group]) \in Nat
    BY <2>1, <2>2, GroupsHaveMethods, Zenon
  <2> QED  BY <2>1, <2>2, <2>3
<1>4. Verdict(o) = "yes" => known
  BY <1>1, CallTells, Zenon DEF probe_method_supported
<1>5. known => There(method)
  BY Zenon DEF Knows, There, ProbeInv
<1>6. changes = 0 /\ ~known => ~There(method)
  BY Zenon DEF Knows, There, ProbeInv
<1>7. refused' \in BOOLEAN /\ (refused => refused')
  BY <1>1, Zenon DEF ProbeInv, ProbeTypeOK
<1>8. CASE Verdict(o) = "yes" /\ found' = found \cup {group} /\ NextGroup
  <2>1. Offers(group)
    BY <1>3, <1>4, <1>5, <1>8, Zenon DEF Offers
  <2> QED  BY <1>2, <1>7, <1>8, <2>1, NextGroupKeeps, Zenon
<1>9. CASE Verdict(o) = "no" /\ Advance /\ UNCHANGED found
  <2>1. ~refused' /\ changes = 0 => ~There(method) /\ ~refused
    BY <1>1, <1>6, <1>7, <1>9, Zenon
  <2>2. CASE candidate < Len(Groups[group])
    <3>1. candidate' = candidate + 1 /\ UNCHANGED <<group, stage, found>>
      BY <1>9, <2>2, Zenon DEF Advance
    <3>2. Groups' = Groups /\ LastGroup' = LastGroup
      BY <1>2, GroupsStay, Zenon
    <3>3. ~refused' /\ changes = 0 => \A i \in 1 .. candidate : ~There(Groups[group][i])
      BY <1>2, <2>1 DEF ProbeInv, ProbeTypeOK
    <3>4. ProbeTypeOK'
      BY <1>2, <1>7, <3>1 DEF ProbeInv, ProbeTypeOK
    <3>5. candidate' <= Len(Groups[group])
      <4>1. Len(Groups[group]) \in Nat /\ candidate \in Nat
        BY <1>3, GroupsHaveMethods, Zenon DEF ProbeInv, ProbeTypeOK
      <4> QED  BY <2>2, <3>1, <4>1
    <3>6. \A m : There(m)' <=> There(m)
      BY <1>2, Zenon DEF There
    <3>7. \A g : Offers(g)' <=> Offers(g)
      BY <3>2, <3>6, Zenon DEF Offers
    <3> QED  BY <1>2, <1>7, <3>1, <3>2, <3>3, <3>4, <3>5, <3>6, <3>7, <2>1 DEF ProbeInv, ProbeTypeOK
  <2>3. CASE ~(candidate < Len(Groups[group]))
    <3>1. ~refused' /\ changes = 0 => ~Offers(group)
      <4>1. DOMAIN Groups[group] = 1 .. Len(Groups[group]) /\ Len(Groups[group]) \in Nat
        BY <1>3, GroupsHaveMethods, Zenon DEF ProbeInv
      <4>2. \A i \in DOMAIN Groups[group] : i \in 1 .. candidate - 1 \/ i = candidate
        BY <1>3, <2>3, <4>1
      <4>3. ~refused' /\ changes = 0 =>
               \A i \in 1 .. candidate - 1 : ~There(Groups[group][i])
        BY <1>2, <2>1, Zenon DEF ProbeInv
      <4> QED  BY <2>1, <4>2, <4>3, Zenon DEF Offers
    <3>2. group \in found => Offers(group)
      BY Zenon DEF ProbeInv
    <3> QED  BY <1>2, <1>7, <1>9, <2>3, <3>1, <3>2, NextGroupKeeps, Zenon DEF Advance
  <2> QED  BY <2>2, <2>3
<1>10. CASE Verdict(o) = "error" /\ stage' = "failed" /\ UNCHANGED <<found, candidate, group>>
  <2>1. Groups' = Groups /\ LastGroup' = LastGroup
    BY <1>2, GroupsStay
  <2>2. \A g : Offers(g)' <=> Offers(g)
    BY <1>2, <2>1, Zenon DEF Offers, There
  <2> QED  BY <1>2, <1>7, <1>10, <2>1, <2>2, Zenon DEF ProbeInv, ProbeTypeOK
<1> QED  BY <1>1, <1>8, <1>9, <1>10, Zenon

LEMMA ProbeInvNext == ProbeInv /\ [ProbeNext]_probeVars => ProbeInv'
<1> SUFFICES ASSUME ProbeInv, [ProbeNext]_probeVars PROVE ProbeInv'
  OBVIOUS
<1>1. CASE ProbeCall
  BY <1>1, CallKeeps, Zenon
<1>2. CASE TimesOut \/ Decide \/ CheckIdentity
  BY <1>2, DecisionKeeps, Zenon
<1>3. CASE EndpointUpgraded
  BY <1>3, UpgradeKeeps
<1>4. CASE UNCHANGED probeVars
  <2>1. Groups' = Groups /\ LastGroup' = LastGroup
    BY <1>4, GroupsStay, Zenon DEF probeVars
  <2> QED
    BY <1>4, <2>1 DEF probeVars, ProbeInv, ProbeTypeOK, Offers, There, Equipped
<1> QED  BY <1>1, <1>2, <1>3, <1>4, Zenon DEF ProbeNext

\* A startup that succeeds found what it needs: whatever the endpoint lacks,
\* refuses, loses or comes to know while rpc.probe asks it, a capability is found
\* only if one of the methods the profile would use was there at some time and
\* missed only if it refused the probe or the endpoint changed, and
\* AppContext::bootstrap starts the transaction mode only if there was a method to
\* look up, to read a sequence number, to simulate and to submit.
THEOREM StartupCorrect == ProbeSpec => []StartupIsSound
<1>1. ProbeInv => ProbeTellsTheTruth
  <2> SUFFICES ASSUME ProbeInv, stage \in {"deciding", "identity", "ready"},
                      NEW g \in 1 .. LastGroup
               PROVE  /\ g \in found => Offers(g)
                      /\ Offers(g) /\ ~refused /\ changes = 0 => g \in found
    BY Zenon DEF ProbeTellsTheTruth, Offers, There
  <2>1. LastGroup \in {16, 20} /\ group = LastGroup + 1
    BY Zenon DEF ProbeInv, LastGroup
  <2>2. g \in 1 .. group - 1
    BY <2>1
  <2> QED  BY <2>2, Zenon DEF ProbeInv
<1>2. ProbeInv => StartupFailsClosed
  <2> SUFFICES ASSUME ProbeInv, stage = "ready", mode = "transaction",
                      NEW op \in {"get_transaction", "next_sequence_number",
                                  "submit_signed_transaction", "dry_run_raw"}
               PROVE  \E i \in DOMAIN Both(op) : There(Both(op)[i])
    BY Zenon DEF StartupFailsClosed, There
  <2>1. {6, 18, 19, 20} \subseteq found
    BY Zenon DEF ProbeInv, Equipped, TransactionLookup, Submission, RawDryRun
  <2>2. Offers(6) /\ Offers(18) /\ Offers(19) /\ Offers(20)
    BY <2>1, Zenon DEF ProbeInv
  <2>3. \E g : Groups[g] = Both(op) /\ Offers(g)
    BY <2>2, NamedGroups, Zenon
  <2> QED  BY <2>3, Zenon DEF Offers
<1>3. ProbeInv => StartupIsSound
  BY <1>1, <1>2 DEF StartupIsSound
<1> QED  BY <1>3, ProbeInvInit, ProbeInvNext, PTL DEF ProbeSpec
============================================================================
