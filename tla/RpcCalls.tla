------------------------------ MODULE RpcCalls ------------------------------
(***************************************************************************)
(* NodeRpcClient: how one JSON-RPC call ends, and which calls an operation *)
(* makes.  An operation is a function of the replies it has had so far: it *)
(* asks for a method or returns a reply.                                   *)
(***************************************************************************)
EXTENDS Naturals, Sequences

CONSTANTS
    VmProfile,         \* the profiles the client may be configured with
    Optional,          \* methods the endpoint may lack
    MaxChanges         \* bound: upgrades of the endpoint

VARIABLES
    vm_profile,  \* configured once: "auto", "vm1_only" or "vm2_only"
    offered,     \* external: the optional methods the endpoint knows
    changes

Knows(method) == method \notin Optional \/ method \in offered

\* The two surfaces; every other method is profile-neutral.
Vm1 == {"chain.get_transaction", "chain.get_transaction_info", "chain.get_events_by_txn_hash",
        "state.get_account_state", "state.list_resource", "state.list_code",
        "state.get_state_root", "contract.resolve_function", "contract.resolve_module", "contract.resolve_struct",
        "contract.call_v2", "contract.dry_run_raw", "txpool.next_sequence_number",
        "txpool.submit_hex_transaction"}
Vm2 == {"chain.get_transaction2", "chain.get_transaction_info2", "chain.get_events_by_txn_hash2",
        "state2.list_resource", "state2.list_code", "state2.get_resource",
        "state2.get_state_root",
        "contract2.resolve_function", "contract2.resolve_module", "contract2.resolve_struct",
        "contract2.call_v2", "contract2.dry_run_raw", "txpool.next_sequence_number2",
        "txpool.submit_hex_transaction2"}
---------------------------------------------------------------------------
(* One call.  The content of an answer is one of four shapes: nothing (no  *)
(* account, an empty list), something without a sequence number, the full  *)
(* thing, or something of the wrong form.                                  *)

Content == {"nothing", "partial", "full", "malformed"}

Reply == [ok : BOOLEAN, code : {"none", "node_unavailable", "rpc_unavailable", "unsupported",
                                "submission_unknown", "submission_failed", "transaction_expired",
                                "sequence_number_stale"},
          retryable : BOOLEAN, invalid_params : BOOLEAN, content : Content]

Ok(content) == [ok |-> TRUE, code |-> "none", retryable |-> FALSE,
                invalid_params |-> FALSE, content |-> content]
Err(code, retryable) == [ok |-> FALSE, code |-> code, retryable |-> retryable,
                         invalid_params |-> FALSE, content |-> "nothing"]
Unsupported == Err("unsupported", FALSE)
Missing(reply) == reply.code = "unsupported"

\* How the node's error message is read, by the words in it.
map_rpc_error_code(words) ==
    LET has(some) == words \cap some # {}
    IN  IF has({"expired"}) THEN "transaction_expired"
        ELSE IF has({"sequence"}) /\ has({"too old", "stale"}) THEN "sequence_number_stale"
        ELSE IF has({"may have reached the endpoint", "timed out after submission"})
             THEN "submission_unknown"
        ELSE IF has({"connection", "unavailable"}) THEN "node_unavailable"
        ELSE "submission_failed"

Words == {{}, {"expired"}, {"sequence", "too old"}, {"timed out after submission"},
          {"sequence", "unavailable"}}

\* Outcomes of an HTTP exchange, and the reply each becomes.
Outcome ==
    {[kind |-> k, words |-> {}, content |-> "nothing"] : k \in
        {"unreachable", "body lost", "http error", "garbled", "method not found", "invalid params"}}
    \cup {[kind |-> "rpc error", words |-> w, content |-> "nothing"] : w \in Words}
    \cup {[kind |-> "answer", words |-> {}, content |-> c] : c \in Content}

call(o) ==
    LET code      == map_rpc_error_code(o.words)
        retryable == code \in {"node_unavailable", "rpc_unavailable", "submission_unknown"}
    IN  CASE o.kind = "answer"                          -> Ok(o.content)
          [] o.kind = "unreachable"                     -> Err("node_unavailable", TRUE)
          [] o.kind \in {"body lost", "http error"}     -> Err("rpc_unavailable", TRUE)
          [] o.kind = "garbled"                         -> Err("rpc_unavailable", FALSE)
          [] o.kind = "method not found"                -> Unsupported
          [] o.kind = "rpc error"                       -> Err(code, retryable)
          [] o.kind = "invalid params"                  ->
                 [Err("submission_failed", FALSE) EXCEPT !.invalid_params = TRUE]
---------------------------------------------------------------------------
(* Operations.                                                             *)

Ask(method) == [ask |-> method, reply |-> Ok("nothing")]
Return(reply) == [ask |-> "none", reply |-> reply]
Asks(step) == step.ask # "none"

transaction_methods(preferred, fallback) ==
    CASE vm_profile = "vm2_only" -> <<preferred>>
      [] vm_profile = "vm1_only" -> <<fallback>>
      [] vm_profile = "auto"     -> <<preferred, fallback>>

Latest(replies) == replies[Len(replies)]

\* Mutant: every error is a reason to try the next method.
call_first_available_AnyError(methods, replies) ==
    IF replies # <<>> /\ Latest(replies).ok THEN Return(Latest(replies))
    ELSE IF Len(replies) = Len(methods) THEN Return(Unsupported)
    ELSE Ask(methods[Len(replies) + 1])

\* The next method is tried only when the node does not know the last one.
call_first_available(methods, replies) ==
    IF replies # <<>> /\ ~Missing(Latest(replies)) THEN Return(Latest(replies))
    ELSE IF Len(replies) = Len(methods) THEN Return(Unsupported)
    ELSE Ask(methods[Len(replies) + 1])

\* The operations that are nothing but that, each with its two methods.
Pairs ==
    [get_transaction        |-> <<"chain.get_transaction2", "chain.get_transaction">>,
     get_transaction_info   |-> <<"chain.get_transaction_info2", "chain.get_transaction_info">>,
     get_events_by_txn_hash |-> <<"chain.get_events_by_txn_hash2", "chain.get_events_by_txn_hash">>,
     resolve_function_abi   |-> <<"contract2.resolve_function", "contract.resolve_function">>,
     resolve_struct_abi     |-> <<"contract2.resolve_struct", "contract.resolve_struct">>,
     resolve_module_abi     |-> <<"contract2.resolve_module", "contract.resolve_module">>,
     call_view_function     |-> <<"contract2.call_v2", "contract.call_v2">>,
     next_sequence_number   |-> <<"txpool.next_sequence_number2", "txpool.next_sequence_number">>,
     dry_run_raw            |-> <<"contract2.dry_run_raw", "contract.dry_run_raw">>,
     submit_signed_transaction |->
         <<"txpool.submit_hex_transaction2", "txpool.submit_hex_transaction">>]

paired(op, replies) ==
    call_first_available(transaction_methods(Pairs[op][1], Pairs[op][2]), replies)

\* One method, chosen by the profile.
get_state_root(replies) ==
    IF replies # <<>> THEN Return(replies[1])
    ELSE Ask(IF vm_profile = "vm2_only" THEN "state2.get_state_root" ELSE "state.get_state_root")

list_code(replies) ==
    IF replies # <<>> THEN Return(replies[1])
    ELSE Ask(IF vm_profile = "vm2_only" THEN "state2.list_code" ELSE "state.list_code")

chain_info_uncached(replies) ==
    IF replies = <<>> THEN Ask("chain.info") ELSE Return(replies[1])

\* An answer that is not a hash is an error.
submit_signed_transaction(replies) ==
    LET step == paired("submit_signed_transaction", replies)
    IN  IF ~Asks(step) /\ step.reply.ok /\ step.reply.content # "full"
        THEN Return(Err("rpc_unavailable", FALSE)) ELSE step

list_resources_via_vm2(replies) ==
    IF replies = <<>> THEN Ask("state2.list_resource")
    ELSE Return(IF replies[1] = Ok("malformed") THEN Err("rpc_unavailable", FALSE)
                ELSE replies[1])

\* The answer of the legacy method, or VM2's when it has none.
list_resources(replies) ==
    CASE vm_profile = "vm2_only"       -> list_resources_via_vm2(replies)
      [] vm_profile # "vm2_only" /\ replies = <<>> -> Ask("state.list_resource")
      [] OTHER ->
         LET legacy == replies[1]
             vm2    == list_resources_via_vm2(Tail(replies))
         IN  CASE vm_profile = "vm1_only"                              -> Return(legacy)
               [] vm_profile = "auto" /\ Missing(legacy)               -> vm2
               [] vm_profile = "auto" /\ legacy.ok /\ legacy.content \in {"nothing", "malformed"} ->
                      IF ~Asks(vm2) /\ Missing(vm2.reply) THEN Return(legacy) ELSE vm2
               [] OTHER                                                -> Return(legacy)

\* A listing becomes an account only when it shows a sequence number.
synthesize_account_state_from_resources(step) ==
    IF Asks(step) \/ ~step.reply.ok THEN step
    ELSE Return(Ok(IF step.reply.content = "full" THEN "full" ELSE "nothing"))

\* Mutant: a failing second lookup leaves the answer of the first.
get_account_state_Lenient(replies) ==
    IF vm_profile = "vm2_only"
    THEN synthesize_account_state_from_resources(list_resources_via_vm2(replies))
    ELSE IF replies = <<>> THEN Ask("state.get_account_state")
    ELSE LET legacy == replies[1]
             listed == synthesize_account_state_from_resources(list_resources(Tail(replies)))
         IN  CASE legacy.ok /\ legacy.content = "full" -> Return(legacy)
               [] legacy.ok /\ legacy.content # "full" ->
                      IF Asks(listed) \/ listed.reply = Ok("full") THEN listed ELSE Return(legacy)
               [] Missing(legacy)                      -> listed
               [] OTHER                                -> Return(legacy)

\* The legacy state, completed from a resource listing where it lacks a
\* sequence number; only "unsupported" excuses a failing second lookup.
get_account_state(replies) ==
    IF vm_profile = "vm2_only"
    THEN synthesize_account_state_from_resources(list_resources_via_vm2(replies))
    ELSE IF replies = <<>> THEN Ask("state.get_account_state")
    ELSE LET legacy == replies[1]
             listed == synthesize_account_state_from_resources(list_resources(Tail(replies)))
             excused == ~Asks(listed) /\ (Missing(listed.reply) \/ listed.reply = Ok("nothing"))
         IN  CASE legacy.ok /\ legacy.content = "full" -> Return(legacy)
               [] legacy.ok /\ legacy.content # "full" -> IF excused THEN Return(legacy) ELSE listed
               [] Missing(legacy)                      -> listed
               [] OTHER                                -> Return(legacy)

get_primary_stc_balance_resource(replies) ==
    CASE vm_profile = "vm1_only"                        -> Return(Ok("nothing"))
      [] vm_profile # "vm1_only" /\ replies = <<>>      -> Ask("state2.get_resource")
      [] OTHER -> Return(IF Missing(replies[1]) THEN Ok("nothing") ELSE replies[1])

Operation == DOMAIN Pairs \cup {"chain_info", "get_state_root", "list_code", "list_resources",
                                "get_account_state", "get_primary_stc_balance_resource"}

\* What an operation does next.
Proceed(op, replies) ==
    CASE op = "submit_signed_transaction"        -> submit_signed_transaction(replies)
      [] op = "chain_info"                       -> chain_info_uncached(replies)
      [] op = "get_state_root"                   -> get_state_root(replies)
      [] op = "list_code"                        -> list_code(replies)
      [] op = "list_resources"                   -> list_resources(replies)
      [] op = "get_account_state"                -> get_account_state(replies)
      [] op = "get_primary_stc_balance_resource" -> get_primary_stc_balance_resource(replies)
      [] op \in DOMAIN Pairs \ {"submit_signed_transaction"} -> paired(op, replies)
=============================================================================
