------------------------------- MODULE NodeRpc -------------------------------
(***************************************************************************)
(* A NodeRpcClient shared by concurrent operations: the calls on the wire, *)
(* the endpoint that may lose replies and change what it offers, and the   *)
(* two caches with their time to live and capacity.                        *)
(***************************************************************************)
EXTENDS RpcCalls, FiniteSets

CONSTANTS
    Client,            \* concurrent operations
    Op, Key,           \* what they may be, and what ABI they ask for
    Exchange,          \* bound: the outcomes of HTTP exchanges considered
    CacheTtl, CacheCapacity,  \* of the chain_info and the abi cache
    RequestTimeout,    \* longest time from an observation to its reply
    MaxTime            \* bound: the end of time

Caches == {"chain_info", "abi"}

ASSUME RpcAssumption ==
    /\ Op \subseteq Operation
    /\ Exchange \subseteq Outcome
    /\ VmProfile \subseteq {"auto", "vm1_only", "vm2_only"}
    /\ CacheTtl \in [Caches -> Nat] /\ CacheCapacity \in [Caches -> Nat]
    /\ {RequestTimeout, MaxChanges, MaxTime} \subseteq Nat

VARIABLES
    now,
    client,    \* what each operation is doing
    cache      \* for each cache, key -> [content, inserted_at, observed_at]

vars == <<vm_profile, now, offered, changes, client, cache>>
world == <<vm_profile, now, offered, changes>>

Cached == {"chain_info", "resolve_module_abi", "resolve_function_abi", "resolve_struct_abi"}
CacheOf(op) == IF op = "chain_info" THEN "chain_info" ELSE "abi"

Idle == [stage |-> "idle", op |-> "none", key |-> "none", replies |-> <<>>, asked |-> <<>>,
         flight |-> Ok("nothing"), observed_at |-> 0, result |-> Ok("nothing"),
         done_at |-> 0, executed |-> 0]
---------------------------------------------------------------------------
(* TimedValueCache.                                                        *)

\* Mutant: an entry found is an entry served.
get_AnyAge(which, key) == key \in DOMAIN cache[which]

get(which, key) ==
    /\ key \in DOMAIN cache[which]
    /\ now - cache[which][key].inserted_at <= CacheTtl[which]

\* At capacity some entry goes, also when the key itself is being refreshed.
Kept(which) ==
    LET keys == DOMAIN cache[which]
    IN  IF Cardinality(keys) >= CacheCapacity[which] THEN {keys \ {k} : k \in keys} ELSE {keys}

insert(which, key, entry) ==
    IF CacheCapacity[which] = 0 THEN {cache}
    ELSE {[cache EXCEPT ![which] =
               [k \in K \cup {key} |-> IF k = key THEN entry ELSE cache[which][k]]] :
          K \in Kept(which)}
---------------------------------------------------------------------------
(* An operation.                                                           *)

\* cached_value: a fresh entry is the answer.
Begin(c) ==
    /\ client[c].stage = "idle"
    /\ \E op \in Op : \E key \in IF op \in Cached \ {"chain_info"} THEN Key ELSE {op} :
           client' = [client EXCEPT ![c] =
               IF op \in Cached /\ get(CacheOf(op), key)
               THEN [Idle EXCEPT !.stage = "done", !.op = op, !.key = key, !.done_at = now,
                                 !.result = Ok(cache[CacheOf(op)][key].content),
                                 !.observed_at = cache[CacheOf(op)][key].observed_at]
               ELSE [Idle EXCEPT !.stage = "run", !.op = op, !.key = key]]
    /\ UNCHANGED <<world, cache>>

Step(c) == Proceed(client[c].op, client[c].replies)

\* external: what may become of a call.  A method the endpoint knows was
\* executed unless the endpoint refused, and perhaps when it was never reached.
Outcomes(method) ==
    {o \in Exchange :
        IF Knows(method) THEN o.kind # "method not found"
        ELSE o.kind \notin {"answer", "invalid params", "rpc error"}}

MayExecute(method, o) ==
    IF ~Knows(method) THEN {FALSE}
    ELSE CASE o.kind = "answer"                                            -> {TRUE}
           [] o.kind \in {"unreachable", "body lost", "http error", "garbled"} -> BOOLEAN
           [] o.kind \in {"method not found", "invalid params", "rpc error"}   -> {FALSE}

\* The call reaches the endpoint, or does not.
Handle(c) ==
    /\ client[c].stage = "run"
    /\ Asks(Step(c))
    /\ \E o \in Outcomes(Step(c).ask) : \E executes \in MayExecute(Step(c).ask, o) :
           client' = [client EXCEPT ![c].stage = "flight", ![c].flight = call(o),
                                    ![c].asked = Append(@, Step(c).ask),
                                    ![c].observed_at = now,
                                    ![c].executed = @ + (IF executes THEN 1 ELSE 0)]
    /\ UNCHANGED <<world, cache>>

\* The reply is read.
Receive(c) ==
    /\ client[c].stage = "flight"
    /\ client' = [client EXCEPT ![c].stage = "run", ![c].flight = Idle.flight,
                                ![c].replies = Append(@, client[c].flight)]
    /\ UNCHANGED <<world, cache>>

\* The operation returns; what a cached one loaded is inserted.
Finish(c) ==
    /\ client[c].stage = "run"
    /\ ~Asks(Step(c))
    /\ client' = [client EXCEPT ![c].stage = "done", ![c].result = Step(c).reply,
                                ![c].done_at = now]
    /\ IF client[c].op \in Cached /\ Step(c).reply.ok
       THEN cache' \in insert(CacheOf(client[c].op), client[c].key,
                              [content |-> Step(c).reply.content, inserted_at |-> now,
                               observed_at |-> client[c].observed_at])
       ELSE UNCHANGED cache
    /\ UNCHANGED world

\* The caller is served, and another operation may come.
Leave(c) ==
    /\ client[c].stage = "done"
    /\ client' = [client EXCEPT ![c] = Idle]
    /\ UNCHANGED <<world, cache>>
---------------------------------------------------------------------------
Init ==
    /\ vm_profile \in VmProfile
    /\ now = 0
    /\ offered \in SUBSET Optional
    /\ changes = 0
    /\ client = [c \in Client |-> Idle]
    /\ cache = [which \in Caches |-> <<>>]

\* external: the endpoint is replaced by one that offers other methods.
EndpointChanges ==
    /\ changes < MaxChanges
    /\ changes' = changes + 1
    /\ offered' \in SUBSET Optional \ {offered}
    /\ UNCHANGED <<vm_profile, now, client, cache>>

\* A reply arrives, or the request timeout takes its place, in time; what has
\* arrived is used at once.
Tick ==
    /\ now < MaxTime
    /\ \A c \in Client :
           /\ client[c].stage = "flight" => now - client[c].observed_at < RequestTimeout
           /\ client[c].stage = "run" => Asks(Step(c))
    /\ now' = now + 1
    /\ UNCHANGED <<vm_profile, offered, changes, client, cache>>

Next ==
    \/ \E c \in Client : Begin(c) \/ Handle(c) \/ Receive(c) \/ Finish(c) \/ Leave(c)
    \/ EndpointChanges
    \/ Tick

Spec == Init /\ [][Next]_vars

---------------------------------------------------------------------------
\* A transaction is executed by the endpoint at most once per submission, and
\* not at all if the submission is reported as unsupported, also when replies
\* are lost or the endpoint starts or stops knowing one of the two methods.
SubmittedOnce ==
    \A c \in Client : client[c].op = "submit_signed_transaction" =>
        /\ client[c].executed <= 1
        /\ client[c].stage = "done" /\ Missing(client[c].result) => client[c].executed = 0

\* No operation of a one-VM profile ever uses a method of the other VM.
ProfileRespected ==
    \A c \in Client : \A i \in DOMAIN client[c].asked :
        /\ vm_profile = "vm1_only" => client[c].asked[i] \notin Vm2
        /\ vm_profile = "vm2_only" => client[c].asked[i] \notin Vm1

\* What a caller is served was observed at most one time to live and one
\* request ago, whoever loaded it.
ServedIsRecent ==
    \A c \in Client : client[c].stage = "done" /\ client[c].op \in Cached /\ client[c].result.ok =>
        client[c].done_at - client[c].observed_at <= CacheTtl[CacheOf(client[c].op)] + RequestTimeout

\* Concurrent loads of several keys never grow the cache past its capacity.
CacheWithinCapacity ==
    \A which \in Caches : Cardinality(DOMAIN cache[which]) <= CacheCapacity[which]

\* "No such account" is never what became of a failed lookup: every surface
\* that was asked answered, or does not offer the query.
AbsentIsNotAnError ==
    \A c \in Client :
        (client[c].stage = "done" /\ client[c].op = "get_account_state"
             /\ client[c].result = Ok("nothing")) =>
            \A i \in DOMAIN client[c].replies :
                client[c].replies[i].ok \/ Missing(client[c].replies[i])

\* A lookup says what the endpoint says: an account or transaction is reported
\* absent only if no method failed on the way, and no method of the VM that the
\* profile excludes is called (AbsentIsNotAnError, ProfileRespected).
LookupsAreSound == AbsentIsNotAnError /\ ProfileRespected

\* Loads that overlap leave a cache sound: what is served is no older than its
\* time to live, and no cache outgrows its capacity (ServedIsRecent,
\* CacheWithinCapacity).
CachesAreSound == ServedIsRecent /\ CacheWithinCapacity

\* vm_profile = auto prefers VM2 methods where both names exist
\* (starcoin-node/docs/rpc-adapter-design.md:168): a VM1 method is asked for
\* only after a VM2 one turned out to be missing.
AutoPrefersVm2 ==
    vm_profile = "auto" =>
        \A c \in Client : \A i \in DOMAIN client[c].asked :
            client[c].asked[i] \in Vm1 => \E j \in 1 .. i - 1 : client[c].asked[j] \in Vm2
=============================================================================
