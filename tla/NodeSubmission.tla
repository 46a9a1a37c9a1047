-------------------------- MODULE NodeSubmission --------------------------
(***************************************************************************)
(* starcoin-node's transaction tools: prepare, simulate, submit and watch, *)
(* as calls that run concurrently in one server process against a Starcoin *)
(* endpoint.  A call yields at every RPC, so each RPC is a step of its own *)
(* and the process's two maps, prepared_transactions and                   *)
(* unresolved_submissions, may change in between.                          *)
(*                                                                         *)
(* The endpoint and its chain are external: a pool, a chain that only      *)
(* grows, one sender.  A submission can be received with its answer lost,  *)
(* or arrive after the caller gave up.                                     *)
(***************************************************************************)
EXTENDS Integers, FiniteSets, Functions

CONSTANTS
    Call,                      \* concurrent tool calls
    Payload,                   \* what a transaction does
    ChainContext,              \* chain identities an endpoint may show
    Pins,                      \* the configured chain identity
    Unpinned,                  \* a pin that is not configured
    ExternalTxn,               \* transactions callers bring from elsewhere
    Operation,                 \* the tools callers use in this instance
    AllowSubmitWithoutPriorSimulation,
    DefaultExpirationTtl, MaxExpirationTtl,
    WatchTimeout, MaxWatchTimeout, MaxSubmitBlockingTimeout,
    MaxConcurrentWatchRequests,
    ChainStatusCacheTtl,
    ExpirationInput, TimeoutInput, ConfirmationInput, \* optional arguments
    KeyInput, BlockingInput,   \* whether a public key is given, whether to block
    Omitted,                   \* an optional argument left out
    LastStart, MaxTime,        \* bounds: the last new call, the end of time
    MaxPrepared,               \* bound: transactions prepared
    MaxHead,                   \* bound: blocks after the genesis
    MaxSequence,               \* bound: transactions the sender executes
    MaxSwitches                \* bound: times the endpoint becomes another node

ASSUME SubmissionAssumption ==
    /\ {DefaultExpirationTtl, MaxExpirationTtl, WatchTimeout, MaxWatchTimeout,
        MaxSubmitBlockingTimeout, ChainStatusCacheTtl, MaxTime} \subseteq Nat
    /\ (ExpirationInput \cup ConfirmationInput) \ {Omitted} \subseteq Nat
    /\ DefaultExpirationTtl <= MaxExpirationTtl   \* validate_clamps

VARIABLES
    now,          \* the host's and the endpoint's clock
    calls,        \* what each tool call is doing
    prepared,     \* prepared_transactions
    unresolved,   \* unresolved_submissions: transaction -> recorded_at
    probe,        \* transaction_probe
    endpoint,     \* external: the node's chain identity and method support
    chain,        \* external: pool, inclusion blocks, head, sender's sequence
    stray,        \* external: submissions still travelling, nobody waits
    prepared_here,\* history: transactions prepare_transaction handed out
    unknown_at,   \* history: when an outcome became unknown, until it is seen
    attested      \* history: simulations and the chain each was made for

vars == <<now, calls, prepared, unresolved, probe, endpoint, chain, stray,
          prepared_here, unknown_at, attested>>
world == <<endpoint, chain, stray>>
history == <<prepared_here, unknown_at, attested>>
memory == <<prepared, unresolved, probe>>

Lesser(i, j) == IF i < j THEN i ELSE j
Greater(i, j) == IF i > j THEN i ELSE j
Given(input, default) == IF input = Omitted THEN default ELSE input
Put(f, x, v) == [y \in DOMAIN f \cup {x} |-> IF y = x THEN v ELSE f[y]]
Without(f, x) == [y \in DOMAIN f \ {x} |-> f[y]]
---------------------------------------------------------------------------
(* Calls.                                                                  *)

NoTxn == [payload |-> "none", chain_id |-> "none", sequence_number |-> 0,
          expiration |-> 0]
NoRecord == [simulation_status |-> "none"]

Idle == [op |-> "none", stage |-> "idle", result |-> "none", txn |-> NoTxn,
         record |-> NoRecord, context |-> Unpinned, snapshot |-> Unpinned,
         snapshot_now |-> 0, blocking |-> FALSE, timeout |-> 0, wanted |-> 0,
         deadline |-> 0, found |-> FALSE, inclusion |-> 0, late |-> FALSE,
         switches |-> 0]

Busy(c) == calls[c].stage # "idle"

\* The call returns; what it held is dropped.
Returned(result) == [Idle EXCEPT !.result = result]
Return(c, result) == calls' = [calls EXCEPT ![c] = Returned(result)]
Goto(c, stage) == calls' = [calls EXCEPT ![c].stage = stage]

\* A watch, alone or at the end of a blocking submit, holds a permit.
Watching(c) == calls[c].stage \in {"lookup", "depth", "sleep"}
try_watch_permit == Cardinality({c \in Call : Watching(c)}) < MaxConcurrentWatchRequests

Start(c, op) ==
    /\ ~Busy(c)
    /\ op \in Operation
    /\ now <= LastStart
---------------------------------------------------------------------------
(* The two maps.                                                           *)

Retention == MaxExpirationTtl + MaxWatchTimeout

prune_prepared_transactions ==
    Restrict(prepared, {t \in DOMAIN prepared : now - prepared[t].recorded_at <= Retention})

prune_unresolved_submissions ==
    Restrict(unresolved, {t \in DOMAIN unresolved : now - unresolved[t] <= Retention})

record_prepared_transaction(t, context, simulation_status) ==
    prepared' = Put(prune_prepared_transactions, t,
                    [simulation_status |-> simulation_status,
                     chain_context |-> context, recorded_at |-> now])

record_unresolved_submission(t) ==
    /\ unresolved' = Put(prune_unresolved_submissions, t, now)
    /\ unknown_at' = IF t \in prepared_here THEN Put(unknown_at, t, now)
                                            ELSE unknown_at

clear_unresolved_submission(t) ==
    /\ unresolved' = Without(unresolved, t)
    /\ unknown_at' = Without(unknown_at, t)
---------------------------------------------------------------------------
(* Chain identity.  Networks are compared in canonical spelling.           *)

validate_chain_identity(context) ==
    /\ Pins.chain_id \in {Unpinned, context.chain_id}
    /\ Pins.network \in {Unpinned, context.network}
    /\ Pins.require_genesis_hash_match =>
           Pins.genesis_hash \in {Unpinned, context.genesis_hash}

SameChain(c1, c2) ==
    /\ c1.chain_id = c2.chain_id
    /\ c1.network = c2.network
    /\ c1.genesis_hash = c2.genesis_hash

\* An identity is no more than what is compared.
ASSUME ContextAssumption == \A c1, c2 \in ChainContext : SameChain(c1, c2) => c1 = c2

\* Mutant: the record is not compared with anything.
validate_prepared_transaction_record_Skip(record, input, current) == TRUE

validate_prepared_transaction_record(record, input, current) ==
    record # NoRecord => /\ SameChain(record.chain_context, input)
                         /\ SameChain(record.chain_context, current)

validate_signed_transaction_submission(t, input, current) ==
    /\ t.chain_id = current.chain_id
    /\ SameChain(input, current)

enforce_submit_simulation_policy(record) ==
    \/ AllowSubmitWithoutPriorSimulation
    \/ record.simulation_status = "performed"
---------------------------------------------------------------------------
(* Prepare and simulate.                                                   *)

Begin(c, op) ==
    [Idle EXCEPT !.op = op, !.stage = "probe", !.switches = endpoint.switches]

\* prepare_transfer, prepare_contract_call, prepare_publish_package: in
\* transaction mode, all go through prepare_transaction.
PrepareTransaction(c) ==
    /\ Start(c, "prepare")
    /\ Cardinality(prepared_here) < MaxPrepared
    /\ calls' = [calls EXCEPT ![c] = Begin(c, "prepare")]
    /\ UNCHANGED <<now, memory, world, history>>

SimulateRawTransaction(c, t) ==
    /\ Start(c, "simulate")
    /\ calls' = [calls EXCEPT ![c] = [Begin(c, "simulate") EXCEPT !.txn = t]]
    /\ UNCHANGED <<now, memory, world, history>>

ProbeIsFresh == now - probe.observed_at <= ChainStatusCacheTtl

\* The verdict comes from the cached probe while that is fresh.
EnsureTransactionCapabilitiesCurrent(c) ==
    /\ calls[c].stage = "probe"
    /\ LET current == IF ProbeIsFresh THEN probe
                      ELSE [supported |-> endpoint.supported, observed_at |-> now]
       IN  /\ probe' = current
           /\ IF current.supported THEN Goto(c, "snapshot") ELSE Return(c, "error")
    /\ UNCHANGED <<now, prepared, unresolved, world, history>>

\* load_transaction_endpoint_snapshot and the checks a submit makes on it.
LoadTransactionEndpointSnapshot(c) ==
    /\ calls[c].stage = "snapshot"
    /\ LET call == calls[c]
           accepted ==
               /\ validate_chain_identity(endpoint.context)
               /\ call.op = "submit" =>
                     /\ validate_prepared_transaction_record(call.record, call.context,
                                                             endpoint.context)
                     /\ enforce_submit_simulation_policy(call.record)
                     /\ validate_signed_transaction_submission(call.txn, call.context,
                                                               endpoint.context)
       IN  IF ~accepted THEN Return(c, "error")
           ELSE IF call.op = "submit" /\ call.txn.expiration <= now
                THEN Return(c, "rejected")
           ELSE calls' = [calls EXCEPT
                    ![c].stage = IF call.op = "simulate" THEN "dry_run" ELSE "sequence",
                    ![c].snapshot = endpoint.context,
                    ![c].snapshot_now = now]
    /\ UNCHANGED <<now, memory, world, history>>

\* Mutant: a requested expiration is taken as it is.
resolve_expiration_Unclamped(now_seconds, requested) ==
    Given(requested, now_seconds + DefaultExpirationTtl)

resolve_expiration(now_seconds, requested) ==
    IF requested = Omitted THEN now_seconds + DefaultExpirationTtl
    ELSE Lesser(requested, now_seconds + MaxExpirationTtl)

\* What the pool answers for the sender, if it holds anything.
txpool_next ==
    {n \in {t.sequence_number + 1 : t \in chain.pool} :
        \A t \in chain.pool : t.sequence_number < n}

\* The greater of chain and pool, or the chain's alone when the pool has no
\* answer or its lookup is unsupported or unavailable.
resolve_sequence_number ==
    {chain.sequence} \cup {Greater(chain.sequence, n) : n \in txpool_next}

\* prepare_transaction once the sequence number is known: the transaction is
\* built, and without a public key it is recorded as not simulated.
BuildRawTransaction(c, payload, sequence_number, requested, has_key) ==
    LET call == calls[c]
        raw_txn == [payload |-> payload, chain_id |-> call.snapshot.chain_id,
                    sequence_number |-> sequence_number,
                    expiration |-> resolve_expiration(call.snapshot_now, requested)]
    IN  /\ call.op = "prepare" /\ call.stage = "sequence"
        /\ IF requested # Omitted /\ requested < call.snapshot_now
           THEN Return(c, "error") /\ UNCHANGED <<prepared, prepared_here>>
           ELSE IF has_key
           THEN /\ calls' = [calls EXCEPT ![c].stage = "dry_run", ![c].txn = raw_txn]
                /\ UNCHANGED <<prepared, prepared_here>>
           ELSE /\ record_prepared_transaction(raw_txn, call.snapshot,
                                               "skipped_missing_public_key")
                /\ prepared_here' = prepared_here \cup {raw_txn}
                /\ Return(c, "prepared")
        /\ UNCHANGED <<now, unresolved, probe, world, unknown_at, attested>>

\* The endpoint's dry run; a failed execution is an error and leaves no record.
DryRunRaw(c) ==
    /\ calls[c].stage = "dry_run"
    /\ LET call == calls[c] IN
       \/ Return(c, "error") /\ UNCHANGED <<prepared, prepared_here, attested>>
       \/ /\ record_prepared_transaction(call.txn, call.snapshot, "performed")
          /\ attested' = attested \cup {<<call.txn, call.snapshot>>}
          /\ prepared_here' = IF call.op = "prepare" THEN prepared_here \cup {call.txn}
                                                     ELSE prepared_here
          /\ Return(c, "prepared")
    /\ UNCHANGED <<now, unresolved, probe, world, unknown_at>>
---------------------------------------------------------------------------
(* Submit.                                                                 *)

effective_submit_timeout_seconds(blocking, requested) ==
    IF blocking THEN Lesser(Given(requested, WatchTimeout), MaxSubmitBlockingTimeout)
                ELSE 0

effective_min_confirmed_blocks(requested) == Greater(Given(requested, 2), 1)

has_unresolved_submission(t) == t \in DOMAIN prune_unresolved_submissions

SubmitSignedTransaction(c, t, input_context, blocking, requested_timeout, min_confirmed) ==
    /\ Start(c, "submit")
    /\ prepared' = prune_prepared_transactions
    /\ unresolved' = prune_unresolved_submissions
    /\ LET call == [Begin(c, "submit") EXCEPT
                       !.txn = t, !.context = input_context,
                       !.record = IF t \in DOMAIN prune_prepared_transactions
                                  THEN prepared[t] ELSE NoRecord,
                       !.blocking = blocking,
                       !.timeout = effective_submit_timeout_seconds(blocking,
                                                                    requested_timeout),
                       !.wanted = effective_min_confirmed_blocks(min_confirmed),
                       !.late = t \in DOMAIN unknown_at]
       IN  calls' = [calls EXCEPT
               ![c] = IF has_unresolved_submission(t) THEN Returned("unknown")
                                                      ELSE call]
    /\ UNCHANGED <<now, probe, world, history>>

\* signed_transaction_sequence_is_stale, then the submission goes out.  A
\* lookup that fails leaves the check to the node.
SendUnlessStale(c, current_sequence) ==
    /\ calls[c].op = "submit" /\ calls[c].stage = "sequence"
    /\ IF current_sequence # Omitted /\ calls[c].txn.sequence_number < current_sequence
       THEN Return(c, "rejected")
       ELSE Goto(c, "reply")
    /\ UNCHANGED <<now, memory, world, history>>

\* External: what the endpoint may say to a transaction, and its pool after.
Verdict(t) ==
    IF t.chain_id # endpoint.context.chain_id THEN {"submission_failed"}
    ELSE IF t.expiration <= now THEN {"transaction_expired"}
    ELSE IF t.sequence_number < chain.sequence THEN {"sequence_number_stale"}
    ELSE IF \E u \in chain.pool : u.sequence_number = t.sequence_number
    THEN {"accepted", "submission_failed"}
    ELSE {"accepted"}

Received(t, verdict) ==
    IF verdict # "accepted" THEN chain
    ELSE [chain EXCEPT !.pool = {u \in @ : u.sequence_number # t.sequence_number}
                                    \cup {t}]

\* watch_transaction begins, inside a blocking submit or on its own.
Watch(call, requested_timeout) ==
    [call EXCEPT !.stage = "lookup",
                 !.deadline = now + Lesser(Given(requested_timeout, WatchTimeout),
                                           MaxWatchTimeout)]

\* The endpoint answers.  After an acceptance a blocking submit watches if it
\* gets a permit, and reports the acceptance alone if it does not.
SubmissionAnswered(c) ==
    /\ calls[c].stage = "reply"
    /\ \E verdict \in Verdict(calls[c].txn) :
          /\ chain' = Received(calls[c].txn, verdict)
          /\ IF verdict = "accepted"
             THEN IF calls[c].blocking /\ try_watch_permit
                  THEN calls' = [calls EXCEPT ![c] = Watch(@, @.timeout)]
                  ELSE Return(c, "accepted")
             ELSE Return(c, IF verdict = "submission_failed" THEN "error" ELSE "rejected")
    /\ UNCHANGED <<now, memory, endpoint, stray, history>>

\* Node or RPC unavailable, or an answer that says it cannot tell: the
\* submission was received and its answer lost, or it still travels.
SubmissionUnknown(c) ==
    /\ calls[c].stage = "reply"
    /\ \/ /\ \E verdict \in Verdict(calls[c].txn) :
                chain' = Received(calls[c].txn, verdict)
          /\ UNCHANGED stray
       \/ stray' = stray \cup {calls[c].txn} /\ UNCHANGED chain
    /\ record_unresolved_submission(calls[c].txn)
    /\ Return(c, "unknown")
    /\ UNCHANGED <<now, prepared, probe, endpoint, prepared_here, attested>>
---------------------------------------------------------------------------
(* Watch.                                                                  *)

WatchTransaction(c, t, requested_timeout, min_confirmed) ==
    /\ Start(c, "watch")
    /\ calls' = [calls EXCEPT
           ![c] = LET call == [Begin(c, "watch") EXCEPT
                                  !.txn = t,
                                  !.wanted = effective_min_confirmed_blocks(min_confirmed)]
                  IN  IF try_watch_permit THEN Watch(call, requested_timeout)
                                          ELSE Returned("error")]
    /\ UNCHANGED <<now, memory, world, history>>

\* A watch inside a submit never turns an acceptance into anything less.
WatchReturns(c, result) ==
    Return(c, IF calls[c].op = "watch" THEN result
              ELSE IF result = "confirmed" THEN "accepted_confirmed" ELSE "accepted")

Included(t) == t \in DOMAIN chain.included

\* Mutant: the deadline counts only once the transaction was seen.
RoundEnds_Seen(c, found) ==
    IF found /\ now >= calls[c].deadline
    THEN WatchReturns(c, "found")
    ELSE calls' = [calls EXCEPT ![c].stage = "sleep", ![c].found = found]

\* The end of a round: the deadline, or sleep until the next one.
RoundEnds(c, found) ==
    IF now >= calls[c].deadline
    THEN WatchReturns(c, IF found THEN "found" ELSE "not_found")
    ELSE calls' = [calls EXCEPT ![c].stage = "sleep", ![c].found = found]

\* get_transaction: in the pool, or with transaction_info in a block.
LookupTransaction(c) ==
    /\ calls[c].stage = "lookup"
    /\ LET t == calls[c].txn IN
       \/ /\ Included(t)
          /\ calls' = [calls EXCEPT ![c].stage = "depth",
                                    ![c].inclusion = chain.included[t]]
          /\ UNCHANGED <<unresolved, unknown_at>>
       \/ /\ ~Included(t) /\ t \in chain.pool
          /\ clear_unresolved_submission(t)
          /\ RoundEnds(c, TRUE)
       \/ /\ ~Included(t) /\ t \notin chain.pool
          /\ RoundEnds(c, calls[c].found)
          /\ UNCHANGED <<unresolved, unknown_at>>
    /\ UNCHANGED <<now, prepared, probe, world, prepared_here, attested>>

\* Mutant: the including block is counted twice.
confirmation_depth_OffByOne(inclusion_block_number) ==
    Greater(chain.head - inclusion_block_number, 0) + 2

confirmation_depth(inclusion_block_number) ==
    Greater(chain.head - inclusion_block_number, 0) + 1

\* The second RPC of a round that found the transaction in a block.
LoadConfirmationDepth(c) ==
    /\ calls[c].stage = "depth"
    /\ IF ~validate_chain_identity(endpoint.context)
       THEN WatchReturns(c, "error") /\ UNCHANGED <<unresolved, unknown_at>>
       ELSE /\ clear_unresolved_submission(calls[c].txn)
            /\ IF confirmation_depth(calls[c].inclusion) >= calls[c].wanted
               THEN WatchReturns(c, "confirmed")
               ELSE RoundEnds(c, TRUE)
    /\ UNCHANGED <<now, prepared, probe, world, prepared_here, attested>>

WakeUp(c) ==
    /\ calls[c].stage = "sleep"
    /\ Goto(c, "lookup")
    /\ UNCHANGED <<now, memory, world, history>>
---------------------------------------------------------------------------
(* Faults, the process and the outside.                                    *)

\* An RPC fails: the call ends, and an accepted submission stays accepted.
RpcFails(c) ==
    /\ \/ calls[c].stage \in {"snapshot", "dry_run", "lookup", "depth"}
       \/ calls[c].stage = "probe" /\ ~ProbeIsFresh
       \/ calls[c].stage = "sequence" /\ calls[c].op = "prepare"
    /\ IF Watching(c) THEN WatchReturns(c, "error") ELSE Return(c, "error")
    /\ UNCHANGED <<now, memory, world, history>>

\* The process ends and bootstrap starts it again with empty maps; every
\* starcoin-node-cli call is such a process.
Bootstrap ==
    /\ endpoint.supported
    /\ validate_chain_identity(endpoint.context)
    /\ stray' = stray \cup {calls[c].txn : c \in {c \in Call : calls[c].stage = "reply"}}
    /\ calls' = [c \in Call |-> Idle]
    /\ prepared' = <<>> /\ unresolved' = <<>> /\ unknown_at' = <<>> /\ attested' = {}
    /\ probe' = [supported |-> TRUE, observed_at |-> now]
    /\ UNCHANGED <<now, endpoint, chain, prepared_here>>

StrayArrives(t) ==
    /\ \E verdict \in Verdict(t) : chain' = Received(t, verdict)
    /\ stray' = stray \ {t}
    /\ UNCHANGED <<now, calls, memory, endpoint, history>>

StrayLost(t) ==
    /\ stray' = stray \ {t}
    /\ UNCHANGED <<now, calls, memory, endpoint, chain, history>>

\* A block with at most one of the sender's transactions.
ProduceBlock ==
    /\ chain.head < MaxHead
    /\ \/ chain' = [chain EXCEPT !.head = @ + 1]
       \/ \E t \in chain.pool :
             /\ t.sequence_number = chain.sequence /\ t.sequence_number < MaxSequence
             /\ t.expiration > now
             /\ chain' = [head |-> chain.head + 1, sequence |-> chain.sequence + 1,
                          pool |-> {u \in chain.pool : u.sequence_number > chain.sequence},
                          included |-> Put(chain.included, t, chain.head + 1)]
    /\ UNCHANGED <<now, calls, memory, endpoint, stray, history>>

\* The pool forgets a transaction, as pools do.
PoolDrops(t) ==
    /\ chain' = [chain EXCEPT !.pool = @ \ {t}]
    /\ UNCHANGED <<now, calls, memory, endpoint, stray, history>>

EmptyChain == [pool |-> {}, included |-> <<>>, head |-> 0, sequence |-> 0]

\* Another node answers at the configured address, or the node's set of
\* methods changes.
EndpointChanges ==
    /\ endpoint.switches < MaxSwitches
    /\ \/ \E context \in ChainContext \ {endpoint.context} :
             /\ endpoint' = [endpoint EXCEPT !.context = context, !.switches = @ + 1]
             /\ chain' = EmptyChain /\ stray' = {}
       \/ /\ endpoint' = [endpoint EXCEPT !.supported = ~@, !.switches = @ + 1]
          /\ UNCHANGED <<chain, stray>>
    /\ UNCHANGED <<now, calls, memory, history>>

\* Time stops at the bound, but not under a watch.
AdvanceClock ==
    /\ now < MaxTime \/ \E c \in Call : now < calls[c].deadline
    /\ now' = now + 1
    /\ UNCHANGED <<calls, memory, world, history>>
---------------------------------------------------------------------------
(* The specification.                                                      *)

Init ==
    /\ now = 1
    /\ calls = [c \in Call |-> Idle]
    /\ prepared = <<>> /\ unresolved = <<>>
    /\ probe = [supported |-> TRUE, observed_at |-> 1]
    /\ endpoint \in [context : {x \in ChainContext : validate_chain_identity(x)},
                     supported : {TRUE}, switches : {0}]
    /\ chain = EmptyChain /\ stray = {}
    /\ prepared_here = {} /\ unknown_at = <<>> /\ attested = {}

KnownTxn == prepared_here \cup ExternalTxn

CallProgress(c) ==
    \/ EnsureTransactionCapabilitiesCurrent(c)
    \/ LoadTransactionEndpointSnapshot(c)
    \/ \E payload \in Payload, requested \in ExpirationInput, has_key \in KeyInput :
          \E sequence_number \in resolve_sequence_number :
             BuildRawTransaction(c, payload, sequence_number, requested, has_key)
    \/ DryRunRaw(c)
    \/ \E current \in resolve_sequence_number \cup {Omitted} : SendUnlessStale(c, current)
    \/ SubmissionAnswered(c)
    \/ SubmissionUnknown(c)
    \/ LookupTransaction(c)
    \/ LoadConfirmationDepth(c)
    \/ WakeUp(c)
    \/ RpcFails(c)

CallStarts(c) ==
    \/ PrepareTransaction(c)
    \/ \E t \in KnownTxn :
          \/ SimulateRawTransaction(c, t)
          \/ \E context \in ChainContext, blocking \in BlockingInput, timeout \in TimeoutInput,
                min_confirmed \in ConfirmationInput :
                SubmitSignedTransaction(c, t, context, blocking, timeout, min_confirmed)
          \/ \E timeout \in TimeoutInput, min_confirmed \in ConfirmationInput :
                WatchTransaction(c, t, timeout, min_confirmed)

Outside ==
    \/ \E t \in stray : StrayArrives(t) \/ StrayLost(t)
    \/ ProduceBlock
    \/ \E t \in chain.pool : PoolDrops(t)
    \/ EndpointChanges
    \/ AdvanceClock

Next == (\E c \in Call : CallStarts(c) \/ CallProgress(c)) \/ Bootstrap \/ Outside

Spec == Init /\ [][Next]_vars

\* Every RPC ends, in an answer or in the client's timeout, and time passes.
FairSpec == Spec /\ (\A c \in Call : WF_vars(CallProgress(c))) /\ WF_vars(AdvanceClock)
---------------------------------------------------------------------------
(* Properties.                                                             *)

\* submit_signed_transaction: once the outcome of a transaction prepared here is
\* unknown, a submit begun later never puts it on the wire again in this
\* process, unless a watch has seen it meanwhile.  While the outcome is kept the
\* submit answers "unknown"; the pruning of unresolved_submissions forgets it
\* only when the expiration that prepare_transaction gave it has passed.
UnknownIsNotResent ==
    \A c \in Call : calls[c].op = "submit" /\ calls[c].stage = "reply" => ~calls[c].late

\* With allow_submit_without_prior_simulation off, whatever goes out was
\* simulated with success, in this process, by a call that saw the chain the
\* endpoint shows, as long as the endpoint did not change under the submit.
SentOnlyWhereSimulated ==
    [][\A c \in Call :
          /\ ~AllowSubmitWithoutPriorSimulation
          /\ calls[c].stage = "sequence" /\ calls'[c].stage = "reply"
          /\ calls[c].switches = endpoint.switches
          => <<calls[c].txn, endpoint.context>> \in attested]_vars

\* What a watch reports is so.  watch_transaction reports a confirmation only for
\* a transaction in a block with the wanted number of blocks from there to the
\* head, although the inclusion and the head come from two RPCs; and a
\* submission the endpoint took is never reported as an error or unknown by the
\* blocking watch after it, even when the watch gets no permit or its RPCs fail.
WatchTellsTheTruth ==
    [][\A c \in Call :
          /\ /\ calls[c].stage = "depth" /\ calls[c].switches = endpoint.switches
             /\ calls'[c].result \in {"confirmed", "accepted_confirmed"}
             => /\ Included(calls[c].txn)
                /\ chain.head >= chain.included[calls[c].txn] + calls[c].wanted - 1
          /\ calls[c].op = "submit" /\ Watching(c) /\ calls'[c].result # "none"
             => calls'[c].result \in {"accepted", "accepted_confirmed"}]_vars

\* Every call returns: each RPC ends, and a watch stops at its deadline even if
\* the transaction never appears.
CallsReturn == \A c \in Call : Busy(c) ~> ~Busy(c)

\* starcoin-node/docs/testing-and-acceptance.md: "blind re-submission after
\* `submission_unknown` is blocked by policy".
NoBlindResubmission ==
    [][\A c \in Call :
          calls[c].stage = "sequence" /\ calls'[c].stage = "reply"
          => calls[c].txn \notin DOMAIN unknown_at]_vars

\* starcoin-node/docs/starcoin-node-interface-design.md, on
\* submission_state = rejected: "the endpoint explicitly rejected the
\* transaction".
RejectedWasNotTaken ==
    [][\A c \in Call :
          calls[c].op = "submit" /\ Busy(c) /\ calls'[c].result = "rejected"
          => calls[c].txn \notin chain.pool /\ ~Included(calls[c].txn)]_vars
===========================================================================
