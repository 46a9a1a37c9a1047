------------------------- MODULE TransferWorkflow -------------------------
(***************************************************************************)
(* Transfer runs: prepare, preview, ask for a signature, submit, watch.    *)
(* Several runs may share a state file that remembers what was prepared    *)
(* and which submissions have an unknown outcome.  Every call of the node  *)
(* tool is a process of its own, so the node keeps nothing between calls;  *)
(* every call, and every access to the state file, is a step.              *)
(*                                                                         *)
(* The wallet daemon is what Coordinator promises of it: a request is      *)
(* created once per client_request_id, and ends once.  The chain has one   *)
(* sender, who pays Amount to one receiver with every transfer.            *)
(***************************************************************************)
EXTENDS TransferPreflight, FiniteSets, FiniteSetsExt

CONSTANTS
    Run,                    \* invocations of run_transfer_test.py
    StatePath,              \* state files (--state-path, or the runtime's)
    Amount, Fee,            \* what a transfer takes from the sender
    Funds,                  \* what the sender has
    ExpirationTtl,          \* default_expiration_ttl_seconds
    RequestTtl,             \* --ttl-seconds
    MaxPreparedRecords, MaxUnresolvedRecords,
    MaxAborts,              \* bound: runs that crash or raise
    LastStart, MaxTime      \* bounds: the last new run, the end of time

NoRun == "nobody"

ASSUME WorkflowAssumption ==
    /\ {Amount, Fee, Funds, ExpirationTtl, RequestTtl, MaxAborts, MaxTime} \subseteq Nat
    /\ {MaxPreparedRecords, MaxUnresolvedRecords} \subseteq Nat \ {0}
    /\ NoRun \notin Run

VARIABLES
    now,
    runs,        \* what each run is doing
    state_file,  \* contents of each state file
    lock,        \* flock on each state file's lock file
    requests,    \* the daemon: client_request_id -> request
    chain,       \* external: pool, executed transactions, sequence, funds
    stray,       \* external: submissions still travelling, nobody waits
    ledger,      \* history: <<file, payload>> recorded as unknown, not seen since
    dropped,     \* history: <<file, payload>> that a full file let go
    aborts

vars == <<now, runs, state_file, lock, requests, chain, stray, ledger, dropped, aborts>>
world == <<now, requests, chain, stray, aborts>>
store == <<state_file, lock, ledger, dropped>>

NoPayload == [sequence_number |-> 0, expiration |-> 0]
Put(f, x, v) == [y \in DOMAIN f \cup {x} |-> IF y = x THEN v ELSE f[y]]
Without(f, x) == [y \in DOMAIN f \ {x} |-> f[y]]
EmptyFile == [prepared |-> <<>>, unresolved |-> <<>>]

Idle == [stage |-> "idle", path |-> NoRun, payload |-> NoPayload,
         update |-> "none", content |-> EmptyFile, request |-> 0,
         submit |-> "none", watch |-> "none", clear_again |-> FALSE,
         known |-> FALSE, inherited |-> {}, exit |-> "none"]

At(r, stage) == runs[r].stage = stage
Goto(r, stage) == runs' = [runs EXCEPT ![r].stage = stage]
Exit(r, code) == runs' = [runs EXCEPT ![r].stage = "exited", ![r].exit = code]
---------------------------------------------------------------------------
(* The state file.  A record carries the second it was made in.            *)

\* The oldest records go, down to the limit.  Records of one second are in the
\* order of their hashes, left open here, with the one just added at the end.
prune_records(records, max, latest) ==
    LET older(p) == {q \in DOMAIN records :
                        \/ records[q].recorded_at < records[p].recorded_at
                        \/ records[q].recorded_at = records[p].recorded_at /\ p = latest /\ q # latest}
        keeps(K) == /\ Cardinality(K) = max
                    /\ \A p \in DOMAIN records \ K : older(p) \cap K = {}
    IN  IF Cardinality(DOMAIN records) <= max THEN {records}
        ELSE {[p \in K |-> records[p]] : K \in {K \in SUBSET DOMAIN records : keeps(K)}}

record_prepared(file, p) ==
    {[file EXCEPT !.prepared = records] : records \in
        prune_records(Put(file.prepared, p, [recorded_at |-> now]), MaxPreparedRecords, p)}

record_unresolved_submission(file, p) ==
    {[file EXCEPT !.unresolved = records] : records \in
        prune_records(Put(file.unresolved, p, [recorded_at |-> now]), MaxUnresolvedRecords, p)}

clear_unresolved_submission(file, p) ==
    {[file EXCEPT !.unresolved = Without(file.unresolved, p)]}

\* Mutant: the file is read before the lock is taken by anyone else.
LockState_Shared(r) ==
    /\ At(r, "lock")
    /\ lock' = [lock EXCEPT ![runs[r].path] = r]
    /\ runs' = [runs EXCEPT ![r].stage = "write",
                            ![r].content = state_file[runs[r].path]]
    /\ UNCHANGED <<world, state_file, ledger, dropped>>

\* LockedState.__enter__: take the lock, then read.
LockState(r) ==
    /\ At(r, "lock")
    /\ lock[runs[r].path] = NoRun
    /\ lock' = [lock EXCEPT ![runs[r].path] = r]
    /\ runs' = [runs EXCEPT ![r].stage = "write",
                            ![r].content = state_file[runs[r].path]]
    /\ UNCHANGED <<world, state_file, ledger, dropped>>

Updated(r) ==
    LET p == runs[r].payload
    IN  CASE runs[r].update = "prepared"   -> record_prepared(runs[r].content, p)
          [] runs[r].update = "unresolved" -> record_unresolved_submission(runs[r].content, p)
          [] runs[r].update = "clear"      -> clear_unresolved_submission(runs[r].content, p)

\* Where the run goes on after the update.
AfterUpdate(r) ==
    CASE runs[r].update = "prepared"   -> "preflight"
      [] runs[r].update = "unresolved" -> "watch"
      [] runs[r].update = "clear"      -> IF runs[r].clear_again THEN "lock" ELSE "finish"

\* Mutant: the lock is kept until the process ends.
WriteState_KeepsLock(r) ==
    /\ At(r, "write")
    /\ \E file \in Updated(r) : state_file' = [state_file EXCEPT ![runs[r].path] = file]
    /\ runs' = [runs EXCEPT ![r].stage = AfterUpdate(r), ![r].clear_again = FALSE]
    /\ UNCHANGED <<world, lock, ledger, dropped>>

\* LockedState.__exit__: the new contents replace the file, then the lock goes.
WriteState(r) ==
    LET path == runs[r].path
        p    == runs[r].payload
    IN  /\ At(r, "write")
        /\ \E file \in Updated(r) :
               /\ state_file' = [state_file EXCEPT ![path] = file]
               /\ dropped' = IF runs[r].update # "unresolved" THEN dropped
                             ELSE dropped \cup {<<path, q>> : q \in
                                      DOMAIN runs[r].content.unresolved \ DOMAIN file.unresolved}
        /\ lock' = [lock EXCEPT ![path] = NoRun]
        /\ ledger' = CASE runs[r].update = "unresolved" -> ledger \cup {<<path, p>>}
                       [] runs[r].update = "clear"      -> ledger \ {<<path, p>>}
                       [] OTHER                         -> ledger
        /\ runs' = [runs EXCEPT ![r].stage = AfterUpdate(r), ![r].clear_again = FALSE,
                                ![r].content = EmptyFile]
        /\ UNCHANGED world

Update(r, kind) == [runs[r] EXCEPT !.stage = "lock", !.update = kind]
---------------------------------------------------------------------------
(* The node, one process per call.  A payload is executed at most once, in *)
(* the order of sequence numbers.                                          *)

NextSequence ==
    Min((chain.sequence .. chain.sequence + Cardinality(chain.pool))
            \ {p.sequence_number : p \in chain.pool})
OnChain(p) == p \in DOMAIN chain.executed

\* The pool takes one transaction per sequence number.
Admissible(p) ==
    /\ p.sequence_number >= chain.sequence
    /\ \A q \in chain.pool : q.sequence_number # p.sequence_number

Receive(p) ==
    chain' = IF Admissible(p) THEN [chain EXCEPT !.pool = @ \cup {p}] ELSE chain

\* A transfer is executed, and may fail for lack of funds.
Execute(p) ==
    LET paid == chain.funds >= Amount + Fee
    IN  /\ p \in chain.pool
        /\ p.sequence_number = chain.sequence
        /\ now < p.expiration
        /\ chain' = [pool     |-> chain.pool \ {p},
                     executed |-> Put(chain.executed, p, IF paid THEN "paid" ELSE "failed"),
                     sequence |-> chain.sequence + 1,
                     funds    |-> IF paid THEN chain.funds - Amount - Fee ELSE chain.funds]
        /\ UNCHANGED <<now, runs, store, requests, stray, aborts>>

\* An expired transaction leaves the pool.
Discard(p) ==
    /\ p \in chain.pool
    /\ p.expiration <= now
    /\ chain' = [chain EXCEPT !.pool = @ \ {p}]
    /\ UNCHANGED <<now, runs, store, requests, stray, aborts>>

\* A submission whose sender gave up arrives, or is lost for good.
StrayArrives(p) ==
    /\ p \in stray
    /\ stray' = stray \ {p}
    /\ \/ Receive(p)
       \/ UNCHANGED chain
    /\ UNCHANGED <<now, runs, store, requests, aborts>>
---------------------------------------------------------------------------
(* Preparing.                                                              *)

\* The run opens its state file and reads the node's chain identity.
StartRun(r) ==
    /\ At(r, "idle")
    /\ now <= LastStart
    /\ \E path \in StatePath :
           runs' = [runs EXCEPT ![r] = [Idle EXCEPT
                        !.stage = "wallet", !.path = path,
                        !.inherited = DOMAIN state_file[path].unresolved]]
    /\ UNCHANGED <<world, store>>

\* The daemon's socket accepts a connection and the wallet instance is listed,
\* within ten seconds each; if not, the run raises (Abort).
FindWallet(r) ==
    /\ At(r, "wallet")
    /\ Goto(r, "prepare")
    /\ UNCHANGED <<world, store>>

\* prepare_session: the wallet's accounts and key, prepare_transfer, and the
\* attestation.  A failed simulation raises, like every other error (Abort).
PrepareSession(r) ==
    /\ At(r, "prepare")
    /\ runs' = [runs EXCEPT ![r] = [Update(r, "prepared") EXCEPT
                    !.payload = [sequence_number |-> NextSequence,
                                 expiration |-> now + ExpirationTtl]]]
    /\ UNCHANGED <<world, store>>

SessionFacts(p) ==
    [token |-> Code(Vm2Stc), raw_amount |-> Amount, gas_used |-> None,
     facts |-> [token |-> None, gas_token |-> Code(Vm2Stc), gas_unit_price |-> None,
                sequence_number |-> p.sequence_number, estimated_network_fee |-> Fee],
     raw_txn |-> [gas_token |-> None, gas_unit_price |-> None, sequence_number |-> None],
     chain_context |-> "pinned", sender |-> "sender", receiver |-> "receiver",
     sender_visible |-> TRUE]

Observed(node_available) ==
    [chain_context |-> "pinned", node_available |-> node_available,
     warnings |-> ~node_available, resources |-> <<>>,
     primary |-> [amount |-> chain.funds], receiver_exists |-> TRUE,
     next_sequence_number_hint |-> NextSequence]

\* collect_preflight_report: blocking risks end the run.
CollectPreflight(r) ==
    /\ At(r, "preflight")
    /\ \E node_available \in BOOLEAN :
           LET report == analyze_preflight(SessionFacts(runs[r].payload),
                                           Observed(node_available))
           IN  IF has_blocking_risks(report) THEN Exit(r, "1") ELSE Goto(r, "confirm")
    /\ UNCHANGED <<world, store>>

\* prompt_yes_no.
Confirm(r) ==
    /\ At(r, "confirm")
    /\ Goto(r, "sign") \/ Exit(r, "0")
    /\ UNCHANGED <<world, store>>
---------------------------------------------------------------------------
(* Signing.  The client_request_id is the current second.                  *)

\* Mutant: whatever request carries the id is taken.
CreateSignRequest_AnyOf(r) ==
    /\ At(r, "sign")
    /\ requests' = IF now \in DOMAIN requests THEN requests
                   ELSE Put(requests, now, [payload |-> runs[r].payload, status |-> "open",
                                            expires_at |-> now + RequestTtl])
    /\ runs' = [runs EXCEPT ![r].stage = "poll", ![r].request = now]
    /\ UNCHANGED <<now, chain, stray, aborts, store>>

\* The daemon answers a known id with its request if the payload is the same,
\* and with an error, which ends the run, if it is not.
CreateSignRequest(r) ==
    /\ At(r, "sign")
    /\ IF now \notin DOMAIN requests \/ requests[now].payload = runs[r].payload
       THEN /\ requests' = IF now \in DOMAIN requests THEN requests
                           ELSE Put(requests, now, [payload |-> runs[r].payload,
                                        status |-> "open", expires_at |-> now + RequestTtl])
            /\ runs' = [runs EXCEPT ![r].stage = "poll", ![r].request = now]
       ELSE Exit(r, "1") /\ UNCHANGED requests
    /\ UNCHANGED <<now, chain, stray, aborts, store>>

EndRequest(id, status) ==
    /\ requests[id].status = "open"
    /\ requests' = [requests EXCEPT ![id].status = status]
    /\ UNCHANGED <<now, runs, store, chain, stray, aborts>>

\* The wallet decides; a request nobody decides expires.
Decide(id) == EndRequest(id, "approved") \/ EndRequest(id, "rejected")
Expire(id) == now >= Min({requests[id].expires_at, MaxTime}) /\ EndRequest(id, "expired")

\* wait_for_terminal_request: the poll that finds an end.
PollRequest(r) ==
    /\ At(r, "poll")
    /\ requests[runs[r].request].status # "open"
    /\ IF requests[runs[r].request].status = "approved" THEN Goto(r, "check") ELSE Exit(r, "1")
    /\ UNCHANGED <<world, store>>
---------------------------------------------------------------------------
(* Submitting.  The state file is read without its lock.                   *)

unresolved_for_session(r) ==
    runs[r].payload \in DOMAIN state_file[runs[r].path].unresolved

CheckUnresolved(r) ==
    /\ At(r, "check")
    /\ runs' = [runs EXCEPT ![r].stage = IF unresolved_for_session(r) THEN "reconcile" ELSE "attest",
                            ![r].known = <<runs[r].path, runs[r].payload>> \in ledger]
    /\ UNCHANGED <<world, store>>

\* require_prepared_for_submit: the attestation may have been pruned.
RequirePrepared(r) ==
    /\ At(r, "attest")
    /\ IF runs[r].payload \in DOMAIN state_file[runs[r].path].prepared
       THEN Goto(r, "send") ELSE Exit(r, "1")
    /\ UNCHANGED <<world, store>>

\* watch_transaction of the recorded hash instead of a submission.
Reconcile(r) ==
    /\ At(r, "reconcile")
    /\ \/ /\ OnChain(runs[r].payload)
          /\ runs' = [runs EXCEPT ![r] = [Update(r, "clear") EXCEPT
                                              !.submit = "accepted", !.watch = "confirmed"]]
       \/ runs' = [runs EXCEPT ![r].stage = "finish", ![r].submit = "unknown",
                               ![r].watch = "unconfirmed"]
    /\ UNCHANGED <<world, store>>

\* The node refuses an expired or used transaction before it sends anything.
Refused(p) == p.expiration <= now \/ p.sequence_number < NextSequence

SubmitRefused(r) ==
    /\ At(r, "send")
    /\ Refused(runs[r].payload)
    /\ runs' = [runs EXCEPT ![r].stage = "finish", ![r].submit = "rejected"]
    /\ UNCHANGED <<world, store>>

SubmitAccepted(r) ==
    /\ At(r, "send")
    /\ ~Refused(runs[r].payload) /\ Admissible(runs[r].payload)
    /\ Receive(runs[r].payload)
    /\ runs' = [runs EXCEPT ![r].stage = "answer", ![r].submit = "accepted"]
    /\ UNCHANGED <<now, requests, stray, aborts, store>>

\* Mutant: the outcome is recorded only if the watch does not settle it.
SubmitUnknown_Later(r) ==
    /\ At(r, "send")
    /\ ~Refused(runs[r].payload)
    /\ runs' = [runs EXCEPT ![r].stage = "watch", ![r].submit = "unknown"]
    /\ \/ Receive(runs[r].payload) /\ UNCHANGED stray
       \/ stray' = stray \cup {runs[r].payload} /\ UNCHANGED chain
    /\ UNCHANGED <<now, requests, aborts, store>>

\* No definite answer: the transaction arrived, or is still on its way.
SubmitUnknown(r) ==
    /\ At(r, "send")
    /\ ~Refused(runs[r].payload)
    /\ runs' = [runs EXCEPT ![r] = [Update(r, "unresolved") EXCEPT !.submit = "unknown"]]
    /\ \/ Receive(runs[r].payload) /\ UNCHANGED stray
       \/ stray' = stray \cup {runs[r].payload} /\ UNCHANGED chain
    /\ UNCHANGED <<now, requests, aborts, store>>

\* What a watch ends with.  Only the reconciling one clears the record twice.
WatchEnds(r) ==
    \/ /\ OnChain(runs[r].payload)
       /\ runs' = [runs EXCEPT ![r] = [Update(r, "clear") EXCEPT
                       !.watch = "confirmed",
                       !.clear_again = (runs[r].submit = "unknown")]]
    \/ runs' = [runs EXCEPT ![r].stage = "finish", ![r].watch = "unconfirmed"]

\* The submission's own watch ends, or failed and is repeated.
SubmitReturns(r) ==
    /\ At(r, "answer")
    /\ WatchEnds(r) \/ Goto(r, "watch")
    /\ UNCHANGED <<world, store>>

WatchReturns(r) ==
    /\ At(r, "watch")
    /\ WatchEnds(r)
    /\ UNCHANGED <<world, store>>

\* The exit code of a run that submitted.
Finish(r) ==
    /\ At(r, "finish")
    /\ Exit(r, IF runs[r].submit = "accepted" /\ runs[r].watch = "confirmed" THEN "0" ELSE "1")
    /\ UNCHANGED <<world, store>>

\* An exception, or the end of the process, at any point; a lock goes with it,
\* and contents not yet written are lost.
Abort(r) ==
    /\ runs[r].stage \notin {"idle", "exited"}
    /\ aborts < MaxAborts
    /\ aborts' = aborts + 1
    /\ runs' = [runs EXCEPT ![r].stage = "exited", ![r].exit = "aborted",
                            ![r].content = EmptyFile]
    /\ lock' = [path \in StatePath |-> IF lock[path] = r THEN NoRun ELSE lock[path]]
    /\ UNCHANGED <<now, requests, chain, stray, state_file, ledger, dropped>>
---------------------------------------------------------------------------
Init ==
    /\ now = 0
    /\ runs = [r \in Run |-> Idle]
    /\ state_file = [path \in StatePath |-> EmptyFile]
    /\ lock = [path \in StatePath |-> NoRun]
    /\ requests = <<>>
    /\ chain = [pool |-> {}, executed |-> <<>>, sequence |-> 1, funds |-> Funds]
    /\ stray = {}
    /\ ledger = {}
    /\ dropped = {}
    /\ aborts = 0

Tick ==
    /\ now < MaxTime
    /\ now' = now + 1
    /\ UNCHANGED <<runs, store, requests, chain, stray, aborts>>

RunStep(r) ==
    \/ FindWallet(r) \/ PrepareSession(r) \/ LockState(r) \/ WriteState(r)
    \/ CollectPreflight(r) \/ Confirm(r)
    \/ CreateSignRequest(r) \/ PollRequest(r)
    \/ CheckUnresolved(r) \/ RequirePrepared(r) \/ Reconcile(r)
    \/ SubmitRefused(r) \/ SubmitAccepted(r) \/ SubmitUnknown(r)
    \/ SubmitReturns(r) \/ WatchReturns(r) \/ Finish(r)

Next ==
    \/ \E r \in Run : StartRun(r) \/ RunStep(r) \/ Abort(r)
    \/ \E id \in DOMAIN requests : Decide(id) \/ Expire(id)
    \/ \E p \in chain.pool : Execute(p) \/ Discard(p)
    \/ \E p \in stray : StrayArrives(p)
    \/ Tick

Spec == Init /\ [][Next]_vars

\* A run goes on as long as its calls return; undecided requests expire.
FairSpec ==
    /\ Spec
    /\ WF_vars(Tick)
    /\ \A r \in Run : WF_vars(RunStep(r))
    /\ \A id \in 0 .. MaxTime : WF_vars(id \in DOMAIN requests /\ Expire(id))
---------------------------------------------------------------------------
(* Properties.                                                             *)

Reached(r) == runs[r].stage \in {"check", "attest", "reconcile", "send", "answer",
                                 "watch", "finish"}

\* A run submits the signature of the transaction it prepared and previewed.
\* Request ids are seconds, so runs that ask in the same second share an id; a
\* run never goes on with another run's transaction.
\* (create_sign_request, run_transfer_test.py main: client_request_id.)
SignedIsOwn ==
    \A r \in Run : Reached(r) => requests[runs[r].request].payload = runs[r].payload

RecordsStay(path) ==
    LET before == state_file[path].unresolved
        after  == state_file'[path].unresolved
    IN  /\ \A p \in DOMAIN before \ DOMAIN after :
               \/ OnChain(p)
               \/ /\ Cardinality(DOMAIN after) = MaxUnresolvedRecords
                  /\ \A q \in DOMAIN after \cap DOMAIN before :
                         before[q].recorded_at >= before[p].recorded_at
        /\ \A p \in {runs[r].payload : r \in Run} :
               <<path, p>> \in ledger' \ ledger => p \in DOMAIN after

\* No record of an unknown outcome is lost to another run's update of the file:
\* it goes when a run that saw the transaction confirmed clears it, or when the
\* file is full, and then no record that stays is older.  A record just made is
\* in the file.
\* (LockedState, prune_records.)
UnresolvedOnlyCleared == [][\A path \in StatePath : RecordsStay(path)]_vars

\* A transaction with a recorded unknown outcome is not submitted by a run that
\* looks afterwards: it is watched first, until a run has seen it confirmed,
\* unless a full file had to let the record go.
\* (submit, unresolved_for_session.)
UnknownIsReconciledFirst ==
    \A r \in Run :
        At(r, "send") /\ runs[r].known => <<runs[r].path, runs[r].payload>> \in dropped

\* A run that ends without knowing what became of its transaction leaves the
\* record that says so, unless the transaction has been executed meanwhile or a
\* full file had to let the record go.
\* (submit, record_unresolved_submission, clear_unresolved_submission.)
NothingIsForgotten ==
    \A r \in Run :
        (runs[r].exit = "1" /\ runs[r].submit = "unknown" /\ runs[r].watch = "unconfirmed")
            => \/ runs[r].payload \in DOMAIN state_file[runs[r].path].unresolved
               \/ <<runs[r].path, runs[r].payload>> \in dropped
               \/ OnChain(runs[r].payload)

\* A run that submitted reports success only for a transaction on the chain.
\* (TransferSubmitOutcome.success, main's exit code.)
SuccessIsOnChain ==
    \A r \in Run :
        (runs[r].exit = "0" /\ runs[r].submit # "none") => OnChain(runs[r].payload)

\* A transfer run submits the signature of the transaction it prepared, and
\* reports success only for one the chain executed (SignedIsOwn,
\* SuccessIsOnChain).
RunsAreTruthful == SignedIsOwn /\ SuccessIsOnChain

\* A transaction whose outcome is on record as unknown is watched, not submitted
\* again; and a run that ends without knowing what became of its transaction
\* leaves that record (UnknownIsReconciledFirst, NothingIsForgotten).
UnknownIsKept == UnknownIsReconciledFirst /\ NothingIsForgotten

\* Every run ends: the lock on the state file is always given back, a request
\* nobody decides expires, and no call is repeated for ever.
\* (wait_for_terminal_request, LockedState.)
EveryRunEnds ==
    \A r \in Run : At(r, "wallet") ~> At(r, "exited")

\* plugins/starcoin-transfer-workflow/README.md:374: the run "reconciles
\* persisted unresolved submissions by `txn_hash` before any retry".  Records are
\* found by the hash of the prepared payload, and a new run prepares a new one.
PersistedComesFirst ==
    [][\A r \in Run :
         (At(r, "send") /\ runs'[r].submit \in {"accepted", "unknown"})
             => runs[r].inherited \cap DOMAIN state_file[runs[r].path].unresolved = {}]_vars
===========================================================================
