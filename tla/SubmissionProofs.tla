------------------------- MODULE SubmissionProofs -------------------------
(***************************************************************************)
(* The node's transaction tools, for any number of concurrent calls, any   *)
(* limits and any behaviour of the endpoint.                               *)
(***************************************************************************)
EXTENDS NodeSubmission, TLAPS

CallField == DOMAIN Idle

\* What the state of one call tells.  A submit that began while the outcome of
\* its transaction was unknown holds an expired transaction, and so does not
\* get past the snapshot; a prepare dates its transaction by its snapshot.
CallOK(call, time) ==
    /\ DOMAIN call = CallField
    /\ call.op = "submit" /\ call.late =>
           /\ call.stage \in {"probe", "snapshot"}
           /\ call.txn.expiration \in Int /\ call.txn.expiration < time
    /\ call.op = "prepare" /\ call.stage \in {"sequence", "dry_run"} =>
           call.snapshot_now \in Nat /\ call.snapshot_now <= time
    /\ call.op = "prepare" /\ call.stage = "dry_run" =>
           call.txn.expiration \in Int /\ call.txn.expiration <= time + MaxExpirationTtl

CallsOK == DOMAIN calls = Call /\ \A c \in Call : CallOK(calls[c], now)

\* prepare_transaction never looks further ahead than max_expiration_ttl.
PreparedOK ==
    \A t \in prepared_here :
        t.expiration \in Int /\ t.expiration <= now + MaxExpirationTtl

\* An unknown outcome is remembered until its transaction has expired.
UnknownOK ==
    /\ DOMAIN unknown_at \subseteq prepared_here
    /\ \A t \in DOMAIN unresolved : unresolved[t] \in Nat
    /\ \A t \in DOMAIN unknown_at :
          /\ unknown_at[t] \in Nat /\ unknown_at[t] <= now
          /\ t.expiration <= unknown_at[t] + MaxExpirationTtl
          /\ \/ t \in DOMAIN unresolved /\ unresolved[t] >= unknown_at[t]
             \/ unknown_at[t] + Retention < now

SendInv == now \in Nat /\ CallsOK /\ PreparedOK /\ UnknownOK
---------------------------------------------------------------------------
\* The limits are natural numbers.
LEMMA Limits ==
    /\ DefaultExpirationTtl \in Nat /\ MaxExpirationTtl \in Nat /\ MaxWatchTimeout \in Nat
    /\ DefaultExpirationTtl <= MaxExpirationTtl
    /\ Retention \in Nat /\ MaxExpirationTtl <= Retention
  BY SubmissionAssumption DEF SubmissionAssumption, Retention

\* A call that returned, or that begins, has nothing to answer for.
LEMMA FreshCalls ==
    ASSUME NEW time \in Nat, NEW result, NEW c, NEW op \in {"prepare", "simulate", "watch"}
    PROVE  /\ CallOK(Idle, time) /\ CallOK(Returned(result), time)
           /\ CallOK(Begin(c, op), time)
           /\ \A t : CallOK([Begin(c, op) EXCEPT !.txn = t], time)
  BY DEF CallOK, CallField, Idle, Returned, Begin

\* One call changes, and time stands still.
LEMMA OneCall ==
    ASSUME CallsOK, NEW c \in Call, NEW call, calls' = [calls EXCEPT ![c] = call],
           CallOK(call, now), now' = now
    PROVE  CallsOK'
  BY DEF CallsOK

LEMMA SendInit == Init => SendInv
  <1> SUFFICES ASSUME Init PROVE SendInv
    OBVIOUS
  <1>1. CallsOK
    BY FreshCalls DEF Init, CallsOK
  <1>2. PreparedOK /\ UnknownOK
    BY DEF Init, PreparedOK, UnknownOK
  <1> QED BY <1>1, <1>2 DEF Init, SendInv

\* A step of the calls alone.
LEMMA OnlyCalls ==
    ASSUME SendInv, CallsOK', UNCHANGED <<now, prepared_here, unresolved, unknown_at>>
    PROVE  SendInv'
  BY DEF SendInv, PreparedOK, UnknownOK

LEMMA ReturnOK ==
    ASSUME SendInv, NEW c \in Call, NEW result, Return(c, result), now' = now
    PROVE  CallsOK'
  <1>1. CallOK(Returned(result), now)
    BY FreshCalls DEF SendInv
  <1> QED BY <1>1, OneCall, Zenon DEF SendInv, Return

LEMMA WatchReturnsOK ==
    ASSUME SendInv, NEW c \in Call, NEW result, WatchReturns(c, result), now' = now
    PROVE  CallsOK'
  BY ReturnOK DEF WatchReturns

\* A call moves on, to a stage at which it need not know the date.
LEMMA MovesOK ==
    ASSUME SendInv, NEW c \in Call, NEW call, calls' = [calls EXCEPT ![c] = call],
           DOMAIN call = CallField, now' = now,
           call.op = calls[c].op, call.txn = calls[c].txn, call.late = calls[c].late,
           calls[c].op = "submit" /\ calls[c].late => call.stage = "snapshot",
           call.stage \notin {"sequence", "dry_run"} \/ calls[c].op # "prepare"
    PROVE  CallsOK'
  <1>1. CallOK(calls[c], now)
    BY DEF SendInv, CallsOK
  <1>2. CallOK(call, now)
    BY <1>1 DEF CallOK
  <1> QED BY <1>2, OneCall, Zenon DEF SendInv

LEMMA GotoOK ==
    ASSUME SendInv, NEW c \in Call, NEW stage, Goto(c, stage), now' = now,
           calls[c].op = "submit" /\ calls[c].late => stage = "snapshot",
           stage \notin {"sequence", "dry_run"}
    PROVE  CallsOK'
  <1> DEFINE call == [calls[c] EXCEPT !.stage = stage]
  <1>1. DOMAIN calls[c] = CallField
    BY DEF SendInv, CallsOK, CallOK
  <1>2. /\ DOMAIN call = CallField /\ call.stage = stage
        /\ call.op = calls[c].op /\ call.txn = calls[c].txn /\ call.late = calls[c].late
    BY <1>1 DEF CallField, Idle
  <1>3. calls' = [calls EXCEPT ![c] = call]
    BY DEF Goto
  <1> HIDE DEF call
  <1> QED BY <1>2, <1>3, MovesOK, Zenon

\* Past the snapshot no submit is late.
LEMMA NotLate ==
    ASSUME SendInv, NEW c \in Call, calls[c].stage \notin {"probe", "snapshot"}
    PROVE  ~(calls[c].op = "submit" /\ calls[c].late)
  BY DEF SendInv, CallsOK, CallOK

LEMMA RoundEndsOK ==
    ASSUME SendInv, NEW c \in Call, NEW found, RoundEnds(c, found), now' = now,
           calls[c].stage \notin {"probe", "snapshot"}
    PROVE  CallsOK'
  <1>1. CASE now >= calls[c].deadline
    BY <1>1, WatchReturnsOK DEF RoundEnds
  <1>2. CASE ~(now >= calls[c].deadline)
    <2> DEFINE call == [calls[c] EXCEPT !.stage = "sleep", !.found = found]
    <2>1. DOMAIN calls[c] = CallField
      BY DEF SendInv, CallsOK, CallOK
    <2>2. /\ DOMAIN call = CallField /\ call.stage = "sleep"
          /\ call.op = calls[c].op /\ call.txn = calls[c].txn /\ call.late = calls[c].late
      BY <2>1 DEF CallField, Idle
    <2>3. calls' = [calls EXCEPT ![c] = call]
      BY <1>2, Zenon DEF RoundEnds
    <2> HIDE DEF call
    <2> QED BY <2>2, <2>3, MovesOK, NotLate, Zenon
  <1> QED BY <1>1, <1>2
---------------------------------------------------------------------------
(* The two maps of the process.                                            *)

\* Pruning keeps what UnknownOK needs: what it drops has expired.
LEMMA PruneOK ==
    ASSUME SendInv, NEW t \in DOMAIN unknown_at
    PROVE  \/ /\ t \in DOMAIN prune_unresolved_submissions
              /\ prune_unresolved_submissions[t] = unresolved[t]
              /\ unresolved[t] >= unknown_at[t]
           \/ unknown_at[t] + Retention < now
  <1>1. now \in Nat /\ Retention \in Nat /\ unknown_at[t] \in Nat
    BY Limits DEF SendInv, UnknownOK
  <1>2. CASE unknown_at[t] + Retention < now
    BY <1>2
  <1>3. CASE t \in DOMAIN unresolved /\ unresolved[t] >= unknown_at[t]
    <2>1. unresolved[t] \in Nat
      BY <1>3 DEF SendInv, UnknownOK
    <2>2. CASE now - unresolved[t] <= Retention
      BY <1>3, <2>2 DEF prune_unresolved_submissions, Restrict
    <2>3. CASE ~(now - unresolved[t] <= Retention)
      BY <1>1, <1>3, <2>1, <2>3
    <2> QED BY <2>2, <2>3
  <1> QED BY <1>2, <1>3 DEF SendInv, UnknownOK

LEMMA PrunedDates ==
    ASSUME SendInv, NEW t \in DOMAIN prune_unresolved_submissions
    PROVE  prune_unresolved_submissions[t] \in Nat
  BY DEF SendInv, UnknownOK, prune_unresolved_submissions, Restrict

\* What is unknown and no longer remembered has expired.
LEMMA ForgottenIsExpired ==
    ASSUME SendInv, NEW t \in DOMAIN unknown_at, ~has_unresolved_submission(t)
    PROVE  t.expiration \in Int /\ t.expiration < now
  <1>1. unknown_at[t] + Retention < now
    BY PruneOK DEF has_unresolved_submission
  <1>2. /\ unknown_at[t] \in Nat /\ t.expiration \in Int /\ now \in Nat
        /\ t.expiration <= unknown_at[t] + MaxExpirationTtl
    BY DEF SendInv, UnknownOK, PreparedOK
  <1> QED BY <1>1, <1>2, Limits

LEMMA RecordUnresolvedOK ==
    ASSUME SendInv, NEW t, record_unresolved_submission(t), UNCHANGED <<now, prepared_here>>
    PROVE  UnknownOK'
  <1> DEFINE kept == prune_unresolved_submissions
  <1>0. now \in Nat
    BY DEF SendInv
  <1>1. /\ DOMAIN unresolved' = DOMAIN kept \cup {t} /\ unresolved'[t] = now
        /\ \A u \in DOMAIN kept : u # t => unresolved'[u] = kept[u]
    BY DEF record_unresolved_submission, Put
  <1>2. \A u \in DOMAIN kept : kept[u] \in Nat
    BY PrunedDates
  <1>3. \A u \in DOMAIN unresolved' : unresolved'[u] \in Nat
    BY <1>0, <1>1, <1>2
  <1>4. ASSUME NEW u \in DOMAIN unknown_at'
        PROVE  \/ u = t /\ t \in prepared_here /\ unknown_at'[u] = now
               \/ u \in DOMAIN unknown_at /\ unknown_at'[u] = unknown_at[u]
    BY DEF record_unresolved_submission, Put
  <1>5. ASSUME NEW u \in DOMAIN unknown_at'
        PROVE  /\ u \in prepared_here
               /\ unknown_at'[u] \in Nat /\ unknown_at'[u] <= now
               /\ u.expiration <= unknown_at'[u] + MaxExpirationTtl
    BY <1>0, <1>4 DEF SendInv, UnknownOK, PreparedOK
  <1>6. ASSUME NEW u \in DOMAIN unknown_at'
        PROVE  \/ u \in DOMAIN unresolved' /\ unresolved'[u] >= unknown_at'[u]
               \/ unknown_at'[u] + Retention < now
    <2>1. CASE u = t
      BY <1>0, <1>1, <1>5, <2>1
    <2>2. CASE u # t
      <3>1. u \in DOMAIN unknown_at /\ unknown_at'[u] = unknown_at[u]
        BY <1>4, <2>2
      <3>2. \/ u \in DOMAIN kept /\ kept[u] >= unknown_at[u]
            \/ unknown_at[u] + Retention < now
        BY <3>1, PruneOK
      <3> HIDE DEF kept
      <3> QED BY <1>1, <2>2, <3>1, <3>2
    <2> QED BY <2>1, <2>2
  <1> HIDE DEF kept
  <1> QED BY <1>3, <1>5, <1>6 DEF UnknownOK, Retention

LEMMA ClearUnresolvedOK ==
    ASSUME SendInv, NEW t, clear_unresolved_submission(t), UNCHANGED <<now, prepared_here>>
    PROVE  UnknownOK'
  BY DEF SendInv, UnknownOK, clear_unresolved_submission, Without, Retention

\* A transaction enters prepared_here with a date within reach.
LEMMA NewlyPreparedOK ==
    ASSUME SendInv, NEW t, prepared_here' = prepared_here \cup {t},
           t.expiration \in Int, t.expiration <= now + MaxExpirationTtl,
           UNCHANGED <<now, unresolved, unknown_at>>
    PROVE  PreparedOK' /\ UnknownOK'
  BY DEF SendInv, PreparedOK, UnknownOK, Retention

\* resolve_expiration looks at most max_expiration_ttl ahead.
LEMMA ResolvedIsNear ==
    ASSUME NEW time \in Nat, NEW requested \in ExpirationInput
    PROVE  /\ resolve_expiration(time, requested) \in Nat
           /\ resolve_expiration(time, requested) <= time + MaxExpirationTtl
  <1>1. CASE requested = Omitted
    BY <1>1, Limits DEF resolve_expiration
  <1>2. CASE requested # Omitted
    <2>1. requested \in Nat
      BY <1>2, SubmissionAssumption
    <2> QED BY <1>2, <2>1, Limits DEF resolve_expiration, Lesser
  <1> QED BY <1>1, <1>2
---------------------------------------------------------------------------
(* The steps of one call.                                                  *)

LEMMA StartsOK ==
    ASSUME SendInv, NEW c \in Call, CallStarts(c)
    PROVE  SendInv'
  <1> USE DEF SendInv
  <1>1. CASE PrepareTransaction(c)
    BY <1>1, FreshCalls, OneCall, OnlyCalls, Zenon DEF PrepareTransaction, memory, history
  <1>2. ASSUME NEW t, SimulateRawTransaction(c, t) PROVE SendInv'
    <2>1. CallOK([Begin(c, "simulate") EXCEPT !.txn = t], now)
      BY FreshCalls
    <2> QED BY <1>2, <2>1, OneCall, OnlyCalls, Zenon DEF SimulateRawTransaction, memory, history
  <1>3. ASSUME NEW t, NEW timeout, NEW min_confirmed,
               WatchTransaction(c, t, timeout, min_confirmed)
        PROVE  SendInv'
    <2> DEFINE begun == [Begin(c, "watch") EXCEPT
                            !.txn = t, !.wanted = effective_min_confirmed_blocks(min_confirmed)]
               call == IF try_watch_permit THEN Watch(begun, timeout) ELSE Returned("error")
    <2>1. CallOK(Watch(begun, timeout), now)
      BY DEF CallOK, CallField, Watch, Begin, Idle
    <2>2. CallOK(call, now)
      BY <2>1, FreshCalls
    <2>3. calls' = [calls EXCEPT ![c] = call] /\ UNCHANGED <<now, memory, world, history>>
      BY <1>3 DEF WatchTransaction
    <2> HIDE DEF call
    <2> QED BY <2>2, <2>3, OneCall, OnlyCalls, Zenon DEF memory, history
  <1>4. ASSUME NEW t, NEW context, NEW blocking, NEW timeout, NEW min_confirmed,
               SubmitSignedTransaction(c, t, context, blocking, timeout, min_confirmed)
        PROVE  SendInv'
    <2> DEFINE begun == [Begin(c, "submit") EXCEPT
                            !.txn = t, !.context = context,
                            !.record = IF t \in DOMAIN prune_prepared_transactions
                                       THEN prepared[t] ELSE NoRecord,
                            !.blocking = blocking,
                            !.timeout = effective_submit_timeout_seconds(blocking, timeout),
                            !.wanted = effective_min_confirmed_blocks(min_confirmed),
                            !.late = t \in DOMAIN unknown_at]
               call == IF has_unresolved_submission(t) THEN Returned("unknown") ELSE begun
    <2>1. /\ DOMAIN begun = CallField /\ begun.op = "submit" /\ begun.stage = "probe"
          /\ begun.txn = t /\ begun.late = (t \in DOMAIN unknown_at)
      BY DEF CallField, Begin, Idle
    <2>2. ~has_unresolved_submission(t) => CallOK(begun, now)
      <3> HIDE DEF begun
      <3> QED BY <2>1, ForgottenIsExpired, Zenon DEF CallOK
    <2>3. CallOK(call, now)
      BY <2>2, FreshCalls
    <2>4. /\ calls' = [calls EXCEPT ![c] = call]
          /\ unresolved' = prune_unresolved_submissions
          /\ UNCHANGED <<now, prepared_here, unknown_at>>
      BY <1>4 DEF SubmitSignedTransaction, history
    <2> HIDE DEF call
    <2>5. CallsOK'
      BY <2>3, <2>4, OneCall, Zenon
    <2>6. UnknownOK'
      BY <2>4, PruneOK, PrunedDates, Zenon DEF UnknownOK, Retention
    <2> QED BY <2>4, <2>5, <2>6 DEF PreparedOK
  <1> QED BY <1>1, <1>2, <1>3, <1>4 DEF CallStarts

LEMMA LooksUpOK ==
    ASSUME SendInv, NEW c \in Call, LookupTransaction(c)
    PROVE  SendInv'
  <1>1. /\ calls[c].stage = "lookup" /\ now' = now /\ prepared_here' = prepared_here
    BY DEF LookupTransaction
  <1>2. CASE Included(calls[c].txn)
    <2> DEFINE call == [calls[c] EXCEPT !.stage = "depth",
                                        !.inclusion = chain.included[calls[c].txn]]
    <2>1. DOMAIN calls[c] = CallField
      BY Zenon DEF SendInv, CallsOK, CallOK
    <2>2. /\ DOMAIN call = CallField /\ call.stage = "depth"
          /\ call.op = calls[c].op /\ call.txn = calls[c].txn /\ call.late = calls[c].late
      BY <2>1 DEF CallField, Idle
    <2>3. calls' = [calls EXCEPT ![c] = call] /\ UNCHANGED <<unresolved, unknown_at>>
      BY <1>2, Zenon DEF LookupTransaction
    <2> HIDE DEF call
    <2> QED BY <1>1, <2>2, <2>3, MovesOK, NotLate, OnlyCalls, Zenon
  <1>3. CASE ~Included(calls[c].txn) /\ calls[c].txn \in chain.pool
    <2>1. clear_unresolved_submission(calls[c].txn) /\ RoundEnds(c, TRUE)
      BY <1>3, Zenon DEF LookupTransaction
    <2> QED BY <1>1, <2>1, RoundEndsOK, ClearUnresolvedOK, Zenon DEF SendInv, PreparedOK
  <1>4. CASE ~Included(calls[c].txn) /\ calls[c].txn \notin chain.pool
    <2>1. RoundEnds(c, calls[c].found) /\ UNCHANGED <<unresolved, unknown_at>>
      BY <1>4, Zenon DEF LookupTransaction
    <2> QED BY <1>1, <2>1, RoundEndsOK, OnlyCalls
  <1> QED BY <1>2, <1>3, <1>4

LEMMA LoadsDepthOK ==
    ASSUME SendInv, NEW c \in Call, LoadConfirmationDepth(c)
    PROVE  SendInv'
  <1>1. calls[c].stage = "depth" /\ now' = now /\ prepared_here' = prepared_here
    BY DEF LoadConfirmationDepth
  <1>2. CASE ~validate_chain_identity(endpoint.context)
    BY <1>1, <1>2, WatchReturnsOK, OnlyCalls, Zenon DEF LoadConfirmationDepth
  <1>3. CASE validate_chain_identity(endpoint.context)
    <2>1. /\ clear_unresolved_submission(calls[c].txn)
          /\ WatchReturns(c, "confirmed") \/ RoundEnds(c, TRUE)
      BY <1>3, Zenon DEF LoadConfirmationDepth
    <2> QED BY <1>1, <2>1, WatchReturnsOK, RoundEndsOK, ClearUnresolvedOK, Zenon
            DEF SendInv, PreparedOK
  <1> QED BY <1>2, <1>3

LEMMA ProbesOK ==
    ASSUME SendInv, NEW c \in Call, EnsureTransactionCapabilitiesCurrent(c)
    PROVE  SendInv'
  <1>1. /\ Goto(c, "snapshot") \/ Return(c, "error")
        /\ UNCHANGED <<now, prepared_here, unresolved, unknown_at>>
    BY DEF EnsureTransactionCapabilitiesCurrent, history
  <1> QED BY <1>1, GotoOK, ReturnOK, OnlyCalls

LEMMA SnapshotOK ==
    ASSUME SendInv, NEW c \in Call, LoadTransactionEndpointSnapshot(c)
    PROVE  SendInv'
  <1> DEFINE stage == IF calls[c].op = "simulate" THEN "dry_run" ELSE "sequence"
             call == [calls[c] EXCEPT !.stage = stage, !.snapshot = endpoint.context,
                                      !.snapshot_now = now]
  <1>1. UNCHANGED <<now, prepared_here, unresolved, unknown_at>>
    BY DEF LoadTransactionEndpointSnapshot, memory, history
  <1>2. CASE Return(c, "error") \/ Return(c, "rejected")
    BY <1>1, <1>2, ReturnOK, OnlyCalls
  <1>3. CASE /\ ~(calls[c].op = "submit" /\ calls[c].txn.expiration <= now)
             /\ calls' = [calls EXCEPT ![c] = call]
    <2>1. CallOK(calls[c], now) /\ now \in Nat
      BY DEF SendInv, CallsOK
    <2>2. ~(calls[c].op = "submit" /\ calls[c].late)
      BY <1>3, <2>1 DEF CallOK
    <2>3. /\ DOMAIN call = CallField /\ call.op = calls[c].op /\ call.late = calls[c].late
          /\ call.snapshot_now = now /\ (call.op = "prepare" => call.stage = "sequence")
      BY <2>1 DEF CallOK, CallField, Idle
    <2> HIDE DEF call
    <2>4. CallOK(call, now)
      BY <2>1, <2>2, <2>3 DEF CallOK
    <2> QED BY <1>1, <1>3, <2>4, OneCall, OnlyCalls, Zenon DEF SendInv
  <1>4. \/ Return(c, "error") \/ Return(c, "rejected")
        \/ /\ ~(calls[c].op = "submit" /\ calls[c].txn.expiration <= now)
           /\ calls' = [calls EXCEPT ![c].stage = stage, ![c].snapshot = endpoint.context,
                                     ![c].snapshot_now = now]
    BY DEF LoadTransactionEndpointSnapshot
  <1>5. [calls EXCEPT ![c].stage = stage, ![c].snapshot = endpoint.context,
                      ![c].snapshot_now = now] = [calls EXCEPT ![c] = call]
    BY Zenon DEF SendInv, CallsOK
  <1> HIDE DEF call, stage
  <1> QED BY <1>2, <1>3, <1>4, <1>5

LEMMA BuildsOK ==
    ASSUME SendInv, NEW c \in Call, NEW payload, NEW sequence_number,
           NEW requested \in ExpirationInput, NEW has_key,
           BuildRawTransaction(c, payload, sequence_number, requested, has_key)
    PROVE  SendInv'
  <1> DEFINE raw_txn == [payload |-> payload, chain_id |-> calls[c].snapshot.chain_id,
                         sequence_number |-> sequence_number,
                         expiration |-> resolve_expiration(calls[c].snapshot_now, requested)]
             call == [calls[c] EXCEPT !.stage = "dry_run", !.txn = raw_txn]
  <1>1. /\ calls[c].op = "prepare" /\ calls[c].stage = "sequence"
        /\ UNCHANGED <<now, unresolved, unknown_at>>
    BY DEF BuildRawTransaction
  <1>2. CallOK(calls[c], now) /\ now \in Nat
    BY DEF SendInv, CallsOK
  <1>3. calls[c].snapshot_now \in Nat /\ calls[c].snapshot_now <= now
    BY <1>1, <1>2, Zenon DEF CallOK
  <1>4. raw_txn.expiration \in Int /\ raw_txn.expiration <= now + MaxExpirationTtl
    BY <1>2, <1>3, ResolvedIsNear, Limits
  <1>5. CASE Return(c, "error") /\ UNCHANGED prepared_here
    BY <1>1, <1>5, ReturnOK, OnlyCalls
  <1>6. CASE calls' = [calls EXCEPT ![c] = call] /\ UNCHANGED prepared_here
    <2>1. /\ DOMAIN call = CallField /\ call.op = "prepare" /\ call.txn = raw_txn
          /\ call.snapshot_now = calls[c].snapshot_now /\ call.stage = "dry_run"
      BY <1>1, <1>2 DEF CallOK, CallField, Idle
    <2> HIDE DEF call, raw_txn
    <2>2. CallOK(call, now)
      BY <1>3, <1>4, <2>1 DEF CallOK
    <2> QED BY <1>1, <1>6, <2>2, OneCall, OnlyCalls, Zenon DEF SendInv
  <1>7. CASE prepared_here' = prepared_here \cup {raw_txn} /\ Return(c, "prepared")
    <2> HIDE DEF raw_txn
    <2> QED BY <1>1, <1>4, <1>7, NewlyPreparedOK, ReturnOK DEF SendInv
  <1>8. \/ Return(c, "error") /\ UNCHANGED prepared_here
        \/ /\ calls' = [calls EXCEPT ![c].stage = "dry_run", ![c].txn = raw_txn]
           /\ UNCHANGED prepared_here
        \/ prepared_here' = prepared_here \cup {raw_txn} /\ Return(c, "prepared")
    BY DEF BuildRawTransaction
  <1>9. [calls EXCEPT ![c].stage = "dry_run", ![c].txn = raw_txn] = [calls EXCEPT ![c] = call]
    BY Zenon DEF SendInv, CallsOK
  <1> HIDE DEF call, raw_txn
  <1> QED BY <1>5, <1>6, <1>7, <1>8, <1>9

LEMMA DryRunOK ==
    ASSUME SendInv, NEW c \in Call, DryRunRaw(c)
    PROVE  SendInv'
  <1>1. calls[c].stage = "dry_run" /\ UNCHANGED <<now, unresolved, unknown_at>>
    BY Zenon DEF DryRunRaw
  <1>2. \/ (Return(c, "error") \/ Return(c, "prepared")) /\ UNCHANGED prepared_here
        \/ /\ calls[c].op = "prepare" /\ prepared_here' = prepared_here \cup {calls[c].txn}
           /\ Return(c, "prepared")
    BY Zenon DEF DryRunRaw
  <1>3. calls[c].op = "prepare" =>
            calls[c].txn.expiration \in Int
            /\ calls[c].txn.expiration <= now + MaxExpirationTtl
    BY <1>1, Zenon DEF SendInv, CallsOK, CallOK
  <1> QED BY <1>1, <1>2, <1>3, ReturnOK, OnlyCalls, NewlyPreparedOK, Zenon DEF SendInv

LEMMA SendsOK ==
    ASSUME SendInv, NEW c \in Call, NEW current, SendUnlessStale(c, current)
    PROVE  SendInv'
  <1>1. /\ calls[c].stage = "sequence"
        /\ Return(c, "rejected") \/ Goto(c, "reply")
        /\ UNCHANGED <<now, prepared_here, unresolved, unknown_at>>
    BY Zenon DEF SendUnlessStale, memory, history
  <1> QED BY <1>1, NotLate, GotoOK, ReturnOK, OnlyCalls, Zenon

LEMMA AnswerOK ==
    ASSUME SendInv, NEW c \in Call, SubmissionAnswered(c)
    PROVE  SendInv'
  <1> DEFINE call == Watch(calls[c], calls[c].timeout)
  <1>1. calls[c].stage = "reply" /\ UNCHANGED <<now, prepared_here, unresolved, unknown_at>>
    BY DEF SubmissionAnswered, memory, history
  <1>2. \/ calls' = [calls EXCEPT ![c] = call]
        \/ \E result : Return(c, result)
    BY DEF SubmissionAnswered
  <1>3. CASE calls' = [calls EXCEPT ![c] = call]
    <2>1. DOMAIN calls[c] = CallField
      BY DEF SendInv, CallsOK, CallOK
    <2>2. /\ DOMAIN call = CallField /\ call.stage = "lookup"
          /\ call.op = calls[c].op /\ call.txn = calls[c].txn /\ call.late = calls[c].late
      BY <2>1 DEF CallField, Idle, Watch
    <2> HIDE DEF call
    <2> QED BY <1>1, <1>3, <2>2, MovesOK, NotLate, OnlyCalls, Zenon
  <1> QED BY <1>1, <1>2, <1>3, ReturnOK, OnlyCalls

LEMMA NoAnswerOK ==
    ASSUME SendInv, NEW c \in Call, SubmissionUnknown(c)
    PROVE  SendInv'
  BY RecordUnresolvedOK, ReturnOK, Zenon DEF SubmissionUnknown, SendInv, PreparedOK

LEMMA FailsOK ==
    ASSUME SendInv, NEW c \in Call, RpcFails(c) \/ WakeUp(c)
    PROVE  SendInv'
  <1>1. UNCHANGED <<now, prepared_here, unresolved, unknown_at>>
    BY Zenon DEF RpcFails, WakeUp, memory, history
  <1>2. CASE RpcFails(c)
    BY <1>1, <1>2, WatchReturnsOK, ReturnOK, OnlyCalls, Zenon DEF RpcFails
  <1>3. CASE WakeUp(c)
    BY <1>1, <1>3, NotLate, GotoOK, OnlyCalls, Zenon DEF WakeUp
  <1> QED BY <1>2, <1>3

LEMMA ProgressOK ==
    ASSUME SendInv, NEW c \in Call, CallProgress(c)
    PROVE  SendInv'
  BY ProbesOK, SnapshotOK, BuildsOK, DryRunOK, SendsOK, AnswerOK, NoAnswerOK,
     LooksUpOK, LoadsDepthOK, FailsOK, Zenon DEF CallProgress
---------------------------------------------------------------------------
(* The invariant, and what it is for.                                      *)

LEMMA SendStep == SendInv /\ [Next]_vars => SendInv'
  <1> SUFFICES ASSUME SendInv, [Next]_vars PROVE SendInv'
    OBVIOUS
  <1>1. CASE \E c \in Call : CallStarts(c) \/ CallProgress(c)
    BY <1>1, StartsOK, ProgressOK
  <1>2. CASE Bootstrap
    <2>1. CallsOK'
      BY <1>2, FreshCalls DEF Bootstrap, CallsOK, SendInv
    <2> QED BY <1>2, <2>1 DEF Bootstrap, SendInv, PreparedOK, UnknownOK
  <1>3. CASE AdvanceClock
    <2>1. /\ now \in Nat /\ now' = now + 1
          /\ UNCHANGED <<calls, prepared_here, unresolved, unknown_at>>
      BY <1>3 DEF AdvanceClock, memory, history, SendInv
    <2>2. CallsOK'
      BY <2>1, Limits DEF SendInv, CallsOK, CallOK
    <2>3. PreparedOK'
      BY <2>1, Limits DEF SendInv, PreparedOK
    <2>4. UnknownOK'
      BY <2>1, Limits DEF SendInv, UnknownOK
    <2> QED BY <2>1, <2>2, <2>3, <2>4 DEF SendInv
  <1>4. CASE UNCHANGED <<now, calls, prepared_here, unresolved, unknown_at>>
    BY <1>4, OnlyCalls, Zenon DEF SendInv, CallsOK
  <1> QED BY <1>1, <1>2, <1>3, <1>4, Zenon
          DEF Next, Outside, StrayArrives, StrayLost, ProduceBlock, PoolDrops,
              EndpointChanges, memory, history, vars

\* submit_signed_transaction, for any number of calls and any limits: an outcome
\* that became unknown is not followed by a second sending in this process,
\* unless a watch saw the transaction meanwhile.
THEOREM UnknownStaysUnsent == Spec => []UnknownIsNotResent
  <1>1. Init => SendInv
    BY SendInit
  <1>2. SendInv /\ [Next]_vars => SendInv'
    BY SendStep
  <1>3. SendInv => UnknownIsNotResent
    BY NotLate DEF UnknownIsNotResent
  <1> QED BY <1>1, <1>2, <1>3, PTL DEF Spec
---------------------------------------------------------------------------
(* What is sent was simulated, and where.                                  *)

Simulated(record) == record.simulation_status = "performed"

\* What one call knows of simulations, given the endpoint and the simulations
\* made: its record tells the truth, and at the point of sending the record was
\* for the chain of the snapshot.
SimOK(call, ep, made) ==
    /\ call.switches \in Nat /\ call.switches <= ep.switches
    /\ call.op = "submit" /\ call.stage \in {"probe", "snapshot"} /\ Simulated(call.record) =>
           /\ call.record.chain_context \in ChainContext
           /\ <<call.txn, call.record.chain_context>> \in made
    /\ call.stage \in {"sequence", "dry_run"} => call.snapshot \in ChainContext
    /\ /\ call.op = "submit" /\ call.stage = "sequence"
       /\ call.switches = ep.switches /\ ~AllowSubmitWithoutPriorSimulation
       => ep.context = call.snapshot /\ <<call.txn, call.snapshot>> \in made

EndpointOK ==
    /\ DOMAIN endpoint = {"context", "supported", "switches"}
    /\ endpoint.context \in ChainContext /\ endpoint.switches \in Nat

RecordsOK ==
    \A t \in DOMAIN prepared :
        /\ prepared[t].chain_context \in ChainContext
        /\ Simulated(prepared[t]) => <<t, prepared[t].chain_context>> \in attested

SimInv ==
    /\ SendInv /\ EndpointOK /\ RecordsOK
    /\ \A c \in Call : SimOK(calls[c], endpoint, attested)

\* One call changes, the endpoint does not, and simulations are only added.
LEMMA SimStep ==
    ASSUME SimInv, SendInv', NEW c \in Call, NEW call, calls' = [calls EXCEPT ![c] = call],
           endpoint' = endpoint, attested \subseteq attested', RecordsOK',
           SimOK(call, endpoint, attested')
    PROVE  SimInv'
  <1>1. DOMAIN calls = Call
    BY Zenon DEF SimInv, SendInv, CallsOK
  <1>2. ASSUME NEW d \in Call PROVE SimOK(calls'[d], endpoint', attested')
    <2>1. CASE d = c
      BY <1>1, <2>1
    <2>2. CASE d # c
      BY <1>1, <2>2, Zenon DEF SimInv, SimOK
    <2> QED BY <2>1, <2>2
  <1> QED BY <1>2, Zenon DEF SimInv, EndpointOK

\* The same, with the records and the simulations as they were.
LEMMA SimCallStep ==
    ASSUME SimInv, SendInv', NEW c \in Call, NEW call, calls' = [calls EXCEPT ![c] = call],
           UNCHANGED <<endpoint, attested, prepared>>, SimOK(call, endpoint, attested)
    PROVE  SimInv'
  BY SimStep, Zenon DEF SimInv, RecordsOK

LEMMA SimFresh ==
    ASSUME SimInv, NEW made, NEW result, NEW c, NEW op \in {"prepare", "simulate", "watch"}
    PROVE  /\ SimOK(Idle, endpoint, made) /\ SimOK(Returned(result), endpoint, made)
           /\ SimOK(Begin(c, op), endpoint, made)
           /\ \A t : SimOK([Begin(c, op) EXCEPT !.txn = t], endpoint, made)
  BY DEF SimOK, Idle, Returned, Begin, SimInv, EndpointOK, Simulated, NoRecord

LEMMA SimReturn ==
    ASSUME SimInv, SendInv', NEW c \in Call, NEW result, Return(c, result),
           UNCHANGED <<endpoint, attested, prepared>>
    PROVE  SimInv'
  BY SimFresh, SimCallStep, Zenon DEF Return

LEMMA SimWatchReturns ==
    ASSUME SimInv, SendInv', NEW c \in Call, NEW result, WatchReturns(c, result),
           UNCHANGED <<endpoint, attested, prepared>>
    PROVE  SimInv'
  BY SimReturn DEF WatchReturns

\* A call moves on to a stage at which it has nothing to know.
LEMMA SimMoves ==
    ASSUME SimInv, SendInv', NEW c \in Call, NEW call, calls' = [calls EXCEPT ![c] = call],
           UNCHANGED <<endpoint, attested, prepared>>,
           call.switches = calls[c].switches,
           call.stage \notin {"probe", "snapshot", "sequence", "dry_run"}
    PROVE  SimInv'
  <1>1. SimOK(call, endpoint, attested)
    BY Zenon DEF SimInv, SimOK
  <1> QED BY <1>1, SimCallStep, Zenon

LEMMA SimGoto ==
    ASSUME SimInv, SendInv', NEW c \in Call, NEW stage, Goto(c, stage),
           UNCHANGED <<endpoint, attested, prepared>>,
           stage \notin {"probe", "snapshot", "sequence", "dry_run"}
    PROVE  SimInv'
  <1> DEFINE call == [calls[c] EXCEPT !.stage = stage]
  <1>1. DOMAIN calls[c] = CallField
    BY Zenon DEF SimInv, SendInv, CallsOK, CallOK
  <1>2. call.stage = stage /\ call.switches = calls[c].switches
    BY <1>1 DEF CallField, Idle
  <1>3. calls' = [calls EXCEPT ![c] = call]
    BY DEF Goto
  <1> HIDE DEF call
  <1> QED BY <1>2, <1>3, SimMoves, Zenon

LEMMA SimRoundEnds ==
    ASSUME SimInv, SendInv', NEW c \in Call, NEW found, RoundEnds(c, found),
           UNCHANGED <<endpoint, attested, prepared>>
    PROVE  SimInv'
  <1> DEFINE call == [calls[c] EXCEPT !.stage = "sleep", !.found = found]
  <1>1. DOMAIN calls[c] = CallField /\ DOMAIN calls = Call
    BY Zenon DEF SimInv, SendInv, CallsOK, CallOK
  <1>2. call.stage = "sleep" /\ call.switches = calls[c].switches
    BY <1>1 DEF CallField, Idle
  <1>3. (\E result : WatchReturns(c, result)) \/ calls' = [calls EXCEPT ![c] = call]
    BY <1>1, Zenon DEF RoundEnds
  <1> HIDE DEF call
  <1> QED BY <1>2, <1>3, SimMoves, SimWatchReturns

\* What is recorded is recorded with the chain it was simulated for.
LEMMA RecordOK ==
    ASSUME SimInv, NEW t, NEW context \in ChainContext, NEW status,
           record_prepared_transaction(t, context, status), attested \subseteq attested',
           status = "performed" => <<t, context>> \in attested'
    PROVE  RecordsOK'
  <1> DEFINE kept == prune_prepared_transactions
             record == [simulation_status |-> status, chain_context |-> context,
                        recorded_at |-> now]
  <1>1. \A u \in DOMAIN kept : u \in DOMAIN prepared /\ kept[u] = prepared[u]
    BY Zenon DEF prune_prepared_transactions, Restrict
  <1>2. ASSUME NEW u \in DOMAIN prepared'
        PROVE  \/ u = t /\ prepared'[u] = record
               \/ u \in DOMAIN prepared /\ prepared'[u] = prepared[u]
    <2> HIDE DEF kept, record
    <2>1. prepared' = Put(kept, t, record)
      BY DEF record_prepared_transaction, kept, record
    <2> QED BY <1>1, <2>1, Zenon DEF Put
  <1>3. record.chain_context = context /\ record.simulation_status = status
    OBVIOUS
  <1> HIDE DEF record, kept
  <1> QED BY <1>2, <1>3, Zenon DEF RecordsOK, SimInv, Simulated

LEMMA SimStarts ==
    ASSUME SimInv, SendInv', NEW c \in Call, CallStarts(c)
    PROVE  SimInv'
  <1>1. CASE PrepareTransaction(c)
    BY <1>1, SimFresh, SimCallStep, Zenon DEF PrepareTransaction, memory, history, world
  <1>2. ASSUME NEW t, SimulateRawTransaction(c, t) PROVE SimInv'
    <2>1. SimOK([Begin(c, "simulate") EXCEPT !.txn = t], endpoint, attested)
      BY SimFresh, Zenon
    <2> QED BY <1>2, <2>1, SimCallStep, Zenon DEF SimulateRawTransaction, memory, history, world
  <1>3. ASSUME NEW t, NEW timeout, NEW min_confirmed,
               WatchTransaction(c, t, timeout, min_confirmed)
        PROVE  SimInv'
    <2> DEFINE begun == [Begin(c, "watch") EXCEPT
                            !.txn = t, !.wanted = effective_min_confirmed_blocks(min_confirmed)]
               call == IF try_watch_permit THEN Watch(begun, timeout) ELSE Returned("error")
    <2>1. SimOK(Watch(begun, timeout), endpoint, attested)
      BY DEF SimOK, Watch, Begin, Idle, SimInv, EndpointOK
    <2>2. SimOK(call, endpoint, attested)
      BY <2>1, SimFresh, Zenon
    <2>3. calls' = [calls EXCEPT ![c] = call] /\ UNCHANGED <<endpoint, attested, prepared>>
      BY <1>3 DEF WatchTransaction, memory, history, world
    <2> HIDE DEF call
    <2> QED BY <2>2, <2>3, SimCallStep, Zenon
  <1>4. ASSUME NEW t, NEW context, NEW blocking, NEW timeout, NEW min_confirmed,
               SubmitSignedTransaction(c, t, context, blocking, timeout, min_confirmed)
        PROVE  SimInv'
    <2> DEFINE known == IF t \in DOMAIN prune_prepared_transactions
                        THEN prepared[t] ELSE NoRecord
               begun == [Begin(c, "submit") EXCEPT
                            !.txn = t, !.context = context, !.record = known,
                            !.blocking = blocking,
                            !.timeout = effective_submit_timeout_seconds(blocking, timeout),
                            !.wanted = effective_min_confirmed_blocks(min_confirmed),
                            !.late = t \in DOMAIN unknown_at]
               call == IF has_unresolved_submission(t) THEN Returned("unknown") ELSE begun
    <2>1. /\ begun.op = "submit" /\ begun.stage = "probe" /\ begun.txn = t
          /\ begun.record = known /\ begun.switches = endpoint.switches
      BY DEF Begin, Idle
    <2>2. Simulated(known) => /\ known.chain_context \in ChainContext
                              /\ <<t, known.chain_context>> \in attested
      BY Zenon DEF SimInv, RecordsOK, prune_prepared_transactions, Restrict, NoRecord, Simulated
    <2>3. SimOK(begun, endpoint, attested)
      <3> HIDE DEF begun, known
      <3> QED BY <2>1, <2>2 DEF SimOK, SimInv, EndpointOK
    <2>4. SimOK(call, endpoint, attested)
      <3> HIDE DEF begun
      <3> QED BY <2>3, SimFresh
    <2>5. /\ calls' = [calls EXCEPT ![c] = call]
          /\ prepared' = prune_prepared_transactions
          /\ UNCHANGED <<endpoint, attested>>
      BY <1>4 DEF SubmitSignedTransaction, history, world
    <2>6. RecordsOK'
      BY <2>5 DEF SimInv, RecordsOK, prune_prepared_transactions, Restrict
    <2> HIDE DEF call
    <2> QED BY <2>4, <2>5, <2>6, SimStep, Zenon
  <1> QED BY <1>1, <1>2, <1>3, <1>4 DEF CallStarts

\* The checks of a submit on its snapshot: with the policy on, the record is of
\* a simulation, and for the chain the endpoint shows.
LEMMA SimSnapshot ==
    ASSUME SimInv, SendInv', NEW c \in Call, LoadTransactionEndpointSnapshot(c)
    PROVE  SimInv'
  <1> DEFINE stage == IF calls[c].op = "simulate" THEN "dry_run" ELSE "sequence"
             call == [calls[c] EXCEPT !.stage = stage, !.snapshot = endpoint.context,
                                      !.snapshot_now = now]
             accepted ==
                calls[c].op = "submit" =>
                    /\ validate_prepared_transaction_record(calls[c].record, calls[c].context,
                                                            endpoint.context)
                    /\ enforce_submit_simulation_policy(calls[c].record)
  <1>1. calls[c].stage = "snapshot" /\ UNCHANGED <<endpoint, attested, prepared>>
    BY DEF LoadTransactionEndpointSnapshot, memory, history, world
  <1>2. DOMAIN calls[c] = CallField /\ DOMAIN calls = Call
    BY Zenon DEF SimInv, SendInv, CallsOK, CallOK
  <1>3. /\ call.op = calls[c].op /\ call.switches = calls[c].switches
        /\ call.txn = calls[c].txn /\ call.snapshot = endpoint.context
        /\ call.stage = stage
    BY <1>2, Zenon DEF CallField, Idle
  <1>4. ASSUME accepted, calls' = [calls EXCEPT ![c] = call] PROVE SimInv'
    <2>1. ASSUME calls[c].op = "submit", ~AllowSubmitWithoutPriorSimulation
          PROVE  <<calls[c].txn, endpoint.context>> \in attested
      <3>1. Simulated(calls[c].record) /\ calls[c].record # NoRecord
        BY <1>4, <2>1 DEF enforce_submit_simulation_policy, Simulated, NoRecord
      <3>2. SameChain(calls[c].record.chain_context, endpoint.context)
        BY <1>4, <2>1, <3>1 DEF validate_prepared_transaction_record
      <3>3. /\ calls[c].record.chain_context \in ChainContext
            /\ <<calls[c].txn, calls[c].record.chain_context>> \in attested
        BY <1>1, <2>1, <3>1, Zenon DEF SimInv, SimOK
      <3> QED BY <3>2, <3>3, ContextAssumption, Zenon DEF SimInv, EndpointOK
    <2> HIDE DEF call
    <2>2. SimOK(call, endpoint, attested)
      BY <1>3, <2>1, Zenon DEF SimOK, SimInv, EndpointOK
    <2> QED BY <1>1, <1>4, <2>2, SimCallStep, Zenon
  <1>5. \/ Return(c, "error") \/ Return(c, "rejected")
        \/ /\ accepted
           /\ calls' = [calls EXCEPT ![c].stage = stage, ![c].snapshot = endpoint.context,
                                     ![c].snapshot_now = now]
    BY DEF LoadTransactionEndpointSnapshot
  <1>6. [calls EXCEPT ![c].stage = stage, ![c].snapshot = endpoint.context,
                      ![c].snapshot_now = now] = [calls EXCEPT ![c] = call]
    BY <1>2, Zenon
  <1> HIDE DEF call, stage, accepted
  <1> QED BY <1>1, <1>4, <1>5, <1>6, SimReturn

LEMMA SimBuilds ==
    ASSUME SimInv, SendInv', NEW c \in Call, NEW payload, NEW sequence_number,
           NEW requested \in ExpirationInput, NEW has_key,
           BuildRawTransaction(c, payload, sequence_number, requested, has_key)
    PROVE  SimInv'
  <1> DEFINE raw_txn == [payload |-> payload, chain_id |-> calls[c].snapshot.chain_id,
                         sequence_number |-> sequence_number,
                         expiration |-> resolve_expiration(calls[c].snapshot_now, requested)]
             call == [calls[c] EXCEPT !.stage = "dry_run", !.txn = raw_txn]
  <1>1. /\ calls[c].op = "prepare" /\ calls[c].stage = "sequence"
        /\ UNCHANGED <<endpoint, attested>>
    BY DEF BuildRawTransaction, world
  <1>2. DOMAIN calls[c] = CallField /\ DOMAIN calls = Call
    BY Zenon DEF SimInv, SendInv, CallsOK, CallOK
  <1>3. calls[c].snapshot \in ChainContext
    BY <1>1, Zenon DEF SimInv, SimOK
  <1>4. ASSUME calls' = [calls EXCEPT ![c] = call], UNCHANGED prepared PROVE SimInv'
    <2>1. /\ call.op = "prepare" /\ call.switches = calls[c].switches
          /\ call.snapshot = calls[c].snapshot /\ call.stage = "dry_run"
      BY <1>1, <1>2 DEF CallField, Idle
    <2> HIDE DEF call
    <2>2. SimOK(call, endpoint, attested)
      BY <1>3, <2>1, Zenon DEF SimOK, SimInv
    <2> QED BY <1>1, <1>4, <2>2, SimCallStep, Zenon
  <1>5. ASSUME record_prepared_transaction(raw_txn, calls[c].snapshot,
                                           "skipped_missing_public_key"),
               Return(c, "prepared")
        PROVE  SimInv'
    <2> HIDE DEF raw_txn
    <2>1. RecordsOK'
      BY <1>1, <1>3, <1>5, RecordOK, Zenon
    <2> QED BY <1>1, <1>5, <2>1, SimFresh, SimStep, Zenon DEF Return
  <1>6. \/ Return(c, "error") /\ UNCHANGED prepared
        \/ /\ calls' = [calls EXCEPT ![c].stage = "dry_run", ![c].txn = raw_txn]
           /\ UNCHANGED prepared
        \/ /\ record_prepared_transaction(raw_txn, calls[c].snapshot,
                                          "skipped_missing_public_key")
           /\ Return(c, "prepared")
    BY DEF BuildRawTransaction
  <1>7. [calls EXCEPT ![c].stage = "dry_run", ![c].txn = raw_txn] = [calls EXCEPT ![c] = call]
    BY <1>2, Zenon
  <1> HIDE DEF call, raw_txn
  <1> QED BY <1>1, <1>4, <1>5, <1>6, <1>7, SimReturn

LEMMA SimDryRun ==
    ASSUME SimInv, SendInv', NEW c \in Call, DryRunRaw(c)
    PROVE  SimInv'
  <1>1. calls[c].stage = "dry_run" /\ endpoint' = endpoint
    BY Zenon DEF DryRunRaw, world
  <1>2. CASE Return(c, "error") /\ UNCHANGED <<prepared, attested>>
    BY <1>1, <1>2, SimReturn, Zenon
  <1>3. CASE /\ record_prepared_transaction(calls[c].txn, calls[c].snapshot, "performed")
             /\ attested' = attested \cup {<<calls[c].txn, calls[c].snapshot>>}
             /\ Return(c, "prepared")
    <2>1. calls[c].snapshot \in ChainContext
      BY <1>1, Zenon DEF SimInv, SimOK
    <2>2. RecordsOK'
      BY <1>3, <2>1, RecordOK, Zenon
    <2> QED BY <1>1, <1>3, <2>2, SimFresh, SimStep, Zenon DEF Return
  <1> QED BY <1>2, <1>3, Zenon DEF DryRunRaw

LEMMA SimProbes ==
    ASSUME SimInv, SendInv', NEW c \in Call, EnsureTransactionCapabilitiesCurrent(c)
    PROVE  SimInv'
  <1> DEFINE call == [calls[c] EXCEPT !.stage = "snapshot"]
  <1>1. calls[c].stage = "probe" /\ UNCHANGED <<endpoint, attested, prepared>>
    BY Zenon DEF EnsureTransactionCapabilitiesCurrent, history, world
  <1>2. DOMAIN calls[c] = CallField /\ DOMAIN calls = Call
    BY Zenon DEF SimInv, SendInv, CallsOK, CallOK
  <1>3. /\ call.op = calls[c].op /\ call.switches = calls[c].switches
        /\ call.txn = calls[c].txn /\ call.record = calls[c].record
        /\ call.stage = "snapshot"
    BY <1>2 DEF CallField, Idle
  <1>4. calls' = [calls EXCEPT ![c] = call] \/ Return(c, "error")
    BY DEF EnsureTransactionCapabilitiesCurrent, Goto
  <1> HIDE DEF call
  <1>5. SimOK(call, endpoint, attested)
    BY <1>1, <1>3, Zenon DEF SimInv, SimOK
  <1> QED BY <1>1, <1>4, <1>5, SimCallStep, SimReturn, Zenon

LEMMA SimAnswers ==
    ASSUME SimInv, SendInv', NEW c \in Call, SubmissionAnswered(c) \/ SubmissionUnknown(c)
    PROVE  SimInv'
  <1> DEFINE call == Watch(calls[c], calls[c].timeout)
  <1>1. UNCHANGED <<endpoint, attested, prepared>>
    BY Zenon DEF SubmissionAnswered, SubmissionUnknown, memory, history
  <1>2. calls' = [calls EXCEPT ![c] = call] \/ \E result : Return(c, result)
    BY Zenon DEF SubmissionAnswered, SubmissionUnknown
  <1>3. DOMAIN calls[c] = CallField
    BY Zenon DEF SimInv, SendInv, CallsOK, CallOK
  <1>4. call.stage = "lookup" /\ call.switches = calls[c].switches
    BY <1>3 DEF CallField, Idle, Watch
  <1> HIDE DEF call
  <1> QED BY <1>1, <1>2, <1>4, SimMoves, SimReturn, Zenon

LEMMA SimWatches ==
    ASSUME SimInv, SendInv', NEW c \in Call, LookupTransaction(c) \/ LoadConfirmationDepth(c)
    PROVE  SimInv'
  <1> DEFINE call == [calls[c] EXCEPT !.stage = "depth",
                                      !.inclusion = chain.included[calls[c].txn]]
  <1>1. UNCHANGED <<endpoint, attested, prepared>>
    BY Zenon DEF LookupTransaction, LoadConfirmationDepth, world
  <1>2. DOMAIN calls[c] = CallField /\ DOMAIN calls = Call
    BY Zenon DEF SimInv, SendInv, CallsOK, CallOK
  <1>3. call.stage = "depth" /\ call.switches = calls[c].switches
    BY <1>2 DEF CallField, Idle
  <1>4. \/ calls' = [calls EXCEPT ![c] = call]
        \/ (\E found : RoundEnds(c, found)) \/ (\E result : WatchReturns(c, result))
    BY <1>2, Zenon DEF LookupTransaction, LoadConfirmationDepth
  <1> HIDE DEF call
  <1> QED BY <1>1, <1>3, <1>4, SimMoves, SimRoundEnds, SimWatchReturns, Zenon

LEMMA SimProgress ==
    ASSUME SimInv, SendInv', NEW c \in Call, CallProgress(c)
    PROVE  SimInv'
  <1>1. ASSUME NEW current, SendUnlessStale(c, current) PROVE SimInv'
    BY <1>1, SimGoto, SimReturn, Zenon DEF SendUnlessStale, memory, history, world
  <1>2. CASE WakeUp(c)
    BY <1>2, SimGoto, Zenon DEF WakeUp, memory, history, world
  <1>3. CASE RpcFails(c)
    BY <1>3, SimReturn, SimWatchReturns, Zenon DEF RpcFails, memory, history, world
  <1> QED BY <1>1, <1>2, <1>3, SimProbes, SimSnapshot, SimBuilds, SimDryRun, SimAnswers,
             SimWatches, Zenon DEF CallProgress

LEMMA SimNext == SimInv /\ [Next]_vars => SimInv'
  <1> SUFFICES ASSUME SimInv, [Next]_vars PROVE SimInv'
    OBVIOUS
  <1>0. SendInv'
    BY SendStep DEF SimInv
  <1>1. CASE \E c \in Call : CallStarts(c) \/ CallProgress(c)
    BY <1>0, <1>1, SimStarts, SimProgress, Zenon
  <1>2. CASE Bootstrap
    <2>1. \A c \in Call : SimOK(calls'[c], endpoint, {})
      BY <1>2, SimFresh, Zenon DEF Bootstrap
    <2>2. attested' = {} /\ prepared' = <<>> /\ UNCHANGED endpoint
      BY <1>2, Zenon DEF Bootstrap
    <2>3. EndpointOK'
      BY <2>2, Zenon DEF SimInv, EndpointOK
    <2>4. DOMAIN prepared' = {}
      BY <2>2
    <2> QED BY <1>0, <2>1, <2>2, <2>3, <2>4, Zenon DEF SimInv, RecordsOK
  <1>3. CASE EndpointChanges
    <2>1. UNCHANGED <<calls, attested, prepared>>
      BY <1>3, Zenon DEF EndpointChanges, memory, history
    <2>2. EndpointOK' /\ endpoint'.switches = endpoint.switches + 1
      <3>1. ASSUME NEW context \in ChainContext,
                   endpoint' = [endpoint EXCEPT !.context = context, !.switches = @ + 1]
            PROVE  EndpointOK' /\ endpoint'.switches = endpoint.switches + 1
        BY <3>1 DEF SimInv, EndpointOK
      <3>2. ASSUME NEW supported,
                   endpoint' = [endpoint EXCEPT !.supported = supported, !.switches = @ + 1]
            PROVE  EndpointOK' /\ endpoint'.switches = endpoint.switches + 1
        BY <3>2 DEF SimInv, EndpointOK
      <3>3. \/ \E context \in ChainContext :
                  endpoint' = [endpoint EXCEPT !.context = context, !.switches = @ + 1]
            \/ endpoint' = [endpoint EXCEPT !.supported = ~endpoint.supported,
                                            !.switches = @ + 1]
        BY <1>3, Zenon DEF EndpointChanges
      <3> QED BY <3>1, <3>2, <3>3, Zenon
    <2>3. endpoint.switches \in Nat
      BY DEF SimInv, EndpointOK
    <2>4. ASSUME NEW c \in Call PROVE SimOK(calls[c], endpoint', attested)
      <3>1. SimOK(calls[c], endpoint, attested)
        BY Zenon DEF SimInv
      <3>2. calls[c].switches \in Nat /\ calls[c].switches <= endpoint.switches
        BY <3>1, Zenon DEF SimOK
      <3>3. /\ calls[c].switches <= endpoint'.switches
            /\ calls[c].switches # endpoint'.switches
        BY <2>2, <2>3, <3>2
      <3> QED BY <3>1, <3>3, Zenon DEF SimOK
    <2> QED BY <1>0, <2>1, <2>2, <2>4, Zenon DEF SimInv, RecordsOK
  <1>4. CASE UNCHANGED <<calls, endpoint, attested, prepared>>
    BY <1>0, <1>4, Zenon DEF SimInv, RecordsOK, EndpointOK
  <1> QED BY <1>1, <1>2, <1>3, <1>4
          DEF Next, Outside, StrayArrives, StrayLost, ProduceBlock, PoolDrops,
              AdvanceClock, memory, history, world, vars

LEMMA SimInit == Init => SimInv
  <1> SUFFICES ASSUME Init PROVE SimInv
    OBVIOUS
  <1>1. EndpointOK /\ endpoint.switches = 0
    <2>1. endpoint \in [context : {x \in ChainContext : validate_chain_identity(x)},
                        supported : {TRUE}, switches : {0}]
      BY Zenon DEF Init
    <2> QED BY <2>1 DEF EndpointOK
  <1>2. SimOK(Idle, endpoint, attested)
    BY <1>1 DEF SimOK, Idle, Simulated, NoRecord
  <1>3. RecordsOK /\ \A c \in Call : SimOK(calls[c], endpoint, attested)
    BY <1>2 DEF Init, RecordsOK
  <1> QED BY <1>1, <1>3, SendInit DEF SimInv

LEMMA SimInvariant == Spec => []SimInv
  BY SimInit, SimNext, PTL DEF Spec

\* A step of one call is no step of another.
LEMMA OneActs ==
    ASSUME SimInv, NEW c \in Call, NEW d \in Call, d # c, CallStarts(d) \/ CallProgress(d)
    PROVE  calls'[c] = calls[c]
  <1>1. DOMAIN calls = Call
    BY Zenon DEF SimInv, SendInv, CallsOK
  <1> USE <1>1 DEF Return, Goto, WatchReturns, RoundEnds
  <1>2. CASE CallStarts(d)
    BY <1>2, Zenon DEF CallStarts, PrepareTransaction, SimulateRawTransaction,
                SubmitSignedTransaction, WatchTransaction
  <1>3. CASE CallProgress(d)
    BY <1>3, Zenon DEF CallProgress, EnsureTransactionCapabilitiesCurrent,
                LoadTransactionEndpointSnapshot, BuildRawTransaction, DryRunRaw,
                SendUnlessStale, SubmissionAnswered, SubmissionUnknown,
                LookupTransaction, LoadConfirmationDepth, WakeUp, RpcFails
  <1> QED BY <1>2, <1>3, Zenon

\* Only SendUnlessStale sends.
LEMMA Sending ==
    ASSUME SimInv, [Next]_vars, NEW c \in Call,
           calls[c].stage = "sequence", calls'[c].stage = "reply"
    PROVE  calls[c].op = "submit"
  <1>1. DOMAIN calls = Call /\ \A d \in Call : DOMAIN calls[d] = CallField
    BY Zenon DEF SimInv, SendInv, CallsOK, CallOK
  <1>2. calls' # calls
    BY Zenon
  <1>3. ~Bootstrap
    <2>1. Bootstrap => calls'[c] = Idle
      BY Zenon DEF Bootstrap
    <2>2. Idle.stage # "reply"
      BY DEF Idle
    <2> QED BY <2>1, <2>2, Zenon
  <1>4. PICK d \in Call : CallStarts(d) \/ CallProgress(d)
    BY <1>2, <1>3, Zenon DEF Next, Outside, StrayArrives, StrayLost, ProduceBlock, PoolDrops,
                      EndpointChanges, AdvanceClock, vars
  <1>5. d = c
    BY <1>4, OneActs, Zenon
  <1>6. ~CallStarts(c)
    BY DEF CallStarts, PrepareTransaction, SimulateRawTransaction, SubmitSignedTransaction,
           WatchTransaction, Start, Busy, Begin, Returned, Idle, Watch
  <1>7. CallProgress(c)
    BY <1>4, <1>5, <1>6, Zenon
  <1>8. ASSUME NEW result, Return(c, result) PROVE FALSE
    BY <1>1, <1>8 DEF Return, Returned, Idle
  <1>9. ASSUME NEW payload, NEW sequence_number, NEW requested, NEW has_key,
               BuildRawTransaction(c, payload, sequence_number, requested, has_key)
        PROVE  FALSE
    BY <1>1, <1>8, <1>9 DEF BuildRawTransaction, CallField, Idle
  <1>10. ~RpcFails(c)
    BY <1>8, Zenon DEF RpcFails, Watching
  <1> QED BY <1>7, <1>9, <1>10, Zenon
          DEF CallProgress, EnsureTransactionCapabilitiesCurrent,
              LoadTransactionEndpointSnapshot, DryRunRaw, SendUnlessStale,
              SubmissionAnswered, SubmissionUnknown, LookupTransaction,
              LoadConfirmationDepth, WakeUp

\* submit_signed_transaction under the default policy, for any number of calls
\* and any changes of the endpoint between them: what goes out was simulated on
\* the chain the endpoint shows, unless the endpoint changed under the submit.
THEOREM SentWasSimulated == Spec => SentOnlyWhereSimulated
  <1>1. ASSUME SimInv, [Next]_vars, NEW c \in Call, ~AllowSubmitWithoutPriorSimulation,
               calls[c].stage = "sequence", calls'[c].stage = "reply",
               calls[c].switches = endpoint.switches
        PROVE  <<calls[c].txn, endpoint.context>> \in attested
    <2>1. calls[c].op = "submit"
      BY <1>1, Sending, Zenon
    <2> QED BY <1>1, <2>1, Zenon DEF SimInv, SimOK
  <1>2. SimInv /\ [Next]_vars =>
          [\A c \in Call :
              /\ ~AllowSubmitWithoutPriorSimulation
              /\ calls[c].stage = "sequence" /\ calls'[c].stage = "reply"
              /\ calls[c].switches = endpoint.switches
              => <<calls[c].txn, endpoint.context>> \in attested]_vars
    BY <1>1, Zenon
  <1> QED BY <1>2, SimInvariant, PTL DEF Spec, SentOnlyWhereSimulated
---------------------------------------------------------------------------
(* What a watch reports.                                                   *)

\* The chain only grows: a transaction is included once, under its own
\* sequence number, in a block no later than the head.
ChainOK ==
    /\ DOMAIN chain = {"pool", "included", "head", "sequence"}
    /\ chain.head \in Nat /\ chain.sequence \in Nat
    /\ \A t \in DOMAIN chain.included :
          /\ chain.included[t] \in Nat /\ chain.included[t] <= chain.head
          /\ t.sequence_number \in Nat /\ t.sequence_number < chain.sequence

\* What one call knows of the chain: between the two RPCs of a round it holds
\* the block of its transaction, unless the endpoint became another node.
WatchOK(call, ep, included) ==
    /\ call.stage # "idle" => call.result = "none"
    /\ call.wanted \in Nat
    /\ call.stage = "depth" /\ call.switches = ep.switches =>
           call.txn \in DOMAIN included /\ call.inclusion = included[call.txn]

WatchInv ==
    SimInv /\ ChainOK /\ \A c \in Call : WatchOK(calls[c], endpoint, chain.included)

\* Blocks are the same as before.
SameBlocks ==
    /\ DOMAIN chain' = DOMAIN chain
    /\ chain'.head = chain.head /\ chain'.sequence = chain.sequence
    /\ chain'.included = chain.included

\* A call returns, goes on without the result of a lookup, or goes on with one.
Moves(c, call) ==
    /\ calls' = [calls EXCEPT ![c] = call]
    /\ \/ \E result : call = Returned(result)
       \/ /\ call.result = calls[c].result /\ call.wanted = calls[c].wanted
          /\ call.stage # "depth" \/ /\ call.txn \in DOMAIN chain.included
                                     /\ call.inclusion = chain.included[call.txn]

LEMMA CallShape ==
    ASSUME SimInv
    PROVE  DOMAIN calls = Call /\ \A c \in Call : DOMAIN calls[c] = CallField
  BY Zenon DEF SimInv, SendInv, CallsOK, CallOK

LEMMA ReturnMoves ==
    ASSUME NEW c, NEW result, Return(c, result)
    PROVE  \E call : Moves(c, call)
  BY Zenon DEF Return, Moves

LEMMA WatchReturnMoves ==
    ASSUME NEW c, NEW result, WatchReturns(c, result)
    PROVE  \E call : Moves(c, call)
  BY ReturnMoves, Zenon DEF WatchReturns

LEMMA GotoMoves ==
    ASSUME SimInv, NEW c \in Call, NEW stage, Goto(c, stage), stage # "depth"
    PROVE  \E call : Moves(c, call)
  <1> DEFINE call == [calls[c] EXCEPT !.stage = stage]
  <1>1. /\ call.result = calls[c].result /\ call.wanted = calls[c].wanted
        /\ call.stage = stage
    BY CallShape DEF CallField, Idle
  <1>2. calls' = [calls EXCEPT ![c] = call]
    BY DEF Goto
  <1> HIDE DEF call
  <1> QED BY <1>1, <1>2, Zenon DEF Moves

LEMMA RoundEndMoves ==
    ASSUME SimInv, NEW c \in Call, NEW found, RoundEnds(c, found)
    PROVE  \E call : Moves(c, call)
  <1> DEFINE call == [calls[c] EXCEPT !.stage = "sleep", !.found = found]
  <1>1. /\ call.result = calls[c].result /\ call.wanted = calls[c].wanted
        /\ call.stage = "sleep"
    BY CallShape DEF CallField, Idle
  <1>2. (\E result : WatchReturns(c, result)) \/ calls' = [calls EXCEPT ![c] = call]
    BY CallShape, Zenon DEF RoundEnds
  <1> HIDE DEF call
  <1> QED BY <1>1, <1>2, WatchReturnMoves, Zenon DEF Moves

LEMMA SnapshotMoves ==
    ASSUME SimInv, NEW c \in Call, LoadTransactionEndpointSnapshot(c)
    PROVE  \E call : Moves(c, call)
  <1> DEFINE stage == IF calls[c].op = "simulate" THEN "dry_run" ELSE "sequence"
             call == [calls[c] EXCEPT !.stage = stage, !.snapshot = endpoint.context,
                                      !.snapshot_now = now]
  <1>1. /\ call.result = calls[c].result /\ call.wanted = calls[c].wanted
        /\ call.stage = stage
    BY CallShape DEF CallField, Idle
  <1>2. \/ Return(c, "error") \/ Return(c, "rejected")
        \/ calls' = [calls EXCEPT ![c].stage = stage, ![c].snapshot = endpoint.context,
                                  ![c].snapshot_now = now]
    BY DEF LoadTransactionEndpointSnapshot
  <1>3. [calls EXCEPT ![c].stage = stage, ![c].snapshot = endpoint.context,
                      ![c].snapshot_now = now] = [calls EXCEPT ![c] = call]
    BY CallShape, Zenon
  <1>4. stage # "depth"
    BY Zenon
  <1> HIDE DEF call, stage
  <1> QED BY <1>1, <1>2, <1>3, <1>4, ReturnMoves, Zenon DEF Moves

LEMMA BuildMoves ==
    ASSUME SimInv, NEW c \in Call, NEW payload, NEW sequence_number, NEW requested,
           NEW has_key, BuildRawTransaction(c, payload, sequence_number, requested, has_key)
    PROVE  \E call : Moves(c, call)
  <1> DEFINE raw_txn == [payload |-> payload, chain_id |-> calls[c].snapshot.chain_id,
                         sequence_number |-> sequence_number,
                         expiration |-> resolve_expiration(calls[c].snapshot_now, requested)]
             call == [calls[c] EXCEPT !.stage = "dry_run", !.txn = raw_txn]
  <1>1. /\ call.result = calls[c].result /\ call.wanted = calls[c].wanted
        /\ call.stage = "dry_run"
    BY CallShape DEF CallField, Idle
  <1>2. \/ \E result : Return(c, result)
        \/ calls' = [calls EXCEPT ![c].stage = "dry_run", ![c].txn = raw_txn]
    BY Zenon DEF BuildRawTransaction
  <1>3. [calls EXCEPT ![c].stage = "dry_run", ![c].txn = raw_txn] = [calls EXCEPT ![c] = call]
    BY CallShape, Zenon
  <1> HIDE DEF call, raw_txn
  <1> QED BY <1>1, <1>2, <1>3, ReturnMoves DEF Moves

LEMMA AnswerMoves ==
    ASSUME SimInv, NEW c \in Call, SubmissionAnswered(c) \/ SubmissionUnknown(c)
    PROVE  \E call : Moves(c, call)
  <1> DEFINE call == Watch(calls[c], calls[c].timeout)
  <1>1. /\ call.result = calls[c].result /\ call.wanted = calls[c].wanted
        /\ call.stage = "lookup"
    BY CallShape DEF CallField, Idle, Watch
  <1>2. calls' = [calls EXCEPT ![c] = call] \/ \E result : Return(c, result)
    BY Zenon DEF SubmissionAnswered, SubmissionUnknown
  <1> HIDE DEF call
  <1> QED BY <1>1, <1>2, ReturnMoves, Zenon DEF Moves

LEMMA WatchMoves ==
    ASSUME SimInv, NEW c \in Call, LookupTransaction(c) \/ LoadConfirmationDepth(c)
    PROVE  \E call : Moves(c, call)
  <1> DEFINE call == [calls[c] EXCEPT !.stage = "depth",
                                      !.inclusion = chain.included[calls[c].txn]]
  <1>1. /\ call.result = calls[c].result /\ call.wanted = calls[c].wanted
        /\ call.txn = calls[c].txn /\ call.inclusion = chain.included[calls[c].txn]
    BY CallShape DEF CallField, Idle
  <1>2. \/ Included(calls[c].txn) /\ calls' = [calls EXCEPT ![c] = call]
        \/ (\E found : RoundEnds(c, found)) \/ (\E result : WatchReturns(c, result))
    BY CallShape, Zenon DEF LookupTransaction, LoadConfirmationDepth
  <1> HIDE DEF call
  <1>3. ASSUME Included(calls[c].txn), calls' = [calls EXCEPT ![c] = call]
        PROVE  Moves(c, call)
    BY <1>1, <1>3, Zenon DEF Moves, Included
  <1> QED BY <1>2, <1>3, RoundEndMoves, WatchReturnMoves, Zenon

\* Every step of a call is one of these, and changes the pool at most.
LEMMA ProgressMoves ==
    ASSUME SimInv, NEW c \in Call, CallProgress(c)
    PROVE  calls[c].stage # "idle" /\ \E call : Moves(c, call)
  <1>1. CASE EnsureTransactionCapabilitiesCurrent(c)
    BY <1>1, GotoMoves, ReturnMoves, Zenon DEF EnsureTransactionCapabilitiesCurrent
  <1>2. CASE LoadTransactionEndpointSnapshot(c)
    BY <1>2, SnapshotMoves, Zenon DEF LoadTransactionEndpointSnapshot
  <1>3. ASSUME NEW payload, NEW sequence_number, NEW requested, NEW has_key,
               BuildRawTransaction(c, payload, sequence_number, requested, has_key)
        PROVE  calls[c].stage # "idle" /\ \E call : Moves(c, call)
    BY <1>3, BuildMoves, Zenon DEF BuildRawTransaction
  <1>4. CASE DryRunRaw(c)
    BY <1>4, ReturnMoves, Zenon DEF DryRunRaw
  <1>5. ASSUME NEW current, SendUnlessStale(c, current)
        PROVE  calls[c].stage # "idle" /\ \E call : Moves(c, call)
    BY <1>5, GotoMoves, ReturnMoves, Zenon DEF SendUnlessStale
  <1>6. CASE SubmissionAnswered(c) \/ SubmissionUnknown(c)
    BY <1>6, AnswerMoves, Zenon DEF SubmissionAnswered, SubmissionUnknown
  <1>7. CASE LookupTransaction(c) \/ LoadConfirmationDepth(c)
    BY <1>7, WatchMoves, Zenon DEF LookupTransaction, LoadConfirmationDepth
  <1>8. CASE WakeUp(c)
    BY <1>8, GotoMoves, Zenon DEF WakeUp
  <1>9. CASE RpcFails(c)
    BY <1>9, ReturnMoves, WatchReturnMoves, Zenon DEF RpcFails
  <1> QED BY <1>1, <1>2, <1>3, <1>4, <1>5, <1>6, <1>7, <1>8, <1>9, Zenon DEF CallProgress

LEMMA ProgressKeepsBlocks ==
    ASSUME SimInv, ChainOK, NEW c \in Call, CallProgress(c)
    PROVE  SameBlocks /\ endpoint' = endpoint
  <1>1. ASSUME NEW t, NEW verdict, chain' = Received(t, verdict) PROVE SameBlocks
    BY <1>1 DEF Received, SameBlocks, ChainOK
  <1>2. chain' = chain => SameBlocks
    BY DEF SameBlocks
  <1>3. CASE SubmissionAnswered(c) \/ SubmissionUnknown(c)
    BY <1>1, <1>2, <1>3, Zenon DEF SubmissionAnswered, SubmissionUnknown
  <1> QED BY <1>2, <1>3, Zenon
          DEF CallProgress, EnsureTransactionCapabilitiesCurrent,
              LoadTransactionEndpointSnapshot, BuildRawTransaction, DryRunRaw,
              SendUnlessStale, LookupTransaction, LoadConfirmationDepth, WakeUp, RpcFails,
              world

LEMMA BlocksKeepChain ==
    ASSUME ChainOK, SameBlocks PROVE ChainOK'
  BY Zenon DEF ChainOK, SameBlocks

\* A call that begins has nothing to report, and a wanted depth.
LEMMA WatchStarts ==
    ASSUME WatchInv, NEW c \in Call, CallStarts(c)
    PROVE  /\ UNCHANGED <<endpoint, chain>>
           /\ \E call : /\ calls' = [calls EXCEPT ![c] = call]
                        /\ WatchOK(call, endpoint, chain.included)
  <1> DEFINE Starts == \E call : /\ calls' = [calls EXCEPT ![c] = call]
                                 /\ WatchOK(call, endpoint, chain.included)
  <1>1. ASSUME NEW op PROVE \A t : WatchOK([Begin(c, op) EXCEPT !.txn = t],
                                           endpoint, chain.included)
    BY DEF WatchOK, Begin, Idle
  <1>2. WatchOK(Begin(c, "prepare"), endpoint, chain.included)
    BY DEF WatchOK, Begin, Idle
  <1>3. \A result : WatchOK(Returned(result), endpoint, chain.included)
    BY DEF WatchOK, Returned, Idle
  <1>4. \A requested \in ConfirmationInput : effective_min_confirmed_blocks(requested) \in Nat
    BY SubmissionAssumption, Zenon DEF SubmissionAssumption, effective_min_confirmed_blocks, Greater,
                                Given
  <1>5. CASE PrepareTransaction(c)
    BY <1>2, <1>5, Zenon DEF PrepareTransaction, world
  <1>6. ASSUME NEW t, SimulateRawTransaction(c, t) PROVE Starts /\ UNCHANGED <<endpoint, chain>>
    BY <1>1, <1>6, Zenon DEF SimulateRawTransaction, world
  <1>7. ASSUME NEW t, NEW timeout, NEW min_confirmed \in ConfirmationInput,
               WatchTransaction(c, t, timeout, min_confirmed)
        PROVE  Starts /\ UNCHANGED <<endpoint, chain>>
    <2> DEFINE begun == [Begin(c, "watch") EXCEPT
                            !.txn = t, !.wanted = effective_min_confirmed_blocks(min_confirmed)]
               call == IF try_watch_permit THEN Watch(begun, timeout) ELSE Returned("error")
    <2>1. WatchOK(Watch(begun, timeout), endpoint, chain.included)
      BY <1>4 DEF WatchOK, Watch, Begin, Idle
    <2>2. calls' = [calls EXCEPT ![c] = call] /\ UNCHANGED <<endpoint, chain>>
      BY <1>7 DEF WatchTransaction, world
    <2>3. WatchOK(call, endpoint, chain.included)
      <3> HIDE DEF begun
      <3> QED BY <1>3, <2>1, Zenon
    <2> HIDE DEF call
    <2> QED BY <2>2, <2>3, Zenon
  <1>8. ASSUME NEW t, NEW context, NEW blocking, NEW timeout,
               NEW min_confirmed \in ConfirmationInput,
               SubmitSignedTransaction(c, t, context, blocking, timeout, min_confirmed)
        PROVE  Starts /\ UNCHANGED <<endpoint, chain>>
    <2> DEFINE begun == [Begin(c, "submit") EXCEPT
                            !.txn = t, !.context = context,
                            !.record = IF t \in DOMAIN prune_prepared_transactions
                                       THEN prepared[t] ELSE NoRecord,
                            !.blocking = blocking,
                            !.timeout = effective_submit_timeout_seconds(blocking, timeout),
                            !.wanted = effective_min_confirmed_blocks(min_confirmed),
                            !.late = t \in DOMAIN unknown_at]
               call == IF has_unresolved_submission(t) THEN Returned("unknown") ELSE begun
    <2>1. /\ begun.stage = "probe" /\ begun.result = "none"
          /\ begun.wanted = effective_min_confirmed_blocks(min_confirmed)
      BY DEF Begin, Idle
    <2>2. calls' = [calls EXCEPT ![c] = call] /\ UNCHANGED <<endpoint, chain>>
      BY <1>8 DEF SubmitSignedTransaction, world
    <2>3. WatchOK(call, endpoint, chain.included)
      <3> HIDE DEF begun
      <3> QED BY <1>3, <1>4, <2>1, Zenon DEF WatchOK
    <2> HIDE DEF call
    <2> QED BY <2>2, <2>3, Zenon
  <1> HIDE DEF Starts
  <1>9. Starts /\ UNCHANGED <<endpoint, chain>>
    BY <1>5, <1>6, <1>7, <1>8, Zenon DEF CallStarts, Starts
  <1> QED BY <1>9, Zenon DEF Starts

\* One call changes, and the blocks do not.
LEMMA WatchCallStep ==
    ASSUME WatchInv, SimInv', NEW c \in Call, NEW call, calls' = [calls EXCEPT ![c] = call],
           SameBlocks, endpoint' = endpoint, WatchOK(call, endpoint, chain.included)
    PROVE  WatchInv'
  <1>1. ASSUME NEW d \in Call PROVE WatchOK(calls'[d], endpoint', chain'.included)
    BY CallShape, Zenon DEF WatchInv, SameBlocks
  <1> QED BY <1>1, BlocksKeepChain, Zenon DEF WatchInv

\* A block adds to the chain: what was included stays where it is.
LEMMA BlocksAdd ==
    ASSUME ChainOK, ProduceBlock
    PROVE  /\ ChainOK'
           /\ \A t \in DOMAIN chain.included :
                 t \in DOMAIN chain'.included /\ chain'.included[t] = chain.included[t]
  <1>1. CASE chain' = [chain EXCEPT !.head = @ + 1]
    <2>1. /\ DOMAIN chain' = DOMAIN chain /\ chain'.head = chain.head + 1
          /\ chain'.sequence = chain.sequence /\ chain'.included = chain.included
      BY <1>1, Zenon DEF ChainOK
    <2> QED BY <2>1 DEF ChainOK
  <1>2. ASSUME NEW t \in chain.pool, t.sequence_number = chain.sequence,
               chain' = [head |-> chain.head + 1, sequence |-> chain.sequence + 1,
                         pool |-> {u \in chain.pool : u.sequence_number > chain.sequence},
                         included |-> Put(chain.included, t, chain.head + 1)]
        PROVE  /\ ChainOK'
               /\ \A u \in DOMAIN chain.included :
                     u \in DOMAIN chain'.included /\ chain'.included[u] = chain.included[u]
    <2>1. /\ DOMAIN chain' = DOMAIN chain /\ chain'.head = chain.head + 1
          /\ chain'.sequence = chain.sequence + 1
          /\ chain'.included = Put(chain.included, t, chain.head + 1)
      BY <1>2, Zenon DEF ChainOK
    <2>2. t \notin DOMAIN chain.included /\ t.sequence_number \in Nat
      BY <1>2 DEF ChainOK
    <2>3. /\ DOMAIN chain'.included = DOMAIN chain.included \cup {t}
          /\ chain'.included[t] = chain.head + 1
          /\ \A u \in DOMAIN chain.included : chain'.included[u] = chain.included[u]
      BY <2>1, <2>2, Zenon DEF Put
    <2> QED BY <1>2, <2>1, <2>2, <2>3 DEF ChainOK
  <1> QED BY <1>1, <1>2 DEF ProduceBlock

LEMMA WatchNext == WatchInv /\ [Next]_vars => WatchInv'
  <1> SUFFICES ASSUME WatchInv, [Next]_vars PROVE WatchInv'
    OBVIOUS
  <1>0. SimInv /\ SimInv' /\ ChainOK
    BY SimNext DEF WatchInv
  <1>1. ASSUME NEW c \in Call, CallStarts(c) PROVE WatchInv'
    <2>1. PICK call : /\ calls' = [calls EXCEPT ![c] = call]
                      /\ WatchOK(call, endpoint, chain.included)
      BY <1>1, WatchStarts
    <2>2. SameBlocks /\ endpoint' = endpoint
      BY <1>1, WatchStarts, Zenon DEF SameBlocks
    <2> QED BY <1>0, <2>1, <2>2, WatchCallStep, Zenon
  <1>2. ASSUME NEW c \in Call, CallProgress(c) PROVE WatchInv'
    <2>1. PICK call : Moves(c, call)
      BY <1>0, <1>2, ProgressMoves, Zenon
    <2>2. WatchOK(calls[c], endpoint, chain.included) /\ calls[c].stage # "idle"
      BY <1>0, <1>2, ProgressMoves, Zenon DEF WatchInv
    <2>3. \A result : WatchOK(Returned(result), endpoint, chain.included)
      BY DEF WatchOK, Returned, Idle
    <2>4. WatchOK(call, endpoint, chain.included)
      BY <2>1, <2>2, <2>3, Zenon DEF Moves, WatchOK
    <2> QED BY <1>0, <1>2, <2>1, <2>4, ProgressKeepsBlocks, WatchCallStep, Zenon DEF Moves
  <1>3. CASE Bootstrap
    <2>1. SameBlocks
      BY <1>3, Zenon DEF Bootstrap, SameBlocks
    <2>2. WatchOK(Idle, endpoint', chain'.included)
      BY Zenon DEF WatchOK, Idle
    <2> QED BY <1>0, <1>3, <2>1, <2>2, BlocksKeepChain, Zenon DEF Bootstrap, WatchInv
  <1>4. CASE ProduceBlock
    <2>1. UNCHANGED <<calls, endpoint>>
      BY <1>4, Zenon DEF ProduceBlock
    <2>2. ASSUME NEW c \in Call PROVE WatchOK(calls[c], endpoint, chain'.included)
      BY <1>0, <1>4, BlocksAdd, Zenon DEF WatchInv, WatchOK
    <2> QED BY <1>0, <1>4, <2>1, <2>2, BlocksAdd, Zenon DEF WatchInv
  <1>5. CASE EndpointChanges
    <2>1. calls' = calls /\ (chain' = EmptyChain \/ chain' = chain)
      BY <1>5, Zenon DEF EndpointChanges
    <2>2. endpoint'.switches = endpoint.switches + 1 /\ endpoint.switches \in Nat
      <3>1. DOMAIN endpoint = {"context", "supported", "switches"} /\ endpoint.switches \in Nat
        BY <1>0, Zenon DEF SimInv, EndpointOK
      <3>2. \/ \E context : endpoint' = [endpoint EXCEPT !.context = context, !.switches = @ + 1]
            \/ \E supported : endpoint' = [endpoint EXCEPT !.supported = supported,
                                                           !.switches = @ + 1]
        BY <1>5, Zenon DEF EndpointChanges
      <3> QED BY <3>1, <3>2, Zenon
    <2>3. ChainOK'
      BY <1>0, <2>1 DEF ChainOK, EmptyChain
    <2>4. ASSUME NEW c \in Call PROVE WatchOK(calls[c], endpoint', chain'.included)
      <3>1. calls[c].switches \in Nat /\ calls[c].switches <= endpoint.switches
        BY <1>0, Zenon DEF SimInv, SimOK
      <3> QED BY <2>2, <3>1 DEF WatchInv, WatchOK
    <2> QED BY <1>0, <2>1, <2>3, <2>4, Zenon DEF WatchInv
  <1>6. CASE UNCHANGED <<calls, endpoint>> /\ SameBlocks
    BY <1>0, <1>6, BlocksKeepChain, Zenon DEF WatchInv, SameBlocks
  <1>7. ASSUME NEW t, StrayArrives(t) PROVE UNCHANGED <<calls, endpoint>> /\ SameBlocks
    BY <1>0, <1>7, Zenon DEF StrayArrives, Received, SameBlocks, ChainOK
  <1>8. ASSUME NEW t, PoolDrops(t) PROVE UNCHANGED <<calls, endpoint>> /\ SameBlocks
    BY <1>0, <1>8 DEF PoolDrops, SameBlocks, ChainOK
  <1>9. (\E t : StrayLost(t)) \/ AdvanceClock \/ UNCHANGED vars
        => UNCHANGED <<calls, endpoint>> /\ SameBlocks
    BY Zenon DEF StrayLost, AdvanceClock, SameBlocks, world, vars
  <1> QED BY <1>1, <1>2, <1>3, <1>4, <1>5, <1>6, <1>7, <1>8, <1>9, Zenon DEF Next, Outside

LEMMA WatchInvariant == Spec => []WatchInv
  <1>1. Init => WatchInv
    <2> SUFFICES ASSUME Init PROVE WatchInv
      OBVIOUS
    <2>1. ChainOK
      BY DEF Init, ChainOK, EmptyChain
    <2>2. WatchOK(Idle, endpoint, chain.included)
      BY Zenon DEF WatchOK, Idle
    <2> QED BY <2>1, <2>2, SimInit, Zenon DEF WatchInv, Init
  <1> QED BY <1>1, WatchNext, PTL DEF Spec

\* A watch ends in its own step, and only with one of these results.
LEMMA WatchEnds ==
    ASSUME WatchInv, [Next]_vars, NEW c \in Call, Watching(c), calls'[c].result # "none"
    PROVE  \/ LookupTransaction(c) \/ LoadConfirmationDepth(c)
           \/ RpcFails(c) /\ WatchReturns(c, "error")
  <1>0. SimInv /\ calls[c].stage # "idle" /\ calls[c].result = "none"
    BY Zenon DEF WatchInv, WatchOK, Watching
  <1>1. calls' # calls /\ ~Bootstrap
    <2>1. calls'[c] # calls[c]
      BY <1>0, Zenon
    <2>2. ASSUME Bootstrap PROVE calls'[c].result = "none"
      BY <2>2, Zenon DEF Bootstrap, Idle
    <2> QED BY <2>1, <2>2, Zenon
  <1>2. PICK d \in Call : CallStarts(d) \/ CallProgress(d)
    BY <1>1, Zenon DEF Next, Outside, StrayArrives, StrayLost, ProduceBlock, PoolDrops,
                EndpointChanges, AdvanceClock, vars
  <1>3. d = c
    BY <1>0, <1>2, OneActs, Zenon
  <1>4. ~CallStarts(c)
    BY <1>0, Zenon DEF CallStarts, PrepareTransaction, SimulateRawTransaction,
                SubmitSignedTransaction, WatchTransaction, Start, Busy
  <1>5. ~WakeUp(c)
    BY <1>0, CallShape DEF WakeUp, Goto, CallField, Idle
  <1>6. /\ ~EnsureTransactionCapabilitiesCurrent(c) /\ ~LoadTransactionEndpointSnapshot(c)
        /\ \A payload, sequence_number, requested, has_key :
              ~BuildRawTransaction(c, payload, sequence_number, requested, has_key)
        /\ ~DryRunRaw(c) /\ \A current : ~SendUnlessStale(c, current)
        /\ ~SubmissionAnswered(c) /\ ~SubmissionUnknown(c)
    BY Zenon DEF EnsureTransactionCapabilitiesCurrent, LoadTransactionEndpointSnapshot,
           BuildRawTransaction, DryRunRaw, SendUnlessStale, SubmissionAnswered,
           SubmissionUnknown, Watching
  <1>7. RpcFails(c) => WatchReturns(c, "error")
    BY Zenon DEF RpcFails, Watching
  <1> QED BY <1>2, <1>3, <1>4, <1>5, <1>6, <1>7, Zenon DEF CallProgress

\* What a watch returns, depending on the tool that watches.
LEMMA WatchReturned ==
    ASSUME WatchInv, NEW c \in Call, NEW result, WatchReturns(c, result)
    PROVE  calls'[c].result = IF calls[c].op = "watch" THEN result
                              ELSE IF result = "confirmed" THEN "accepted_confirmed"
                              ELSE "accepted"
  <1>1. DOMAIN calls = Call
    BY CallShape, Zenon DEF WatchInv
  <1> QED BY <1>1 DEF WatchReturns, Return, Returned, Idle

\* A round that does not find the wanted depth confirms nothing.
LEMMA RoundReports ==
    ASSUME WatchInv, NEW c \in Call, NEW found, RoundEnds(c, found), Watching(c)
    PROVE  /\ calls'[c].result \notin {"confirmed", "accepted_confirmed"}
           /\ calls[c].op = "submit" => calls'[c].result \in {"none", "accepted"}
  <1>1. CASE now >= calls[c].deadline
    BY <1>1, WatchReturned DEF RoundEnds
  <1>2. CASE ~(now >= calls[c].deadline)
    <2>1. calls' = [calls EXCEPT ![c] = [calls[c] EXCEPT !.stage = "sleep", !.found = found]]
      BY <1>2, CallShape, Zenon DEF RoundEnds, WatchInv
    <2>2. [calls[c] EXCEPT !.stage = "sleep", !.found = found].result = calls[c].result
      BY CallShape DEF WatchInv, CallField, Idle
    <2>3. calls[c].result = "none"
      BY Zenon DEF WatchInv, WatchOK, Watching
    <2> QED BY <2>1, <2>2, <2>3, CallShape DEF WatchInv
  <1> QED BY <1>1, <1>2, Zenon

\* The lookup of a round confirms nothing.
LEMMA LookupReports ==
    ASSUME WatchInv, NEW c \in Call, LookupTransaction(c)
    PROVE  /\ calls'[c].result \notin {"confirmed", "accepted_confirmed"}
           /\ calls[c].op = "submit" => calls'[c].result \in {"none", "accepted"}
  <1> DEFINE call == [calls[c] EXCEPT !.stage = "depth",
                                      !.inclusion = chain.included[calls[c].txn]]
  <1>1. Watching(c) /\ calls[c].result = "none"
    BY DEF LookupTransaction, Watching, WatchInv, WatchOK
  <1>2. call.result = "none"
    BY <1>1, CallShape DEF WatchInv, CallField, Idle
  <1>3. calls' = [calls EXCEPT ![c] = call] \/ \E found : RoundEnds(c, found)
    BY CallShape, Zenon DEF LookupTransaction, WatchInv
  <1> HIDE DEF call
  <1> QED BY <1>1, <1>2, <1>3, RoundReports, CallShape, Zenon DEF WatchInv

\* watch_transaction, alone or at the end of a blocking submit_signed_transaction,
\* for any number of calls and any growth of the chain between its two RPCs: a
\* reported confirmation is deep enough on the chain the endpoint shows, and an
\* accepted submission stays accepted.
THEOREM WatchesCorrect == Spec => WatchTellsTheTruth
  <1>1. ASSUME WatchInv, [Next]_vars, NEW c \in Call,
               calls[c].stage = "depth", calls[c].switches = endpoint.switches,
               calls'[c].result \in {"confirmed", "accepted_confirmed"}
        PROVE  /\ Included(calls[c].txn)
               /\ chain.head >= chain.included[calls[c].txn] + calls[c].wanted - 1
    <2>1. /\ calls[c].txn \in DOMAIN chain.included
          /\ calls[c].inclusion = chain.included[calls[c].txn] /\ calls[c].wanted \in Nat
      BY <1>1, Zenon DEF WatchInv, WatchOK
    <2>2. Watching(c) /\ ~LookupTransaction(c)
      BY <1>1 DEF Watching, LookupTransaction
    <2>3. CASE RpcFails(c) /\ WatchReturns(c, "error")
      BY <1>1, <2>3, WatchReturned
    <2>4. CASE LoadConfirmationDepth(c)
      <3>1. ~WatchReturns(c, "error") /\ \A found : ~RoundEnds(c, found)
        BY <1>1, <2>2, WatchReturned, RoundReports
      <3>2. confirmation_depth(calls[c].inclusion) >= calls[c].wanted
        BY <2>4, <3>1, Zenon DEF LoadConfirmationDepth
      <3>3. /\ chain.head \in Nat /\ chain.included[calls[c].txn] \in Nat
            /\ chain.included[calls[c].txn] <= chain.head
        BY <1>1, <2>1, Zenon DEF WatchInv, ChainOK
      <3> QED BY <2>1, <3>2, <3>3 DEF confirmation_depth, Greater, Included
    <2> QED BY <1>1, <2>2, <2>3, <2>4, WatchEnds, Zenon
  <1>2. ASSUME WatchInv, [Next]_vars, NEW c \in Call,
               calls[c].op = "submit", Watching(c), calls'[c].result # "none"
        PROVE  calls'[c].result \in {"accepted", "accepted_confirmed"}
    <2>1. CASE LookupTransaction(c)
      BY <1>2, <2>1, LookupReports, Zenon
    <2>2. CASE RpcFails(c) /\ WatchReturns(c, "error")
      BY <1>2, <2>2, WatchReturned, Zenon
    <2>3. CASE LoadConfirmationDepth(c)
      <3>1. (\E result : WatchReturns(c, result)) \/ \E found : RoundEnds(c, found)
        BY <2>3, Zenon DEF LoadConfirmationDepth
      <3> QED BY <1>2, <3>1, WatchReturned, RoundReports, Zenon
    <2> QED BY <1>2, <2>1, <2>2, <2>3, WatchEnds, Zenon
  <1>3. WatchInv /\ [Next]_vars =>
          [\A c \in Call :
              /\ /\ calls[c].stage = "depth" /\ calls[c].switches = endpoint.switches
                 /\ calls'[c].result \in {"confirmed", "accepted_confirmed"}
                 => /\ Included(calls[c].txn)
                    /\ chain.head >= chain.included[calls[c].txn] + calls[c].wanted - 1
              /\ calls[c].op = "submit" /\ Watching(c) /\ calls'[c].result # "none"
                 => calls'[c].result \in {"accepted", "accepted_confirmed"}]_vars
    BY <1>1, <1>2, Zenon
  <1> QED BY <1>3, WatchInvariant, PTL DEF Spec, WatchTellsTheTruth
===========================================================================
