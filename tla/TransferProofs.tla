--------------------------- MODULE TransferProofs ---------------------------
(***************************************************************************)
(* Transfer runs, for any number of concurrent runs and of state files of  *)
(* any size, whatever the wallet and the chain do.                         *)
(***************************************************************************)
EXTENDS TransferWorkflow, FiniteSetTheorems, TLAPS

RunField == DOMAIN Idle

Updating(x) == x.stage \in {"lock", "write"}

\* The run has sent nothing yet.
Unsent(x) ==
    \/ x.stage \in {"idle", "wallet", "prepare", "preflight", "confirm", "sign", "poll",
                    "check", "attest", "reconcile", "send"}
    \/ Updating(x) /\ x.update = "prepared"

\* The run has asked for a signature.
Asked(x) ==
    \/ x.stage \in {"poll", "check", "attest", "reconcile", "send", "answer", "watch", "finish"}
    \/ Updating(x) /\ x.update # "prepared"

\* The run has seen or made a record of an unknown outcome.
Uncertain(x) ==
    \/ x.stage = "reconcile"
    \/ x.submit = "unknown" /\ (x.stage \in {"watch", "finish"} \/ x.exit = "1")

\* What became of the payload is on record, or on the chain.
Traced(path, p, files, done, gone) ==
    p \in DOMAIN files[path].unresolved \/ p \in done \/ <<path, p>> \in gone

\* What the state of one run tells.
RunOK(r, x, reqs, done, files, locks, gone) ==
    /\ DOMAIN x = RunField
    /\ x.stage # "idle" => x.path \in StatePath
    /\ Updating(x) => x.update \in {"prepared", "unresolved", "clear"}
    /\ x.exit # "none" => x.stage = "exited"
    /\ Unsent(x) => x.submit = "none" /\ x.watch = "none"
    /\ x.stage = "answer" => x.submit = "accepted"
    /\ Asked(x) => x.request \in DOMAIN reqs /\ reqs[x.request].payload = x.payload
    /\ x.watch = "confirmed" => x.payload \in done
    /\ Updating(x) /\ x.update = "clear" => x.watch = "confirmed"
    /\ x.exit = "0" /\ x.submit # "none" => x.watch = "confirmed"
    /\ Uncertain(x) => Traced(x.path, x.payload, files, done, gone)
    /\ x.stage \in {"attest", "send"} /\ x.known => <<x.path, x.payload>> \in gone
    /\ x.stage = "write" => locks[x.path] = r /\ x.content = files[x.path]

\* A state file is never over full, and its records are from the past.
FileOK(content, time) ==
    /\ DOMAIN content = {"prepared", "unresolved"}
    /\ IsFiniteSet(DOMAIN content.unresolved)
    /\ Cardinality(DOMAIN content.unresolved) <= MaxUnresolvedRecords
    /\ \A p \in DOMAIN content.unresolved :
           content.unresolved[p].recorded_at \in Nat /\ content.unresolved[p].recorded_at <= time

FilesOK(files, time) ==
    DOMAIN files = StatePath /\ \A path \in StatePath : FileOK(files[path], time)

LedgerOK(entries, files, gone) ==
    \A e \in entries :
        /\ e = <<e[1], e[2]>> /\ e[1] \in StatePath
        /\ e[2] \in DOMAIN files[e[1]].unresolved \/ e \in gone

RequestsOK(reqs) ==
    \A id \in DOMAIN reqs : DOMAIN reqs[id] = {"payload", "status", "expires_at"}

RunsOK ==
    /\ DOMAIN runs = Run
    /\ \A r \in Run :
           RunOK(r, runs[r], requests, DOMAIN chain.executed, state_file, lock, dropped)

StoreOK ==
    /\ FilesOK(state_file, now)
    /\ DOMAIN lock = StatePath
    /\ LedgerOK(ledger, state_file, dropped)

WorldOK ==
    /\ now \in Nat
    /\ RequestsOK(requests)
    /\ DOMAIN chain = {"pool", "executed", "sequence", "funds"}

WorkInv == RunsOK /\ StoreOK /\ WorldOK
---------------------------------------------------------------------------
(* Steps that leave the state files alone.                                 *)

LEMMA Limits ==
    /\ MaxUnresolvedRecords \in Nat /\ MaxUnresolvedRecords # 0
    /\ NoRun \notin Run
  BY WorkflowAssumption DEF WorkflowAssumption

\* Requests are added, and keep their payloads.
Extends(reqs, more) ==
    DOMAIN reqs \subseteq DOMAIN more /\ \A id \in DOMAIN reqs : more[id].payload = reqs[id].payload

\* What a run knows stays true while requests and executed transactions are added.
LEMMA RunStays ==
    ASSUME NEW r, NEW x, NEW reqs, NEW more, NEW done, NEW later, NEW files, NEW locks, NEW gone,
           RunOK(r, x, reqs, done, files, locks, gone),
           Extends(reqs, more), done \subseteq later
    PROVE  RunOK(r, x, more, later, files, locks, gone)
<1>1. Asked(x) => x.request \in DOMAIN more /\ more[x.request].payload = x.payload
  BY DEF RunOK, Extends
<1>2. x.watch = "confirmed" => x.payload \in later
  BY DEF RunOK
<1>3. Uncertain(x) => Traced(x.path, x.payload, files, later, gone)
  BY DEF RunOK, Traced
<1> QED
  BY <1>1, <1>2, <1>3 DEF RunOK

\* The world goes on.
LEMMA WorldMoves ==
    ASSUME WorkInv, UNCHANGED <<runs, store>>, WorldOK', now <= now',
           Extends(requests, requests'), DOMAIN chain.executed \subseteq DOMAIN chain'.executed
    PROVE  WorkInv'
<1>1. RunsOK'
  BY RunStays DEF WorkInv, RunsOK, store
<1>2. FilesOK(state_file, now')
  <2>1. now \in Nat /\ now' \in Nat
    BY DEF WorkInv, WorldOK
  <2> QED
    BY <2>1 DEF WorkInv, StoreOK, FilesOK, FileOK
<1>3. StoreOK'
  BY <1>2 DEF WorkInv, StoreOK, store
<1> QED
  BY <1>1, <1>3 DEF WorkInv

\* One run moves, and the world may go on with it.
LEMMA OneRun ==
    ASSUME WorkInv, NEW r \in Run, NEW x, runs' = [runs EXCEPT ![r] = x],
           UNCHANGED store, UNCHANGED now, WorldOK',
           Extends(requests, requests'), DOMAIN chain.executed \subseteq DOMAIN chain'.executed,
           RunOK(r, x, requests', DOMAIN chain'.executed, state_file, lock, dropped)
    PROVE  WorkInv'
<1>1. \A q \in Run : runs'[q] = IF q = r THEN x ELSE runs[q]
  BY DEF WorkInv, RunsOK
<1>2. RunsOK'
  BY <1>1, RunStays DEF WorkInv, RunsOK, store
<1>3. StoreOK'
  BY DEF WorkInv, StoreOK, store
<1> QED
  BY <1>2, <1>3 DEF WorkInv

\* What is known of a run.
Known(r, x) == RunOK(r, x, requests, DOMAIN chain.executed, state_file, lock, dropped)

LEMMA RunMoves ==
    ASSUME WorkInv, NEW r \in Run, NEW x, runs' = [runs EXCEPT ![r] = x],
           UNCHANGED <<world, store>>, Known(r, x)
    PROVE  WorkInv'
<1>1. WorldOK' /\ Extends(requests, requests')
  BY DEF WorkInv, WorldOK, world, Extends
<1> QED
  BY <1>1, OneRun, Zenon DEF Known, world

LEMMA KnownRun ==
    ASSUME WorkInv, NEW r \in Run
    PROVE  Known(r, runs[r]) /\ DOMAIN runs[r] = RunField
  BY Zenon DEF WorkInv, RunsOK, Known, RunOK

\* A run that ends has no success to report without a confirmation, and no
\* failure that leaves an unknown outcome unrecorded.
LEMMA ExitOK ==
    ASSUME WorkInv, NEW r \in Run, NEW code \in {"0", "1"}, Exit(r, code),
           UNCHANGED <<world, store>>, runs[r].stage # "idle",
           code = "0" => runs[r].submit = "none" \/ runs[r].watch = "confirmed",
           code = "1" => runs[r].submit # "unknown" \/ runs[r].stage = "finish"
    PROVE  WorkInv'
<1> DEFINE y == runs[r]
           x == [y EXCEPT !.stage = "exited", !.exit = code]
<1>1. Known(r, y) /\ DOMAIN y = RunField
  BY KnownRun
<1>2. runs' = [runs EXCEPT ![r] = x]
  BY Zenon DEF Exit
<1>3. /\ DOMAIN x = RunField /\ x.stage = "exited" /\ x.exit = code /\ x.path = y.path
      /\ x.payload = y.payload /\ x.submit = y.submit /\ x.watch = y.watch
  BY <1>1 DEF RunField, Idle
<1> HIDE DEF x, y
<1>4. Known(r, x)
  BY <1>1, <1>3, Zenon DEF Known, RunOK, Updating, Unsent, Asked, Uncertain, y
<1> QED
  BY <1>2, <1>4, RunMoves, Zenon

LEMMA GotoOK ==
    ASSUME WorkInv, NEW r \in Run, NEW stage, Goto(r, stage), UNCHANGED <<world, store>>,
           <<runs[r].stage, stage>> \in
               {<<"wallet", "prepare">>, <<"preflight", "confirm">>, <<"confirm", "sign">>,
                <<"poll", "check">>, <<"attest", "send">>, <<"answer", "watch">>}
    PROVE  WorkInv'
<1> DEFINE y == runs[r]
           x == [y EXCEPT !.stage = stage]
<1>1. Known(r, y) /\ DOMAIN y = RunField
  BY KnownRun
<1>2. runs' = [runs EXCEPT ![r] = x]
  BY DEF Goto
<1>3. /\ DOMAIN x = RunField /\ x.stage = stage
      /\ \A f \in RunField \ {"stage"} : x[f] = y[f]
  BY <1>1 DEF RunField, Idle
<1>4. /\ x.path = y.path /\ x.payload = y.payload /\ x.submit = y.submit /\ x.watch = y.watch
      /\ x.exit = y.exit /\ x.request = y.request /\ x.known = y.known
  BY <1>3 DEF RunField, Idle
<1>5. <<y.stage, stage>> \in
               {<<"wallet", "prepare">>, <<"preflight", "confirm">>, <<"confirm", "sign">>,
                <<"poll", "check">>, <<"attest", "send">>, <<"answer", "watch">>}
  OBVIOUS
<1> HIDE DEF x, y
<1>6. Known(r, x)
  BY <1>1, <1>3, <1>4, <1>5 DEF Known, RunOK, Updating, Unsent, Asked, Uncertain
<1> QED
  BY <1>2, <1>6, RunMoves, Zenon

LEMMA StartOK ==
    ASSUME WorkInv, NEW r \in Run, StartRun(r)
    PROVE  WorkInv'
<1>1. PICK path \in StatePath :
          runs' = [runs EXCEPT ![r] = [Idle EXCEPT
                        !.stage = "wallet", !.path = path,
                        !.inherited = DOMAIN state_file[path].unresolved]]
  BY Zenon DEF StartRun
<1> DEFINE x == [Idle EXCEPT !.stage = "wallet", !.path = path,
                             !.inherited = DOMAIN state_file[path].unresolved]
<1>2. /\ DOMAIN x = RunField /\ x.stage = "wallet" /\ x.path = path
      /\ x.submit = "none" /\ x.watch = "none" /\ x.exit = "none"
  BY DEF RunField, Idle
<1> HIDE DEF x
<1>3. Known(r, x)
  BY <1>2 DEF Known, RunOK, Updating, Unsent, Asked, Uncertain
<1> QED
  BY <1>1, <1>3, RunMoves, Zenon DEF StartRun, x

LEMMA PrepareOK ==
    ASSUME WorkInv, NEW r \in Run, PrepareSession(r)
    PROVE  WorkInv'
<1> DEFINE y == runs[r]
           p == [sequence_number |-> NextSequence, expiration |-> now + ExpirationTtl]
           x == [Update(r, "prepared") EXCEPT !.payload = p]
<1>1. Known(r, y) /\ DOMAIN y = RunField /\ y.stage = "prepare"
  BY KnownRun DEF PrepareSession, At
<1>2. runs' = [runs EXCEPT ![r] = x]
  BY DEF PrepareSession
<1> HIDE DEF p
<1>3. /\ DOMAIN x = RunField /\ x.stage = "lock" /\ x.update = "prepared" /\ x.path = y.path
      /\ x.submit = y.submit /\ x.watch = y.watch /\ x.exit = y.exit
  BY <1>1 DEF RunField, Idle, Update
<1> HIDE DEF x, y
<1>4. Known(r, x)
  BY <1>1, <1>3 DEF Known, RunOK, Updating, Unsent, Asked, Uncertain
<1> QED
  BY <1>2, <1>4, RunMoves, Zenon DEF PrepareSession

\* A request is asked for with the run's own payload, or answers to it.
LEMMA CreateOK ==
    ASSUME WorkInv, NEW r \in Run, CreateSignRequest(r)
    PROVE  WorkInv'
<1> DEFINE y == runs[r]
           x == [y EXCEPT !.stage = "poll", !.request = now]
<1>1. Known(r, y) /\ DOMAIN y = RunField /\ y.stage = "sign"
  BY KnownRun DEF CreateSignRequest, At
<1>2. CASE now \notin DOMAIN requests \/ requests[now].payload = y.payload
  <2> DEFINE fresh == [payload |-> y.payload, status |-> "open", expires_at |-> now + RequestTtl]
  <2>1. /\ runs' = [runs EXCEPT ![r] = x]
        /\ requests' = IF now \in DOMAIN requests THEN requests ELSE Put(requests, now, fresh)
        /\ UNCHANGED <<now, chain, store>>
    BY <1>2, Zenon DEF CreateSignRequest
  <2>2. DOMAIN fresh = {"payload", "status", "expires_at"} /\ fresh.payload = y.payload
    BY Zenon
  <2>3. /\ DOMAIN x = RunField /\ x.stage = "poll" /\ x.request = now /\ x.path = y.path
        /\ x.payload = y.payload /\ x.submit = y.submit /\ x.watch = y.watch
        /\ x.exit = y.exit
    BY <1>1 DEF RunField, Idle
  <2> HIDE DEF x, y, fresh
  <2>4. /\ Extends(requests, requests')
        /\ now \in DOMAIN requests' /\ requests'[now].payload = y.payload
    BY <1>2, <2>1, <2>2 DEF Extends, Put
  <2>5. RequestsOK(requests')
    BY <2>1, <2>2 DEF WorkInv, WorldOK, RequestsOK, Put
  <2>6. RunOK(r, x, requests', DOMAIN chain.executed, state_file, lock, dropped)
    BY <1>1, <2>3, <2>4, Zenon DEF Known, RunOK, Updating, Unsent, Asked, Uncertain
  <2>7. WorldOK'
    BY <2>1, <2>5 DEF WorkInv, WorldOK
  <2> QED
    BY <2>1, <2>4, <2>6, <2>7, OneRun, Zenon
<1>3. CASE ~(now \notin DOMAIN requests \/ requests[now].payload = y.payload)
  <2>1. Exit(r, "1") /\ UNCHANGED <<world, store>>
    BY <1>3 DEF CreateSignRequest, world
  <2>2. runs[r].submit # "unknown" /\ runs[r].stage # "idle"
    BY <1>1, Zenon DEF Known, RunOK, Unsent
  <2> QED
    BY <2>1, <2>2, ExitOK
<1> QED
  BY <1>2, <1>3

\* What the file does not hold and the history does, a full file let go.
LEMMA CheckOK ==
    ASSUME WorkInv, NEW r \in Run, CheckUnresolved(r)
    PROVE  WorkInv'
<1> DEFINE y == runs[r]
           entry == <<y.path, y.payload>>
           next == IF unresolved_for_session(r) THEN "reconcile" ELSE "attest"
           x == [y EXCEPT !.stage = next, !.known = entry \in ledger]
<1>1. Known(r, y) /\ DOMAIN y = RunField /\ y.stage = "check"
  BY KnownRun DEF CheckUnresolved, At
<1>2. runs' = [runs EXCEPT ![r] = x]
  BY Zenon DEF CheckUnresolved
<1>3. entry \in ledger => y.payload \in DOMAIN state_file[y.path].unresolved \/ entry \in dropped
  <2>1. entry[1] = y.path /\ entry[2] = y.payload
    OBVIOUS
  <2> HIDE DEF entry, y
  <2> QED
    BY <2>1 DEF WorkInv, StoreOK, LedgerOK
<1>4. unresolved_for_session(r) <=> y.payload \in DOMAIN state_file[y.path].unresolved
  BY DEF unresolved_for_session
<1>5. /\ DOMAIN x = RunField /\ x.stage = next /\ x.known = (entry \in ledger)
      /\ x.path = y.path /\ x.payload = y.payload /\ x.submit = y.submit /\ x.watch = y.watch
      /\ x.exit = y.exit /\ x.request = y.request
  BY <1>1 DEF RunField, Idle
<1>6. entry = <<x.path, x.payload>>
  BY <1>5
<1> HIDE DEF x, y, entry
<1>7. CASE unresolved_for_session(r)
  <2>1. Traced(x.path, x.payload, state_file, DOMAIN chain.executed, dropped)
    BY <1>4, <1>5, <1>7 DEF Traced
  <2>2. x.stage = "reconcile"
    BY <1>5, <1>7
  <2>3. Known(r, x)
    BY <1>1, <1>5, <2>1, <2>2, Zenon DEF Known, RunOK, Updating, Unsent, Asked, Uncertain
  <2> QED
    BY <1>2, <2>3, RunMoves, Zenon DEF CheckUnresolved
<1>8. CASE ~unresolved_for_session(r)
  <2>1. x.stage = "attest"
    BY <1>5, <1>8, Zenon
  <2>2. x.known => <<x.path, x.payload>> \in dropped
    BY <1>3, <1>4, <1>5, <1>6, <1>8, Zenon
  <2>3. Known(r, x)
    BY <1>1, <1>5, <2>1, <2>2, Zenon DEF Known, RunOK, Updating, Unsent, Asked, Uncertain
  <2> QED
    BY <1>2, <2>3, RunMoves, Zenon DEF CheckUnresolved
<1> QED
  BY <1>7, <1>8

\* A run that has its answer clears the record, if the transaction is on the
\* chain, or finishes.
LEMMA SettleOK ==
    ASSUME WorkInv, NEW r \in Run, NEW submit, NEW watch, NEW again,
           UNCHANGED <<world, store>>, runs[r].stage \in {"reconcile", "answer", "watch"},
           submit = "unknown" => runs[r].stage = "reconcile" \/ runs[r].submit = "unknown",
           \/ /\ OnChain(runs[r].payload) /\ watch = "confirmed"
              /\ runs' = [runs EXCEPT ![r] = [Update(r, "clear") EXCEPT
                              !.submit = submit, !.watch = watch, !.clear_again = again]]
           \/ /\ watch = "unconfirmed"
              /\ runs' = [runs EXCEPT ![r] = [runs[r] EXCEPT
                              !.stage = "finish", !.submit = submit, !.watch = watch]]
    PROVE  WorkInv'
<1> DEFINE y == runs[r]
<1>1. Known(r, y) /\ DOMAIN y = RunField /\ y.stage \in {"reconcile", "answer", "watch"}
  BY KnownRun
<1>2. CASE /\ OnChain(runs[r].payload) /\ watch = "confirmed"
           /\ runs' = [runs EXCEPT ![r] = [Update(r, "clear") EXCEPT
                              !.submit = submit, !.watch = watch, !.clear_again = again]]
  <2> DEFINE x == [Update(r, "clear") EXCEPT !.submit = submit, !.watch = watch,
                                             !.clear_again = again]
  <2>1. runs' = [runs EXCEPT ![r] = x] /\ y.payload \in DOMAIN chain.executed
    BY <1>2 DEF OnChain
  <2>2. /\ DOMAIN x = RunField /\ x.stage = "lock" /\ x.update = "clear" /\ x.path = y.path
        /\ x.submit = submit /\ x.watch = watch /\ x.exit = y.exit
        /\ x.payload = y.payload /\ x.request = y.request
    BY <1>1 DEF RunField, Idle, Update
  <2> HIDE DEF x, y
  <2>3. Known(r, x)
    BY <1>1, <1>2, <2>1, <2>2 DEF Known, RunOK, Updating, Unsent, Asked, Uncertain
  <2> QED
    BY <2>1, <2>3, RunMoves, Zenon
<1>3. CASE /\ watch = "unconfirmed"
           /\ runs' = [runs EXCEPT ![r] = [runs[r] EXCEPT
                              !.stage = "finish", !.submit = submit, !.watch = watch]]
  <2> DEFINE x == [y EXCEPT !.stage = "finish", !.submit = submit, !.watch = watch]
  <2>1. runs' = [runs EXCEPT ![r] = x]
    BY <1>3
  <2>2. /\ DOMAIN x = RunField /\ x.stage = "finish" /\ x.path = y.path
        /\ x.submit = submit /\ x.watch = watch /\ x.exit = y.exit
        /\ x.payload = y.payload /\ x.request = y.request
    BY <1>1, Zenon DEF RunField, Idle
  <2>3. submit = "unknown" => y.stage = "reconcile" \/ y.submit = "unknown"
    OBVIOUS
  <2> HIDE DEF x, y
  <2>4. submit = "unknown" => Uncertain(y)
    BY <1>1, <2>3 DEF Known, RunOK, Uncertain
  <2>5. Known(r, x)
    BY <1>1, <1>3, <2>2, <2>4, Zenon DEF Known, RunOK, Updating, Unsent, Asked, Uncertain
  <2> QED
    BY <2>1, <2>5, RunMoves, Zenon
<1> QED
  BY <1>2, <1>3

LEMMA ReconcileOK ==
    ASSUME WorkInv, NEW r \in Run, Reconcile(r)
    PROVE  WorkInv'
<1> DEFINE y == runs[r]
<1>1. DOMAIN y = RunField /\ y.stage = "reconcile" /\ UNCHANGED <<world, store>>
  BY KnownRun, Zenon DEF Reconcile, At
<1>2. CASE /\ OnChain(y.payload)
           /\ runs' = [runs EXCEPT ![r] = [Update(r, "clear") EXCEPT
                           !.submit = "accepted", !.watch = "confirmed"]]
  <2>1. [Update(r, "clear") EXCEPT !.submit = "accepted", !.watch = "confirmed"]
            = [Update(r, "clear") EXCEPT !.submit = "accepted", !.watch = "confirmed",
                                         !.clear_again = y.clear_again]
    BY <1>1, Zenon DEF Update, RunField, Idle
  <2> QED
    BY <1>1, <1>2, <2>1, SettleOK, Zenon
<1>3. CASE runs' = [runs EXCEPT ![r].stage = "finish", ![r].submit = "unknown",
                                ![r].watch = "unconfirmed"]
  <2>1. runs' = [runs EXCEPT ![r] = [runs[r] EXCEPT
                     !.stage = "finish", !.submit = "unknown", !.watch = "unconfirmed"]]
    BY <1>3, Zenon
  <2> QED
    BY <1>1, <2>1, SettleOK, Zenon
<1> QED
  BY <1>2, <1>3 DEF Reconcile

LEMMA WatchEndsOK ==
    ASSUME WorkInv, NEW r \in Run, WatchEnds(r), UNCHANGED <<world, store>>,
           runs[r].stage \in {"answer", "watch"}
    PROVE  WorkInv'
<1> DEFINE y == runs[r]
           again == (y.submit = "unknown")
<1>1. DOMAIN y = RunField
  BY KnownRun
<1>2. CASE /\ OnChain(y.payload)
           /\ runs' = [runs EXCEPT ![r] = [Update(r, "clear") EXCEPT
                           !.watch = "confirmed", !.clear_again = again]]
  <2>1. [Update(r, "clear") EXCEPT !.watch = "confirmed", !.clear_again = again]
            = [Update(r, "clear") EXCEPT !.submit = y.submit, !.watch = "confirmed",
                                         !.clear_again = again]
    BY <1>1, Zenon DEF Update, RunField, Idle
  <2> HIDE DEF again
  <2> QED
    BY <1>1, <1>2, <2>1, SettleOK, Zenon
<1>3. CASE runs' = [runs EXCEPT ![r].stage = "finish", ![r].watch = "unconfirmed"]
  <2>1. [y EXCEPT !.stage = "finish", !.watch = "unconfirmed"]
            = [y EXCEPT !.stage = "finish", !.submit = y.submit, !.watch = "unconfirmed"]
    BY <1>1, Zenon DEF RunField, Idle
  <2>2. runs' = [runs EXCEPT ![r] = [runs[r] EXCEPT
                     !.stage = "finish", !.submit = y.submit, !.watch = "unconfirmed"]]
    BY <1>3, <2>1, Zenon
  <2> QED
    BY <1>1, <2>2, SettleOK, Zenon
<1> QED
  BY <1>2, <1>3 DEF WatchEnds

\* The pool may take the transaction; what is executed stays.
LEMMA ReceiveOK ==
    ASSUME WorldOK, NEW p, Receive(p) \/ UNCHANGED chain
    PROVE  /\ DOMAIN chain' = {"pool", "executed", "sequence", "funds"}
           /\ chain'.executed = chain.executed
<1>1. CASE chain' = chain
  BY <1>1 DEF WorldOK
<1>2. CASE chain' = [chain EXCEPT !.pool = @ \cup {p}]
  BY <1>2 DEF WorldOK
<1> QED
  BY <1>1, <1>2 DEF Receive

LEMMA SubmitRefusedOK ==
    ASSUME WorkInv, NEW r \in Run, SubmitRefused(r)
    PROVE  WorkInv'
<1> DEFINE y == runs[r]
           x == [y EXCEPT !.stage = "finish", !.submit = "rejected"]
<1>1. Known(r, y) /\ DOMAIN y = RunField /\ y.stage = "send"
  BY KnownRun DEF SubmitRefused, At
<1>2. runs' = [runs EXCEPT ![r] = x] /\ UNCHANGED <<world, store>>
  BY Zenon DEF SubmitRefused
<1>3. /\ DOMAIN x = RunField /\ x.stage = "finish" /\ x.submit = "rejected" /\ x.path = y.path
      /\ x.payload = y.payload /\ x.watch = y.watch /\ x.exit = y.exit /\ x.request = y.request
  BY <1>1 DEF RunField, Idle
<1> HIDE DEF x, y
<1>4. Known(r, x)
  BY <1>1, <1>3, Zenon DEF Known, RunOK, Updating, Unsent, Asked, Uncertain
<1> QED
  BY <1>2, <1>4, RunMoves, Zenon

LEMMA SubmitAcceptedOK ==
    ASSUME WorkInv, NEW r \in Run, SubmitAccepted(r)
    PROVE  WorkInv'
<1> DEFINE y == runs[r]
           x == [y EXCEPT !.stage = "answer", !.submit = "accepted"]
<1>1. Known(r, y) /\ DOMAIN y = RunField /\ y.stage = "send"
  BY KnownRun DEF SubmitAccepted, At
<1>2. runs' = [runs EXCEPT ![r] = x] /\ UNCHANGED <<now, requests, store>> /\ Receive(y.payload)
  BY Zenon DEF SubmitAccepted
<1>3. /\ DOMAIN x = RunField /\ x.stage = "answer" /\ x.submit = "accepted" /\ x.path = y.path
      /\ x.payload = y.payload /\ x.watch = y.watch /\ x.exit = y.exit /\ x.request = y.request
  BY <1>1 DEF RunField, Idle
<1>4. /\ DOMAIN chain' = {"pool", "executed", "sequence", "funds"}
      /\ chain'.executed = chain.executed
  BY <1>2, ReceiveOK DEF WorkInv
<1> HIDE DEF x, y
<1>5. Known(r, x)
  BY <1>1, <1>3, Zenon DEF Known, RunOK, Updating, Unsent, Asked, Uncertain
<1>6. WorldOK' /\ Extends(requests, requests')
  BY <1>2, <1>4 DEF WorkInv, WorldOK, Extends
<1> QED
  BY <1>2, <1>4, <1>5, <1>6, OneRun, Zenon DEF Known

LEMMA SubmitUnknownOK ==
    ASSUME WorkInv, NEW r \in Run, SubmitUnknown(r)
    PROVE  WorkInv'
<1> DEFINE y == runs[r]
           x == [Update(r, "unresolved") EXCEPT !.submit = "unknown"]
<1>1. Known(r, y) /\ DOMAIN y = RunField /\ y.stage = "send"
  BY KnownRun DEF SubmitUnknown, At
<1>2. /\ runs' = [runs EXCEPT ![r] = x] /\ UNCHANGED <<now, requests, store>>
      /\ Receive(y.payload) \/ UNCHANGED chain
  BY DEF SubmitUnknown
<1>3. /\ DOMAIN x = RunField /\ x.stage = "lock" /\ x.update = "unresolved" /\ x.path = y.path
      /\ x.payload = y.payload /\ x.watch = y.watch /\ x.exit = y.exit /\ x.request = y.request
      /\ x.submit = "unknown"
  BY <1>1 DEF RunField, Idle, Update
<1>4. /\ DOMAIN chain' = {"pool", "executed", "sequence", "funds"}
      /\ chain'.executed = chain.executed
  BY <1>2, ReceiveOK DEF WorkInv
<1> HIDE DEF x, y
<1>5. Known(r, x)
  BY <1>1, <1>3, Zenon DEF Known, RunOK, Updating, Unsent, Asked, Uncertain
<1>6. WorldOK' /\ Extends(requests, requests')
  BY <1>2, <1>4 DEF WorkInv, WorldOK, Extends
<1> QED
  BY <1>2, <1>4, <1>5, <1>6, OneRun, Zenon DEF Known

\* The steps that neither ask, submit nor touch the file.
LEMMA PlainStepOK ==
    ASSUME WorkInv, NEW r \in Run,
           \/ FindWallet(r) \/ CollectPreflight(r) \/ Confirm(r) \/ PollRequest(r)
           \/ RequirePrepared(r) \/ SubmitReturns(r) \/ WatchReturns(r) \/ Finish(r)
    PROVE  WorkInv'
<1> DEFINE y == runs[r]
<1>0. Known(r, y)
  BY KnownRun
<1>u. Unsent(y) => y.submit = "none"
  BY <1>0, Zenon DEF Known, RunOK
<1>1. CASE FindWallet(r)
  BY <1>1, GotoOK, Zenon DEF FindWallet, At
<1>2. CASE CollectPreflight(r)
  <2>1. y.stage = "preflight" /\ UNCHANGED <<world, store>> /\ (Exit(r, "1") \/ Goto(r, "confirm"))
    BY <1>2, Zenon DEF CollectPreflight, At
  <2> QED
    BY <1>u, <2>1, GotoOK, ExitOK, Zenon DEF Unsent
<1>3. CASE Confirm(r)
  <2>1. y.stage = "confirm" /\ UNCHANGED <<world, store>> /\ (Exit(r, "0") \/ Goto(r, "sign"))
    BY <1>3 DEF Confirm, At
  <2> QED
    BY <1>u, <2>1, GotoOK, ExitOK, Zenon DEF Unsent
<1>4. CASE PollRequest(r)
  <2>1. y.stage = "poll" /\ UNCHANGED <<world, store>> /\ (Exit(r, "1") \/ Goto(r, "check"))
    BY <1>4, Zenon DEF PollRequest, At
  <2> QED
    BY <1>u, <2>1, GotoOK, ExitOK, Zenon DEF Unsent
<1>5. CASE RequirePrepared(r)
  <2>1. y.stage = "attest" /\ UNCHANGED <<world, store>> /\ (Exit(r, "1") \/ Goto(r, "send"))
    BY <1>5, Zenon DEF RequirePrepared, At
  <2> QED
    BY <1>u, <2>1, GotoOK, ExitOK, Zenon DEF Unsent
<1>6. CASE SubmitReturns(r)
  BY <1>6, GotoOK, WatchEndsOK, Zenon DEF SubmitReturns, At
<1>7. CASE WatchReturns(r)
  BY <1>7, WatchEndsOK DEF WatchReturns, At
<1>8. CASE Finish(r)
  <2>1. y.stage = "finish" /\ UNCHANGED <<world, store>>
    BY <1>8 DEF Finish, At
  <2>2. \/ Exit(r, "0") /\ y.watch = "confirmed"
        \/ Exit(r, "1")
    BY <1>8, Zenon DEF Finish
  <2> QED
    BY <2>1, <2>2, ExitOK
<1> QED
  BY <1>1, <1>2, <1>3, <1>4, <1>5, <1>6, <1>7, <1>8
---------------------------------------------------------------------------
(* The state files.                                                        *)

\* prune_records keeps at most max records, the one just made among them, and
\* drops none that is younger than one it keeps.
LEMMA Pruned ==
    ASSUME NEW records, IsFiniteSet(DOMAIN records), NEW max \in Nat, max # 0,
           NEW latest \in DOMAIN records,
           \A p \in DOMAIN records : /\ records[p].recorded_at \in Nat
                                     /\ records[p].recorded_at <= records[latest].recorded_at,
           NEW kept \in prune_records(records, max, latest)
    PROVE  /\ DOMAIN kept \subseteq DOMAIN records /\ latest \in DOMAIN kept
           /\ IsFiniteSet(DOMAIN kept) /\ Cardinality(DOMAIN kept) <= max
           /\ \A p \in DOMAIN kept : kept[p] = records[p]
           /\ Cardinality(DOMAIN records) <= max => kept = records
           /\ \A p \in DOMAIN records \ DOMAIN kept :
                  /\ Cardinality(DOMAIN kept) = max
                  /\ \A q \in DOMAIN kept : records[q].recorded_at >= records[p].recorded_at
<1>0. Cardinality(DOMAIN records) \in Nat
  BY FS_CardinalityType
<1>1. CASE Cardinality(DOMAIN records) <= max
  <2>1. kept = records
    BY <1>1 DEF prune_records
  <2> QED
    BY <1>0, <1>1, <2>1
<1>2. CASE ~(Cardinality(DOMAIN records) <= max)
  <2> DEFINE older(p) == {q \in DOMAIN records :
                        \/ records[q].recorded_at < records[p].recorded_at
                        \/ records[q].recorded_at = records[p].recorded_at /\ p = latest /\ q # latest}
             keeps(K) == /\ Cardinality(K) = max
                         /\ \A p \in DOMAIN records \ K : older(p) \cap K = {}
  <2>1. kept \in {[p \in K |-> records[p]] : K \in {K \in SUBSET DOMAIN records : keeps(K)}}
    BY <1>2 DEF prune_records
  <2>2. PICK K \in SUBSET DOMAIN records : keeps(K) /\ kept = [p \in K |-> records[p]]
    BY <2>1
  <2>3. /\ DOMAIN kept = K /\ \A p \in K : kept[p] = records[p]
        /\ Cardinality(K) = max
        /\ \A p \in DOMAIN records \ K : older(p) \cap K = {}
    BY <2>2
  <2>4. IsFiniteSet(K)
    BY FS_Subset
  <2>5. ASSUME NEW p \in DOMAIN records \ K, NEW q \in K
        PROVE  records[q].recorded_at >= records[p].recorded_at
    <3>1. q \in DOMAIN records /\ q \notin older(p)
      BY <2>3, Zenon
    <3>2. ~(records[q].recorded_at < records[p].recorded_at)
      BY <3>1, Zenon
    <3> QED
      BY <3>1, <3>2
  <2>6. latest \in K
    <3>1. SUFFICES ASSUME latest \notin K PROVE FALSE
      OBVIOUS
    <3>2. K # {}
      BY <2>3, <2>4, FS_EmptySet, Zenon
    <3>3. PICK q \in K : TRUE
      BY <3>2
    <3>4. q \in DOMAIN records /\ q \notin older(latest)
      BY <2>3, <3>1, Zenon
    <3>5. /\ records[q].recorded_at \in Nat /\ records[latest].recorded_at \in Nat
          /\ records[q].recorded_at <= records[latest].recorded_at
      BY <3>4, Zenon
    <3>6. q # latest
      BY <3>1
    <3> QED
      BY <3>4, <3>5, <3>6
  <2> HIDE DEF older, keeps
  <2> QED
    BY <1>0, <1>2, <2>3, <2>4, <2>5, <2>6
<1> QED
  BY <1>1, <1>2, Zenon

\* What an update of a file does to its unresolved records: it keeps the file in
\* order, a record of the payload is made or cleared, and other records go only
\* from a full file, the oldest first.
LEMMA RecordOK ==
    ASSUME NEW time \in Nat, time = now, NEW content, FileOK(content, time), NEW p,
           NEW file \in record_unresolved_submission(content, p)
    PROVE  /\ FileOK(file, time) /\ p \in DOMAIN file.unresolved
           /\ \A q \in DOMAIN content.unresolved \ DOMAIN file.unresolved :
                  /\ Cardinality(DOMAIN file.unresolved) = MaxUnresolvedRecords
                  /\ \A k \in DOMAIN file.unresolved \cap DOMAIN content.unresolved :
                         content.unresolved[k].recorded_at >= content.unresolved[q].recorded_at
<1> DEFINE before == content.unresolved
           records == Put(before, p, [recorded_at |-> now])
<1>1. PICK kept \in prune_records(records, MaxUnresolvedRecords, p) :
          file = [content EXCEPT !.unresolved = kept]
  BY Zenon DEF record_unresolved_submission
<1>2. DOMAIN file = {"prepared", "unresolved"} /\ file.unresolved = kept
  BY <1>1 DEF FileOK
<1>3. /\ DOMAIN records = DOMAIN before \cup {p} /\ records[p].recorded_at = now
      /\ \A q \in DOMAIN before : q # p => records[q] = before[q]
  BY Zenon DEF Put
<1>4. /\ IsFiniteSet(DOMAIN before) /\ Cardinality(DOMAIN before) <= MaxUnresolvedRecords
      /\ \A q \in DOMAIN before : before[q].recorded_at \in Nat /\ before[q].recorded_at <= now
  BY Zenon DEF FileOK
<1> HIDE DEF before, records
<1>5. IsFiniteSet(DOMAIN records)
  BY <1>3, <1>4, FS_AddElement
<1>6. \A q \in DOMAIN records : /\ records[q].recorded_at \in Nat
                                /\ records[q].recorded_at <= records[p].recorded_at
  BY <1>3, <1>4
<1>7. /\ DOMAIN kept \subseteq DOMAIN records /\ p \in DOMAIN kept
      /\ IsFiniteSet(DOMAIN kept) /\ Cardinality(DOMAIN kept) <= MaxUnresolvedRecords
      /\ \A q \in DOMAIN kept : kept[q] = records[q]
      /\ Cardinality(DOMAIN records) <= MaxUnresolvedRecords => kept = records
      /\ \A x \in DOMAIN records \ DOMAIN kept :
             /\ Cardinality(DOMAIN kept) = MaxUnresolvedRecords
             /\ \A q \in DOMAIN kept : records[q].recorded_at >= records[x].recorded_at
  BY <1>1, <1>3, <1>5, <1>6, Limits, Pruned, Zenon
<1>8. FileOK(file, time)
  BY <1>2, <1>3, <1>6, <1>7, Zenon DEF FileOK
<1>9. ASSUME NEW q \in DOMAIN before \ DOMAIN kept
      PROVE  /\ Cardinality(DOMAIN kept) = MaxUnresolvedRecords
             /\ \A k \in DOMAIN kept \cap DOMAIN before :
                    before[k].recorded_at >= before[q].recorded_at
  <2>1. q # p /\ q \in DOMAIN records \ DOMAIN kept
    BY <1>3, <1>7, Zenon
  <2>2. p \notin DOMAIN before
    <3>1. SUFFICES ASSUME p \in DOMAIN before PROVE FALSE
      OBVIOUS
    <3>2. DOMAIN records = DOMAIN before
      BY <1>3, <3>1
    <3> QED
      BY <1>4, <1>7, <2>1, <3>2, Zenon
  <2> QED
    BY <1>3, <1>7, <2>1, <2>2, Zenon
<1> QED
  BY <1>2, <1>7, <1>8, <1>9, Zenon DEF before

LEMMA ClearOK ==
    ASSUME NEW time \in Nat, NEW content, FileOK(content, time), NEW p,
           NEW file \in clear_unresolved_submission(content, p)
    PROVE  FileOK(file, time) /\ DOMAIN file.unresolved = DOMAIN content.unresolved \ {p}
<1> DEFINE before == content.unresolved
           after == Without(before, p)
<1>1. file = [content EXCEPT !.unresolved = after]
  BY DEF clear_unresolved_submission
<1>2. DOMAIN file = {"prepared", "unresolved"} /\ file.unresolved = after
  BY <1>1 DEF FileOK
<1>3. DOMAIN after = DOMAIN before \ {p} /\ \A q \in DOMAIN after : after[q] = before[q]
  BY DEF Without
<1>4. /\ IsFiniteSet(DOMAIN before) /\ Cardinality(DOMAIN before) <= MaxUnresolvedRecords
      /\ \A q \in DOMAIN before : before[q].recorded_at \in Nat /\ before[q].recorded_at <= time
  BY DEF FileOK
<1> HIDE DEF before, after
<1>5. /\ IsFiniteSet(DOMAIN after) /\ Cardinality(DOMAIN after) \in Nat
      /\ Cardinality(DOMAIN before) \in Nat
      /\ Cardinality(DOMAIN after) <= Cardinality(DOMAIN before)
  BY <1>3, <1>4, FS_Subset, FS_CardinalityType, Zenon
<1>6. Cardinality(DOMAIN after) <= MaxUnresolvedRecords
  BY <1>4, <1>5, Limits
<1> QED
  BY <1>2, <1>3, <1>4, <1>5, <1>6, Zenon DEF FileOK, before

\* What a write does to its file.
Writes(r, path, p, kind, file) ==
    /\ path \in StatePath /\ lock[path] = r /\ FileOK(file, now)
    /\ state_file' = [state_file EXCEPT ![path] = file]
    /\ kind = "prepared" => DOMAIN file.unresolved = DOMAIN state_file[path].unresolved
    /\ kind = "unresolved" =>
           /\ p \in DOMAIN file.unresolved
           /\ \A q \in DOMAIN state_file[path].unresolved \ DOMAIN file.unresolved :
                  /\ <<path, q>> \in dropped'
                  /\ Cardinality(DOMAIN file.unresolved) = MaxUnresolvedRecords
                  /\ \A k \in DOMAIN file.unresolved \cap DOMAIN state_file[path].unresolved :
                         state_file[path].unresolved[k].recorded_at
                             >= state_file[path].unresolved[q].recorded_at
    /\ kind = "clear" =>
           /\ DOMAIN file.unresolved = DOMAIN state_file[path].unresolved \ {p}
           /\ p \in DOMAIN chain.executed

LEMMA WriteFacts ==
    ASSUME WorkInv, NEW r \in Run, WriteState(r)
    PROVE  /\ runs[r].update \in {"prepared", "unresolved", "clear"}
           /\ \E file : Writes(r, runs[r].path, runs[r].payload, runs[r].update, file)
           /\ dropped \subseteq dropped'
<1> DEFINE y == runs[r]
           path == y.path
           p == y.payload
           content == state_file[path]
<1>1. Known(r, y) /\ y.stage = "write"
  BY KnownRun, Zenon DEF WriteState, At
<1>2. /\ path \in StatePath /\ lock[path] = r /\ y.content = content
      /\ y.update \in {"prepared", "unresolved", "clear"}
      /\ y.update = "clear" => p \in DOMAIN chain.executed
  BY <1>1, Zenon DEF Known, RunOK, Updating
<1>3. PICK file \in Updated(r) :
          /\ state_file' = [state_file EXCEPT ![path] = file]
          /\ dropped' = IF y.update # "unresolved" THEN dropped
                        ELSE dropped \cup {<<path, q>> : q \in
                                 DOMAIN y.content.unresolved \ DOMAIN file.unresolved}
  BY Zenon DEF WriteState
<1>4. now \in Nat /\ FileOK(content, now)
  BY <1>2, Zenon DEF WorkInv, WorldOK, StoreOK, FilesOK
<1>5. CASE y.update = "prepared"
  <2>1. file \in record_prepared(content, p)
    BY <1>2, <1>3, <1>5 DEF Updated
  <2>2. PICK kept : file = [content EXCEPT !.prepared = kept]
    BY <2>1, Zenon DEF record_prepared
  <2>3. DOMAIN file = {"prepared", "unresolved"} /\ file.unresolved = content.unresolved
    BY <1>4, <2>2, Zenon DEF FileOK
  <2>4. FileOK(file, now)
    BY <1>4, <2>3, Zenon DEF FileOK
  <2> HIDE DEF y
  <2> QED
    BY <1>2, <1>3, <1>5, <2>3, <2>4, Zenon DEF Writes, y
<1>6. CASE y.update = "unresolved"
  <2>1. file \in record_unresolved_submission(content, p)
    BY <1>2, <1>3, <1>6 DEF Updated
  <2>2. /\ FileOK(file, now) /\ p \in DOMAIN file.unresolved
        /\ \A q \in DOMAIN content.unresolved \ DOMAIN file.unresolved :
                  /\ Cardinality(DOMAIN file.unresolved) = MaxUnresolvedRecords
                  /\ \A k \in DOMAIN file.unresolved \cap DOMAIN content.unresolved :
                         content.unresolved[k].recorded_at >= content.unresolved[q].recorded_at
    BY <1>4, <2>1, RecordOK, Zenon
  <2>3. dropped' = dropped \cup {<<path, q>> : q \in
                                 DOMAIN content.unresolved \ DOMAIN file.unresolved}
    BY <1>2, <1>3, <1>6, Zenon
  <2>4. \A q \in DOMAIN content.unresolved \ DOMAIN file.unresolved : <<path, q>> \in dropped'
    BY <2>3, Zenon
  <2> HIDE DEF y
  <2> QED
    BY <1>2, <1>3, <1>6, <2>2, <2>3, <2>4, Zenon DEF Writes, y
<1>7. CASE y.update = "clear"
  <2>1. file \in clear_unresolved_submission(content, p)
    BY <1>2, <1>3, <1>7 DEF Updated
  <2>2. FileOK(file, now) /\ DOMAIN file.unresolved = DOMAIN content.unresolved \ {p}
    BY <1>4, <2>1, ClearOK
  <2> HIDE DEF y
  <2> QED
    BY <1>2, <1>3, <1>7, <2>2, Zenon DEF Writes, y
<1> QED
  BY <1>2, <1>5, <1>6, <1>7, Zenon

\* Whatever is on record, or on the chain, stays so when a file is written.
LEMMA TracedStays ==
    ASSUME NEW r, NEW path, NEW p, NEW kind \in {"prepared", "unresolved", "clear"}, NEW file,
           Writes(r, path, p, kind, file), DOMAIN state_file = StatePath, dropped \subseteq dropped',
           NEW other \in StatePath, NEW q, NEW done, DOMAIN chain.executed \subseteq done,
           Traced(other, q, state_file, done, dropped)
    PROVE  Traced(other, q, state_file', done, dropped')
<1>1. CASE other # path
  <2>1. state_file'[other] = state_file[other]
    BY <1>1, Zenon DEF Writes
  <2> QED
    BY <2>1 DEF Traced
<1>2. CASE other = path
  <2>1. state_file'[other] = file
    BY <1>2, Zenon DEF Writes
  <2> QED
    BY <1>2, <2>1, Zenon DEF Writes, Traced
<1> QED
  BY <1>1, <1>2

LEMMA WriteOK ==
    ASSUME WorkInv, NEW r \in Run, WriteState(r)
    PROVE  WorkInv'
<1> DEFINE y == runs[r]
           path == y.path
           p == y.payload
           done == DOMAIN chain.executed
           x == [y EXCEPT !.stage = AfterUpdate(r), !.clear_again = FALSE, !.content = EmptyFile]
<1>1. /\ Known(r, y) /\ DOMAIN y = RunField /\ y.stage = "write"
      /\ y.update \in {"prepared", "unresolved", "clear"} /\ dropped \subseteq dropped'
  BY KnownRun, WriteFacts, Zenon DEF WriteState, At
<1>2. PICK file : Writes(r, path, p, y.update, file)
  BY WriteFacts, Zenon
<1>3. /\ runs' = [runs EXCEPT ![r] = x] /\ lock' = [lock EXCEPT ![path] = NoRun]
      /\ UNCHANGED world
      /\ ledger' = CASE y.update = "unresolved" -> ledger \cup {<<path, p>>}
                     [] y.update = "clear"      -> ledger \ {<<path, p>>}
                     [] OTHER                   -> ledger
  BY Zenon DEF WriteState
<1>4. DOMAIN state_file = StatePath /\ DOMAIN lock = StatePath /\ DOMAIN runs = Run
  BY Zenon DEF WorkInv, StoreOK, FilesOK, RunsOK
<1>5. /\ DOMAIN x = RunField /\ x.stage = AfterUpdate(r) /\ x.update = y.update /\ x.path = path
      /\ x.payload = p /\ x.watch = y.watch /\ x.exit = y.exit /\ x.request = y.request
      /\ x.submit = y.submit
  BY <1>1 DEF RunField, Idle
<1>6. AfterUpdate(r) = IF y.update = "prepared" THEN "preflight"
                       ELSE IF y.update = "unresolved" THEN "watch"
                       ELSE IF y.clear_again THEN "lock" ELSE "finish"
  BY <1>1 DEF AfterUpdate
<1> HIDE DEF x, y
<1>7. /\ path \in StatePath /\ state_file' = [state_file EXCEPT ![path] = file]
      /\ lock[path] = r /\ FileOK(file, now)
  BY <1>2, Zenon DEF Writes
<1>8. Uncertain(x) => Traced(path, p, state_file', done, dropped')
  <2>1. state_file'[path] = file
    BY <1>4, <1>7
  <2>2. CASE y.update = "unresolved"
    BY <1>2, <2>1, <2>2, Zenon DEF Writes, Traced
  <2>3. CASE y.update = "clear"
    BY <1>2, <2>3, Zenon DEF Writes, Traced
  <2>4. CASE y.update = "prepared"
    <3>1. y.submit = "none"
      BY <1>1, <2>4, Zenon DEF Known, RunOK, Unsent, Updating
    <3> QED
      BY <1>5, <1>6, <2>4, <3>1, Zenon DEF Uncertain
  <2> QED
    BY <1>1, <2>2, <2>3, <2>4, Zenon
<1>9. RunOK(r, x, requests, done, state_file', lock', dropped')
  BY <1>1, <1>5, <1>6, <1>8, Zenon DEF Known, RunOK, Updating, Unsent, Asked, Uncertain
<1>10. ASSUME NEW q \in Run, q # r
       PROVE  RunOK(q, runs[q], requests, done, state_file', lock', dropped')
  <2> DEFINE z == runs[q]
  <2>1. RunOK(q, z, requests, done, state_file, lock, dropped)
    BY KnownRun DEF Known
  <2> HIDE DEF z
  <2>2. Uncertain(z) => z.path \in StatePath
    BY <2>1, Zenon DEF RunOK, Uncertain
  <2>3. Uncertain(z) => Traced(z.path, z.payload, state_file', done, dropped')
    BY <1>1, <1>2, <1>4, <2>1, <2>2, TracedStays, Zenon DEF RunOK
  <2>4. z.stage = "write" => lock'[z.path] = q /\ z.content = state_file'[z.path]
    <3>1. z.stage = "write" => z.path \in StatePath /\ lock[z.path] = q
                               /\ z.content = state_file[z.path]
      BY <2>1, Zenon DEF RunOK
    <3> QED
      BY <1>3, <1>4, <1>7, <1>10, <3>1, Zenon
  <2>5. z.stage \in {"attest", "send"} /\ z.known => <<z.path, z.payload>> \in dropped'
    BY <1>1, <2>1, Zenon DEF RunOK
  <2>6. RunOK(q, z, requests, done, state_file', lock', dropped')
    BY <2>1, <2>3, <2>4, <2>5, Zenon DEF RunOK
  <2> QED
    BY <2>6 DEF z
<1>11. RunsOK'
  <2>1. \A q \in Run : runs'[q] = IF q = r THEN x ELSE runs[q]
    BY <1>3, <1>4
  <2>2. DOMAIN runs' = Run /\ requests' = requests /\ chain' = chain
    BY <1>3, <1>4 DEF world
  <2> QED
    BY <1>9, <1>10, <2>1, <2>2, Zenon DEF RunsOK
<1>12. FilesOK(state_file', now')
  BY <1>3, <1>4, <1>7 DEF WorkInv, StoreOK, FilesOK, world
<1>13. ASSUME NEW e \in ledger'
       PROVE  /\ e = <<e[1], e[2]>> /\ e[1] \in StatePath
              /\ e[2] \in DOMAIN state_file'[e[1]].unresolved \/ e \in dropped'
  <2>1. state_file'[path] = file
    BY <1>4, <1>7, Zenon
  <2>2. CASE y.update = "unresolved" /\ e = <<path, p>>
    <3>1. e[1] = path /\ e[2] = p
      BY <2>2
    <3> QED
      BY <1>2, <2>1, <2>2, <3>1, Zenon DEF Writes
  <2>3. CASE ~(y.update = "unresolved" /\ e = <<path, p>>)
    <3>1. e \in ledger /\ (y.update = "clear" => e # <<path, p>>)
      BY <1>1, <1>3, <2>3
    <3>2. /\ e = <<e[1], e[2]>> /\ e[1] \in StatePath
          /\ e[2] \in DOMAIN state_file[e[1]].unresolved \/ e \in dropped
      BY <3>1 DEF WorkInv, StoreOK, LedgerOK
    <3>3. CASE e[1] # path
      BY <1>1, <1>4, <1>7, <3>2, <3>3
    <3>4. CASE e[1] = path
      <4>1. y.update = "clear" => e[2] # p
        BY <3>1, <3>2, <3>4
      <4>2. e[2] \in DOMAIN state_file[path].unresolved \ DOMAIN file.unresolved
                /\ y.update = "unresolved" => e \in dropped'
        BY <1>2, <3>2, <3>4, Zenon DEF Writes
      <4>3. y.update # "unresolved" =>
                (e[2] \in DOMAIN state_file[path].unresolved => e[2] \in DOMAIN file.unresolved)
        BY <1>1, <1>2, <4>1, Zenon DEF Writes
      <4> QED
        BY <1>1, <2>1, <3>2, <3>4, <4>2, <4>3, Zenon
    <3> QED
      BY <3>3, <3>4
  <2> QED
    BY <2>2, <2>3, Zenon
<1> QED
  BY <1>3, <1>4, <1>11, <1>12, <1>13 DEF WorkInv, StoreOK, WorldOK, LedgerOK, world

\* The lock is free when it is taken, and the file is read under it.
LEMMA LockOK ==
    ASSUME WorkInv, NEW r \in Run, LockState(r)
    PROVE  WorkInv'
<1> DEFINE y == runs[r]
           path == y.path
           done == DOMAIN chain.executed
           x == [y EXCEPT !.stage = "write", !.content = state_file[path]]
<1>1. Known(r, y) /\ DOMAIN y = RunField /\ y.stage = "lock" /\ lock[path] = NoRun
  BY KnownRun DEF LockState, At
<1>2. /\ runs' = [runs EXCEPT ![r] = x] /\ lock' = [lock EXCEPT ![path] = r]
      /\ UNCHANGED <<world, state_file, ledger, dropped>>
  BY Zenon DEF LockState
<1>3. DOMAIN lock = StatePath /\ DOMAIN runs = Run /\ path \in StatePath
  <2>1. DOMAIN lock = StatePath /\ DOMAIN runs = Run
    BY Zenon DEF WorkInv, StoreOK, RunsOK
  <2>2. path \in StatePath
    BY <1>1, Zenon DEF Known, RunOK
  <2> QED
    BY <2>1, <2>2
<1>4. /\ DOMAIN x = RunField /\ x.stage = "write" /\ x.content = state_file[path]
      /\ x.update = y.update /\ x.path = path
      /\ x.payload = y.payload /\ x.watch = y.watch /\ x.exit = y.exit /\ x.request = y.request
      /\ x.submit = y.submit
  BY <1>1, Zenon DEF RunField, Idle
<1> HIDE DEF x, y
<1>5. RunOK(r, x, requests, done, state_file, lock', dropped)
  BY <1>1, <1>2, <1>3, <1>4, Zenon DEF Known, RunOK, Updating, Unsent, Asked, Uncertain
<1>6. ASSUME NEW q \in Run, q # r
      PROVE  RunOK(q, runs[q], requests, done, state_file, lock', dropped)
  <2> DEFINE z == runs[q]
  <2>1. RunOK(q, z, requests, done, state_file, lock, dropped)
    BY KnownRun DEF Known
  <2> HIDE DEF z
  <2>2. z.stage = "write" => z.path \in StatePath /\ lock[z.path] = q
    BY <2>1, Zenon DEF RunOK
  <2>3. z.stage = "write" => lock'[z.path] = q
    BY <1>1, <1>2, <1>3, <2>2, Limits, Zenon
  <2>4. RunOK(q, z, requests, done, state_file, lock', dropped)
    BY <2>1, <2>3, Zenon DEF RunOK
  <2> QED
    BY <2>4, Zenon DEF z
<1>7. RunsOK'
  <2>1. \A q \in Run : runs'[q] = IF q = r THEN x ELSE runs[q]
    BY <1>2, <1>3
  <2>2. DOMAIN runs' = Run /\ requests' = requests /\ chain' = chain
    BY <1>2, <1>3 DEF world
  <2> QED
    BY <1>2, <1>5, <1>6, <2>1, <2>2, Zenon DEF RunsOK
<1> QED
  BY <1>2, <1>3, <1>7 DEF WorkInv, StoreOK, WorldOK, world

LEMMA AbortOK ==
    ASSUME WorkInv, NEW r \in Run, Abort(r)
    PROVE  WorkInv'
<1> DEFINE y == runs[r]
           done == DOMAIN chain.executed
           x == [y EXCEPT !.stage = "exited", !.exit = "aborted", !.content = EmptyFile]
<1>1. Known(r, y) /\ DOMAIN y = RunField /\ y.stage # "idle"
  BY KnownRun DEF Abort
<1>2. /\ runs' = [runs EXCEPT ![r] = x]
      /\ lock' = [path \in StatePath |-> IF lock[path] = r THEN NoRun ELSE lock[path]]
      /\ UNCHANGED <<now, requests, chain, state_file, ledger, dropped>>
  BY Zenon DEF Abort
<1>3. DOMAIN runs = Run
  BY DEF WorkInv, RunsOK
<1>4. /\ DOMAIN x = RunField /\ x.stage = "exited" /\ x.exit = "aborted" /\ x.path = y.path
      /\ x.payload = y.payload /\ x.watch = y.watch
  BY <1>1, Zenon DEF RunField, Idle
<1> HIDE DEF x, y
<1>5. RunOK(r, x, requests, done, state_file, lock', dropped)
  BY <1>1, <1>4, Zenon DEF Known, RunOK, Updating, Unsent, Asked, Uncertain
<1>6. ASSUME NEW q \in Run, q # r
      PROVE  RunOK(q, runs[q], requests, done, state_file, lock', dropped)
  <2> DEFINE z == runs[q]
  <2>1. RunOK(q, z, requests, done, state_file, lock, dropped)
    BY KnownRun DEF Known
  <2> HIDE DEF z
  <2>2. z.stage = "write" => z.path \in StatePath /\ lock[z.path] = q
    BY <2>1, Zenon DEF RunOK
  <2>3. z.stage = "write" => lock'[z.path] = q
    BY <1>2, <1>6, <2>2
  <2>4. RunOK(q, z, requests, done, state_file, lock', dropped)
    BY <2>1, <2>3 DEF RunOK
  <2> QED
    BY <2>4 DEF z
<1>7. RunsOK'
  <2>1. \A q \in Run : runs'[q] = IF q = r THEN x ELSE runs[q]
    BY <1>2, <1>3
  <2> QED
    BY <1>2, <1>3, <1>5, <1>6, <2>1 DEF RunsOK
<1>8. DOMAIN lock' = StatePath
  BY <1>2
<1> QED
  BY <1>2, <1>7, <1>8, Zenon DEF WorkInv, StoreOK, WorldOK
---------------------------------------------------------------------------
(* The wallet, the chain and time.                                         *)

LEMMA EndRequestOK ==
    ASSUME WorkInv, NEW id \in DOMAIN requests, NEW status, EndRequest(id, status)
    PROVE  WorkInv'
<1>1. /\ requests' = [requests EXCEPT ![id].status = status]
      /\ UNCHANGED <<now, runs, store, chain>>
  BY DEF EndRequest
<1>2. \A i \in DOMAIN requests : DOMAIN requests[i] = {"payload", "status", "expires_at"}
  BY Zenon DEF WorkInv, WorldOK, RequestsOK
<1>3. /\ DOMAIN requests' = DOMAIN requests
      /\ \A i \in DOMAIN requests : /\ DOMAIN requests'[i] = DOMAIN requests[i]
                                     /\ requests'[i].payload = requests[i].payload
  BY <1>1, <1>2
<1>4. WorldOK' /\ Extends(requests, requests')
  BY <1>1, <1>2, <1>3 DEF WorkInv, WorldOK, RequestsOK, Extends
<1>5. now \in Nat
  BY DEF WorkInv, WorldOK
<1> QED
  BY <1>1, <1>4, <1>5, WorldMoves

LEMMA ChainOK ==
    ASSUME WorkInv, UNCHANGED <<now, runs, store, requests>>,
           DOMAIN chain' = {"pool", "executed", "sequence", "funds"},
           DOMAIN chain.executed \subseteq DOMAIN chain'.executed
    PROVE  WorkInv'
<1>1. WorldOK' /\ Extends(requests, requests') /\ now \in Nat
  BY DEF WorkInv, WorldOK, Extends
<1> QED
  BY <1>1, WorldMoves

LEMMA ChainSteps ==
    ASSUME WorkInv, NEW p, Execute(p) \/ Discard(p) \/ StrayArrives(p)
    PROVE  WorkInv'
<1>0. DOMAIN chain = {"pool", "executed", "sequence", "funds"} /\ WorldOK
  BY DEF WorkInv, WorldOK
<1>1. CASE Execute(p)
  <2>1. PICK outcome, funds :
            /\ chain' = [pool |-> chain.pool \ {p}, executed |-> Put(chain.executed, p, outcome),
                         sequence |-> chain.sequence + 1, funds |-> funds]
            /\ UNCHANGED <<now, runs, store, requests>>
    BY <1>1, Zenon DEF Execute
  <2>2. /\ DOMAIN chain' = {"pool", "executed", "sequence", "funds"}
        /\ chain'.executed = Put(chain.executed, p, outcome)
    BY <2>1, Zenon
  <2>3. DOMAIN chain.executed \subseteq DOMAIN chain'.executed
    BY <2>2 DEF Put
  <2> QED
    BY <2>1, <2>2, <2>3, ChainOK, Zenon
<1>2. CASE Discard(p)
  <2>1. chain' = [chain EXCEPT !.pool = @ \ {p}] /\ UNCHANGED <<now, runs, store, requests>>
    BY <1>2 DEF Discard
  <2>2. DOMAIN chain' = DOMAIN chain /\ chain'.executed = chain.executed
    BY <1>0, <2>1
  <2> QED
    BY <1>0, <2>1, <2>2, ChainOK
<1>3. CASE StrayArrives(p)
  <2>1. (Receive(p) \/ UNCHANGED chain) /\ UNCHANGED <<now, runs, store, requests>>
    BY <1>3 DEF StrayArrives
  <2>2. /\ DOMAIN chain' = {"pool", "executed", "sequence", "funds"}
        /\ chain'.executed = chain.executed
    BY <1>0, <2>1, ReceiveOK
  <2> QED
    BY <2>1, <2>2, ChainOK
<1> QED
  BY <1>1, <1>2, <1>3

LEMMA TickOK ==
    ASSUME WorkInv, Tick
    PROVE  WorkInv'
<1>1. now \in Nat /\ now' = now + 1 /\ UNCHANGED <<runs, store, requests, chain>>
  BY DEF WorkInv, WorldOK, Tick
<1>2. WorldOK' /\ Extends(requests, requests') /\ now <= now'
  BY <1>1 DEF WorkInv, WorldOK, Extends
<1> QED
  BY <1>1, <1>2, WorldMoves
---------------------------------------------------------------------------
LEMMA WorkStep == WorkInv /\ [Next]_vars => WorkInv'
<1>1. SUFFICES ASSUME WorkInv, [Next]_vars PROVE WorkInv'
  OBVIOUS
<1>2. ASSUME NEW r \in Run, StartRun(r) PROVE WorkInv'
  BY <1>1, <1>2, StartOK
<1>3. ASSUME NEW r \in Run, RunStep(r) PROVE WorkInv'
  BY <1>1, <1>3, PlainStepOK, PrepareOK, LockOK, WriteOK, CreateOK, CheckOK, ReconcileOK,
     SubmitRefusedOK, SubmitAcceptedOK, SubmitUnknownOK, Zenon DEF RunStep
<1>4. ASSUME NEW r \in Run, Abort(r) PROVE WorkInv'
  BY <1>1, <1>4, AbortOK
<1>5. ASSUME NEW id \in DOMAIN requests, Decide(id) \/ Expire(id) PROVE WorkInv'
  BY <1>1, <1>5, EndRequestOK DEF Decide, Expire
<1>6. ASSUME NEW p, Execute(p) \/ Discard(p) \/ StrayArrives(p) PROVE WorkInv'
  BY <1>1, <1>6, ChainSteps
<1>7. CASE Tick
  BY <1>1, <1>7, TickOK
<1>8. CASE UNCHANGED vars
  BY <1>1, <1>8, Zenon DEF vars, WorkInv, RunsOK, StoreOK, WorldOK
<1> QED
  BY <1>1, <1>2, <1>3, <1>4, <1>5, <1>6, <1>7, <1>8, Zenon DEF Next

LEMMA WorkStart == Init => WorkInv
<1> SUFFICES ASSUME Init PROVE WorkInv
  OBVIOUS
<1>1. WorldOK
  BY DEF Init, WorldOK, RequestsOK
<1>2. FileOK(EmptyFile, now)
  BY FS_EmptySet, Limits DEF FileOK, EmptyFile
<1>3. StoreOK
  BY <1>2, Zenon DEF Init, StoreOK, FilesOK, LedgerOK
<1>4. \A r \in Run : Known(r, Idle)
  BY Zenon DEF Known, RunOK, Idle, RunField, Updating, Unsent, Asked, Uncertain
<1>5. RunsOK
  BY <1>4, Zenon DEF Init, RunsOK, Known
<1> QED
  BY <1>1, <1>3, <1>5 DEF WorkInv

LEMMA WorkInvariant == Spec => []WorkInv
  BY WorkStart, WorkStep, PTL DEF Spec
---------------------------------------------------------------------------
(* What a user can rely on.                                                *)

\* create_sign_request and the exit code: a run goes on only with the signature
\* of its own transaction, even if runs ask in the same second, and reports
\* success only for a transaction on the chain.
THEOREM TransferRunsCorrect == Spec => []RunsAreTruthful
<1>1. WorkInv => SignedIsOwn
  BY Zenon DEF WorkInv, RunsOK, RunOK, Asked, SignedIsOwn, Reached
<1>2. WorkInv => SuccessIsOnChain
  BY Zenon DEF WorkInv, RunsOK, RunOK, SuccessIsOnChain, OnChain
<1> QED
  BY <1>1, <1>2, WorkInvariant, PTL DEF RunsAreTruthful

\* The submission policy: what the state file holds as unknown is watched before
\* it is sent again, and a run that leaves an unknown outcome leaves the record.
THEOREM UnknownOutcomesKept == Spec => []UnknownIsKept
<1>1. WorkInv => UnknownIsReconciledFirst
  BY Zenon DEF WorkInv, RunsOK, RunOK, UnknownIsReconciledFirst, At
<1>2. WorkInv => NothingIsForgotten
  BY Zenon DEF WorkInv, RunsOK, RunOK, Uncertain, Traced, NothingIsForgotten, OnChain
<1> QED
  BY <1>1, <1>2, WorkInvariant, PTL DEF UnknownIsKept

\* Only LockedState.__exit__ writes a state file.
LEMMA OnlyWritesWrite ==
    [Next]_vars => UNCHANGED <<state_file, ledger>> \/ \E r \in Run : WriteState(r)
<1>1. SUFFICES ASSUME [Next]_vars
               PROVE  UNCHANGED <<state_file, ledger>> \/ \E r \in Run : WriteState(r)
  OBVIOUS
<1>2. ASSUME NEW r \in Run, StartRun(r) \/ RunStep(r) \/ Abort(r)
      PROVE  UNCHANGED <<state_file, ledger>> \/ WriteState(r)
  <2>1. CASE \/ StartRun(r) \/ FindWallet(r) \/ PrepareSession(r) \/ CollectPreflight(r)
             \/ Confirm(r) \/ CreateSignRequest(r) \/ PollRequest(r)
    BY <2>1, Zenon DEF StartRun, FindWallet, PrepareSession, CollectPreflight, Confirm,
                       CreateSignRequest, PollRequest, store
  <2>2. CASE \/ CheckUnresolved(r) \/ RequirePrepared(r) \/ Reconcile(r) \/ SubmitRefused(r)
             \/ SubmitAccepted(r) \/ SubmitUnknown(r) \/ SubmitReturns(r) \/ WatchReturns(r)
             \/ Finish(r)
    BY <2>2, Zenon DEF CheckUnresolved, RequirePrepared, Reconcile, SubmitRefused,
                       SubmitAccepted, SubmitUnknown, SubmitReturns, WatchReturns, Finish, store
  <2>3. CASE LockState(r) \/ Abort(r)
    BY <2>3, Zenon DEF LockState, Abort
  <2> QED
    BY <1>2, <2>1, <2>2, <2>3, Zenon DEF RunStep
<1>3. ASSUME NEW id, Decide(id) \/ Expire(id) PROVE UNCHANGED <<state_file, ledger>>
  BY <1>3 DEF Decide, Expire, EndRequest, store
<1>4. ASSUME NEW p, Execute(p) \/ Discard(p) \/ StrayArrives(p)
      PROVE  UNCHANGED <<state_file, ledger>>
  BY <1>4, Zenon DEF Execute, Discard, StrayArrives, store
<1>5. CASE Tick
  BY <1>5 DEF Tick, store
<1>6. CASE UNCHANGED vars
  BY <1>6 DEF vars
<1> QED
  BY <1>1, <1>2, <1>3, <1>4, <1>5, <1>6, Zenon DEF Next

\* LockedState and prune_records: no run's update loses a record that another run
\* made; a record goes when its transaction is on the chain, or from a full file
\* that keeps none older, and a record just made is in the file.
THEOREM RecordsSurvive == Spec => UnresolvedOnlyCleared
<1>1. ASSUME WorkInv, [Next]_vars, NEW path \in StatePath
      PROVE  RecordsStay(path)
  <2>1. CASE UNCHANGED <<state_file, ledger>>
    BY <2>1, Zenon DEF RecordsStay
  <2>2. ASSUME NEW r \in Run, WriteState(r) PROVE RecordsStay(path)
    <3> DEFINE y == runs[r]
    <3>1. y.update \in {"prepared", "unresolved", "clear"}
      BY <1>1, <2>2, WriteFacts, Zenon
    <3>2. PICK file : Writes(r, y.path, y.payload, y.update, file)
      BY <1>1, <2>2, WriteFacts, Zenon
    <3>3. \A p : <<path, p>> \in ledger' \ ledger =>
                     y.update = "unresolved" /\ path = y.path /\ p = y.payload
      BY <2>2, <3>1, Zenon DEF WriteState
    <3> HIDE DEF y
    <3>4. /\ state_file' = [state_file EXCEPT ![y.path] = file]
          /\ DOMAIN state_file = StatePath
      BY <1>1, <3>2, Zenon DEF Writes, WorkInv, StoreOK, FilesOK
    <3>5. CASE path # y.path
      <4>1. state_file'[path] = state_file[path]
        BY <3>4, <3>5
      <4> QED
        BY <3>3, <3>5, <4>1, Zenon DEF RecordsStay
    <3>6. CASE path = y.path
      <4>1. state_file'[path] = file
        BY <3>4, <3>6, Zenon
      <4>2. \A p : <<path, p>> \in ledger' \ ledger => p \in DOMAIN file.unresolved
        BY <3>2, <3>3, <3>6, Zenon DEF Writes
      <4>3. ASSUME NEW p \in DOMAIN state_file[path].unresolved \ DOMAIN file.unresolved
            PROVE  \/ OnChain(p)
                   \/ /\ Cardinality(DOMAIN file.unresolved) = MaxUnresolvedRecords
                      /\ \A q \in DOMAIN file.unresolved \cap DOMAIN state_file[path].unresolved :
                             state_file[path].unresolved[q].recorded_at
                                 >= state_file[path].unresolved[p].recorded_at
        BY <3>1, <3>2, <3>6, <4>3, Zenon DEF Writes, OnChain
      <4> QED
        BY <4>1, <4>2, <4>3, Zenon DEF RecordsStay
    <3> QED
      BY <3>5, <3>6
  <2> QED
    BY <1>1, <2>1, <2>2, OnlyWritesWrite, Zenon
<1>2. WorkInv /\ [Next]_vars => [\A path \in StatePath : RecordsStay(path)]_vars
  BY <1>1
<1> QED
  BY <1>2, WorkInvariant, PTL DEF Spec, UnresolvedOnlyCleared
============================================================================
