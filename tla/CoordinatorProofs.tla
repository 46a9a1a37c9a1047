------------------------- MODULE CoordinatorProofs -------------------------
(***************************************************************************)
(* The coordinator and the registry under it, for any number of wallets,   *)
(* requests and callers and any configuration of TTLs and leases: types,   *)
(* leases, outcomes, finality, and the lifecycle promised to callers.      *)
(*                                                                         *)
(* Every command rewrites each row of the requests table by one of a few   *)
(* row operations, or leaves it alone.  What one operation does to a row   *)
(* is proved once; what a command does is then a matter of which rows it   *)
(* rewrites.                                                               *)
(***************************************************************************)
EXTENDS Coordinator, TLAPS

(* The registry's tables, command by command.                              *)

\* A published snapshot carries a well-typed instance row and account view.
LEMMA SnapshotType ==
    ASSUME NEW s \in Snapshots
    PROVE  /\ s.backend_kind \in BackendKind
           /\ s.capabilities \in SUBSET WalletCapability
           /\ s.lock_state \in LockState
           /\ s.accounts \in [Address -> AccountView]
<1>1. CASE s \in LocalSnapshots
  BY <1>1 DEF LocalSnapshots, BackendKind, WalletCapability, RequestKind
<1>2. CASE s \in ExtensionSnapshots
  BY <1>2 DEF ExtensionSnapshots, BackendKind, ExtensionCapabilities,
     WalletCapability, RequestKind, AccountView
<1> QED
  BY <1>1, <1>2 DEF Snapshots

\* The labelling of new accounts (ensure_local_account_labels) writes rows of
\* the labels table.
LEMMA LabelsType ==
    ASSUME RegistryTypeOK, NEW w \in WalletId, NEW view,
           ensure_local_account_labels(w, view)
    PROVE  labels' \in [WalletId -> [Address -> [order : Nat, label : LabelText]]]
<1> DEFINE new == {a \in Exposed(view) : labels[w][a].order = 0}
<1>1. PICK next \in AccountOrder, position \in Bijection(new, 1 .. Cardinality(new)),
           text \in [new -> LabelText \ {"none"}] :
        /\ next_account_order(w, next)
        /\ labels' = [labels EXCEPT ![w] =
                     [a \in Address |->
                        IF a \in new
                        THEN [order |-> next + position[a] - 1, label |-> text[a]]
                        ELSE labels[w][a]]]
  BY Zenon DEF ensure_local_account_labels
<1>2. next \in Nat /\ next >= 1
  BY DEF AccountOrder
<1>3. \A a \in new : position[a] \in Nat /\ position[a] >= 1
  BY DEF Bijection, Injection
<1>4. \A a \in new : next + position[a] - 1 \in Nat /\ text[a] \in LabelText
  BY <1>2, <1>3
<1> HIDE DEF new
<1>5. ASSUME NEW a \in Address
      PROVE  (IF a \in new
              THEN [order |-> next + position[a] - 1, label |-> text[a]]
              ELSE labels[w][a]) \in [order : Nat, label : LabelText]
  BY <1>4 DEF RegistryTypeOK
<1> QED
  BY <1>1, <1>5 DEF RegistryTypeOK

LEMMA ReplaceAccountsType ==
    ASSUME RegistryTypeOK, NEW w \in WalletId, NEW backend_kind,
           NEW view \in [Address -> AccountView],
           replace_wallet_accounts(w, backend_kind, view)
    PROVE  /\ accounts' \in [WalletId -> [Address -> AccountView]]
           /\ labels' \in [WalletId -> [Address -> [order : Nat, label : LabelText]]]
<1>1. accounts' \in [WalletId -> [Address -> AccountView]]
  BY DEF RegistryTypeOK, replace_wallet_accounts
<1>2. CASE backend_kind = "local_account_dir"
  BY <1>1, <1>2, LabelsType DEF replace_wallet_accounts
<1>3. CASE backend_kind # "local_account_dir"
  BY <1>1, <1>3 DEF RegistryTypeOK, replace_wallet_accounts
<1> QED
  BY <1>2, <1>3

LEMMA RegisteredInstanceType ==
    ASSUME RegistryTypeOK, NEW s \in Snapshots
    PROVE  RegisteredInstance(s) \in Instance
  BY SnapshotType DEF RegistryTypeOK, RegisteredInstance, Instance

\* The tables after each command that writes them; the clock is the caller's.
TablesOK ==
    /\ instances \in [WalletId -> Instance]
    /\ accounts \in [WalletId -> [Address -> AccountView]]
    /\ labels \in [WalletId -> [Address -> [order : Nat, label : LabelText]]]

LEMMA RegisterType ==
    ASSUME RegistryTypeOK, NEW w \in WalletId, NEW s \in Snapshots,
           \/ RegisterBackend(w, s)
           \/ CrashDuringRegister(w, s)
           \/ UpdateBackendAccounts(w, s)
    PROVE  TablesOK'
<1>1. instances' \in [WalletId -> Instance]
  BY RegisteredInstanceType, Zenon
  DEF RegistryTypeOK, RegisterBackend, CrashDuringRegister, UpdateBackendAccounts
<1>2. s.accounts \in [Address -> AccountView]
  BY SnapshotType
<1>3. CASE replace_wallet_accounts(w, s.backend_kind, s.accounts)
  BY <1>1, <1>2, <1>3, ReplaceAccountsType DEF TablesOK
<1>4. CASE UNCHANGED <<accounts, labels>>
  BY <1>1, <1>4 DEF TablesOK, RegistryTypeOK
<1> QED
  BY <1>3, <1>4 DEF RegisterBackend, CrashDuringRegister, UpdateBackendAccounts

LEMMA HeartbeatType ==
    ASSUME RegistryTypeOK, NEW w \in WalletId,
           NEW lock_state \in LockState \cup {"keep"},
           HeartbeatInstance(w, lock_state)
    PROVE  TablesOK'
<1> DEFINE beat == [instances[w] EXCEPT
              !.connected = TRUE, !.last_seen_at = now,
              !.lock_state = IF lock_state = "keep" THEN instances[w].lock_state
                             ELSE lock_state]
<1>1. beat \in Instance
  <2>1. instances[w] \in Instance /\ now \in Nat
    BY Zenon DEF RegistryTypeOK
  <2>2. (IF lock_state = "keep" THEN instances[w].lock_state ELSE lock_state) \in LockState
    BY <2>1, Zenon DEF Instance
  <2> QED
    BY <2>1, <2>2, Zenon DEF Instance
<1>2. instances' \in [WalletId -> Instance]
  <2>1. instances' = [instances EXCEPT ![w] = beat]
    BY DEF HeartbeatInstance
  <2> QED
    BY <1>1, <2>1 DEF RegistryTypeOK
<1> QED
  BY <1>2 DEF RegistryTypeOK, HeartbeatInstance, TablesOK

LEMMA SetLabelType ==
    ASSUME RegistryTypeOK, NEW w \in WalletId, NEW a \in Address, NEW label \in Label,
           SetAccountLabel(w, a, label)
    PROVE  TablesOK'
<1>1. PICK order \in AccountOrder :
        labels' = [labels EXCEPT ![w][a] = [order |-> order, label |-> label]]
  BY Zenon DEF SetAccountLabel
<1>2. order \in Nat /\ label \in LabelText
  BY DEF AccountOrder, LabelText
<1> QED
  BY <1>1, <1>2 DEF RegistryTypeOK, SetAccountLabel, TablesOK

LEMMA MarkStaleType ==
    ASSUME RegistryTypeOK, NEW marked, MarkStale(marked)
    PROVE  instances' \in [WalletId -> Instance]
<1>1. \A w \in WalletId : [instances[w] EXCEPT !.connected = FALSE] \in Instance
  BY Zenon DEF RegistryTypeOK, Instance
<1> QED
  BY <1>1 DEF RegistryTypeOK, MarkStale

LEMMA RegistryTypeStep ==
    ASSUME RegistryTypeOK, [RegistryNext]_<<now, registryVars>>
    PROVE  RegistryTypeOK'
<1>1. ASSUME NEW w \in WalletId, NEW s \in Snapshots,
             \/ RegisterBackend(w, s)
             \/ CrashDuringRegister(w, s)
             \/ UpdateBackendAccounts(w, s),
             UNCHANGED now
      PROVE  RegistryTypeOK'
  BY <1>1, RegisterType DEF RegistryTypeOK, TablesOK
<1>2. ASSUME NEW w \in WalletId, NEW lock_state \in LockState \cup {"keep"},
             HeartbeatInstance(w, lock_state), UNCHANGED now
      PROVE  RegistryTypeOK'
  BY <1>2, HeartbeatType DEF RegistryTypeOK, TablesOK
<1>3. ASSUME NEW w \in WalletId, NEW a \in Address, NEW label \in Label,
             SetAccountLabel(w, a, label), UNCHANGED now
      PROVE  RegistryTypeOK'
  BY <1>3, SetLabelType DEF RegistryTypeOK, TablesOK
<1>4. CASE MarkStale(WalletId) /\ UNCHANGED <<accounts, labels, now>>
  BY <1>4, MarkStaleType DEF RegistryTypeOK
<1>5. CASE AdvanceClock /\ UNCHANGED registryVars
  BY <1>5 DEF RegistryTypeOK, AdvanceClock, registryVars
<1>6. CASE UNCHANGED <<now, registryVars>>
  BY <1>6 DEF RegistryTypeOK, registryVars
<1> QED
  BY <1>1, <1>2, <1>3, <1>4, <1>5, <1>6 DEF RegistryNext, RegistryStep

\* The registry's tables are well typed after any sequence of registrations
\* (finished or not), snapshots, heartbeats, relabellings and sweeps.
THEOREM RegistryTypeCorrect == RegistrySpec => []RegistryTypeOK
<1>1. RegistryInit => RegistryTypeOK
  BY DEF RegistryInit, RegistryTypeOK, Unregistered, Instance, LockState, NoRow,
     LabelText, AccountView
<1> QED
  BY <1>1, RegistryTypeStep, PTL DEF RegistrySpec
----------------------------------------------------------------------------
(* One row of the requests table.                                           *)

\* What every row satisfies, on its own.
RowOK(row) == row \in Request /\ LeasesOf(row) /\ OutcomeOf(row)

Live(row) == row.status \in {"created", "dispatched", "pending_user_approval"}

USE DEF can_transition_to, is_terminal

LEMMA LiveIsNonTerminal ==
    ASSUME NEW row \in Request
    PROVE  Live(row) <=> ~is_terminal(row.status)
  BY DEF Live, Request, RequestStatus

\* A live row has no result and no error: approval, rejection and expiry are
\* the only writers of either.
LEMMA LiveRowIsClean ==
    ASSUME NEW row, RowOK(row), Live(row)
    PROVE  row.result = "none" /\ row.result_expires_at = 0 /\ row.last_error_code = "none"
  BY DEF RowOK, Live, OutcomeOf, Request

\* Giving up both leases leaves a row well formed in any status that holds
\* neither.
LEMMA ReleasedType ==
    ASSUME NEW row \in Request, NEW status \in RequestStatus
    PROVE  /\ Released(row, status) \in Request
           /\ Released(row, status).status = status
           /\ Released(row, status).delivery_lease.id = 0
           /\ Released(row, status).presentation.id = NoPresentation
           /\ Released(row, status).result = row.result
           /\ Released(row, status).kind = row.kind
           /\ Released(row, status).result_expires_at = row.result_expires_at
           /\ Released(row, status).last_error_code = row.last_error_code
  BY Zenon DEF Released, Request, NoDeliveryLease, NoPresentationLease

\* Ending a live row with no result and the error code of its final status.
LEMMA EndedOK ==
    ASSUME NEW row, RowOK(row), Live(row),
           NEW status \in RequestStatus, NEW code \in SharedErrorCode,
           \/ status = "rejected" /\ code = "request_rejected"
           \/ status = "expired" /\ code = "request_expired"
           \/ status = "cancelled" /\ code = "request_cancelled"
           \/ status = "failed" /\ code \in FailureCode
    PROVE  RowOK([Released(row, status) EXCEPT !.last_error_code = code])
<1> DEFINE ended == [Released(row, status) EXCEPT !.last_error_code = code]
<1>1. row \in Request
  BY DEF RowOK
<1>2. ended \in Request
  BY <1>1, ReleasedType DEF Request
<1>3. /\ ended.status = status
      /\ ended.delivery_lease.id = 0
      /\ ended.presentation.id = NoPresentation
      /\ ended.result = "none"
      /\ ended.result_expires_at = 0
      /\ ended.last_error_code = code
  BY <1>1, ReleasedType, LiveRowIsClean DEF Request
<1> HIDE DEF ended
<1>4. LeasesOf(ended) /\ OutcomeOf(ended)
  BY <1>3 DEF LeasesOf, OutcomeOf
<1> QED
  BY <1>2, <1>4 DEF RowOK, ended

\* Each row operation keeps a row well formed.
LEMMA RenewedOK ==
    ASSUME TypeOK, NEW row, RowOK(row), row.status = "pending_user_approval"
    PROVE  RowOK(Renewed(row))
<1>1. now + PresentationLeaseTtl \in Nat
  BY CoordinatorAssumption DEF TypeOK, RegistryTypeOK
<1>2. Renewed(row) \in Request
  BY <1>1 DEF RowOK, Renewed, Request
<1> QED
  BY <1>2 DEF RowOK, Renewed, Request, LeasesOf, OutcomeOf

LEMMA ClaimedOK ==
    ASSUME TypeOK, NEW row, RowOK(row), row.status = "created"
    PROVE  RowOK(Claimed(row))
<1>1. now + DeliveryLeaseTtl \in Nat /\ next_lease_id \in Nat /\ next_lease_id # 0
  BY CoordinatorAssumption DEF TypeOK, RegistryTypeOK
<1>2. Claimed(row) \in Request
  BY <1>1, Zenon DEF RowOK, Claimed, Request, RequestStatus
<1> QED
  BY <1>1, <1>2, LiveRowIsClean DEF RowOK, Claimed, Request, LeasesOf, OutcomeOf, Live

LEMMA PresentedOK ==
    ASSUME TypeOK, NEW row, RowOK(row), NEW id \in PresentationId,
           row.status \in {"dispatched", "pending_user_approval"}
    PROVE  RowOK(Presented(row, id))
<1>1. now + PresentationLeaseTtl \in Nat
  BY CoordinatorAssumption DEF TypeOK, RegistryTypeOK
<1>2. id # NoPresentation
  BY CoordinatorAssumption
<1>3. Presented(row, id) \in Request
  BY <1>1, Zenon DEF RowOK, Presented, Request, RequestStatus, NoDeliveryLease
<1> QED
  BY <1>2, <1>3, LiveRowIsClean
  DEF RowOK, Presented, Request, LeasesOf, OutcomeOf, Live, NoDeliveryLease

LEMMA ExpectedResultType ==
    ASSUME NEW kind \in RequestKind
    PROVE  expected_result_kind(kind) \in ResultKind
  BY DEF RequestKind, ResultKind, expected_result_kind

LEMMA ResolvedOK ==
    ASSUME TypeOK, NEW row, RowOK(row), row.status = "pending_user_approval",
           NEW result, validate_request_result(row, result)
    PROVE  RowOK(Resolved(row, result))
<1>1. now + ResultRetention \in Nat /\ now + ResultRetention # 0
  BY CoordinatorAssumption DEF TypeOK, RegistryTypeOK
<1>2. /\ row \in Request
      /\ result = expected_result_kind(row.kind)
      /\ result \in ResultKind
      /\ result # "none"
  BY ExpectedResultType DEF RowOK, validate_request_result, Request, ResultKind
<1>3. "approved" \in RequestStatus
  BY DEF RequestStatus
<1>4. Resolved(row, result) \in Request
  <2>1. Released(row, "approved") \in Request
    BY <1>2, <1>3, ReleasedType
  <2> QED
    BY <1>1, <1>2, <2>1, Zenon DEF Resolved, Request
<1>5. /\ Resolved(row, result).status = "approved"
      /\ Resolved(row, result).delivery_lease.id = 0
      /\ Resolved(row, result).presentation.id = NoPresentation
      /\ Resolved(row, result).result = result
      /\ Resolved(row, result).kind = row.kind
      /\ Resolved(row, result).result_expires_at = now + ResultRetention
      /\ Resolved(row, result).last_error_code = "none"
  BY <1>2, <1>3, ReleasedType DEF Resolved, Request
<1>6. LeasesOf(Resolved(row, result)) /\ OutcomeOf(Resolved(row, result))
  BY <1>1, <1>2, <1>5 DEF LeasesOf, OutcomeOf
<1> QED
  BY <1>4, <1>6 DEF RowOK

LEMMA CancelledOK ==
    ASSUME NEW row, RowOK(row), Live(row)
    PROVE  RowOK(Cancelled(row))
  BY EndedOK DEF Cancelled, RequestStatus, SharedErrorCode

\* map_reject_reason pairs each final status with the code that explains it.
LEMMA RejectReasonMapped ==
    ASSUME NEW reason \in RejectReasonCode
    PROVE  LET outcome == map_reject_reason(reason)
           IN  /\ outcome.status \in RequestStatus
               /\ outcome.error \in SharedErrorCode
               /\ \/ outcome.status = "rejected" /\ outcome.error = "request_rejected"
                  \/ outcome.status = "expired" /\ outcome.error = "request_expired"
                  \/ outcome.status = "failed" /\ outcome.error \in FailureCode
<1>1. CASE reason \in {"request_rejected", "request_expired"}
  BY <1>1 DEF map_reject_reason, RejectErrorCode, RequestStatus, SharedErrorCode
<1>2. CASE reason \notin {"request_rejected", "request_expired"}
  <2>1. RejectErrorCode(reason) \in FailureCode
    BY <1>2 DEF FailureCode
  <2> QED
    BY <1>2, <2>1 DEF map_reject_reason, RequestStatus, SharedErrorCode
<1> QED
  BY <1>1, <1>2

LEMMA RejectedOK ==
    ASSUME NEW row, RowOK(row), Live(row), NEW reason \in RejectReasonCode
    PROVE  RowOK(Rejected(row, reason))
  BY EndedOK, RejectReasonMapped DEF Rejected

LEMMA ReturnedOK ==
    ASSUME NEW row, RowOK(row), Live(row)
    PROVE  RowOK(Released(row, "created"))
<1>1. row \in Request /\ "created" \in RequestStatus
  BY DEF RowOK, RequestStatus
<1> QED
  BY <1>1, ReleasedType, LiveRowIsClean DEF RowOK, LeasesOf, OutcomeOf

LEMMA SweptOK ==
    ASSUME NEW row, RowOK(row), Live(row)
    PROVE  RowOK(SweptRow(row))
<1>1. RowOK([Released(row, "expired") EXCEPT !.last_error_code = "request_expired"])
  BY EndedOK DEF RequestStatus, SharedErrorCode
<1> QED
  BY <1>1, ReturnedOK DEF SweptRow

LEMMA EvictedOK ==
    ASSUME NEW row, RowOK(row)
    PROVE  RowOK(EvictedRow(row))
<1> DEFINE evicted == [row EXCEPT !.result = "none", !.result_expires_at = 0]
<1>1. CASE EvictedRow(row) = evicted /\ row.result # "none"
  <2>1. evicted \in Request
    BY Zenon DEF RowOK, Request
  <2>2. /\ evicted.status = row.status
        /\ evicted.result = "none"
        /\ evicted.result_expires_at = 0
        /\ evicted.last_error_code = row.last_error_code
        /\ evicted.delivery_lease = row.delivery_lease
        /\ evicted.presentation = row.presentation
    BY DEF RowOK, Request
  <2>3. row.status = "approved" /\ row.last_error_code = "none"
    BY <1>1 DEF RowOK, OutcomeOf
  <2> HIDE DEF evicted
  <2>4. LeasesOf(evicted) /\ OutcomeOf(evicted)
    BY <2>2, <2>3 DEF RowOK, LeasesOf, OutcomeOf
  <2> QED
    BY <1>1, <2>1, <2>4 DEF RowOK
<1> QED
  BY <1>1 DEF EvictedRow
----------------------------------------------------------------------------
(* What a command does to the requests table.                               *)

RowsOK == \A r \in DOMAIN requests : RowOK(requests[r])

\* A row that create_request inserts.
Fresh(row) ==
    /\ RowOK(row)
    /\ row.status = "created"
    /\ row.result = "none"

RowStep(row, next) ==
    \/ next = row
    \/ row.status = "pending_user_approval" /\ next = Renewed(row)
    \/ row.status = "created" /\ next = Claimed(row)
    \/ /\ row.status \in {"dispatched", "pending_user_approval"}
       /\ \E id \in PresentationId : next = Presented(row, id)
    \/ /\ row.status = "pending_user_approval"
       /\ \E result : validate_request_result(row, result) /\ next = Resolved(row, result)
    \/ \E reason \in RejectReasonCode :
          /\ can_transition_to(row.status, map_reject_reason(reason).status)
          /\ next = Rejected(row, reason)
    \/ Live(row) /\ next = Cancelled(row)
    \/ Live(row) /\ next = SweptRow(row)
    \/ next = EvictedRow(row)

RowsStepped ==
    /\ requests' = [r \in DOMAIN requests' |-> requests'[r]]
    /\ DOMAIN requests \subseteq DOMAIN requests'
    /\ DOMAIN requests' \subseteq RequestId
    /\ \A r \in DOMAIN requests' :
          IF r \in DOMAIN requests THEN RowStep(requests[r], requests'[r])
                                   ELSE Fresh(requests'[r])

LEMMA RowStepOK ==
    ASSUME TypeOK, NEW row, NEW next, RowOK(row), RowStep(row, next)
    PROVE  RowOK(next)
<1>1. ASSUME NEW reason \in RejectReasonCode,
             can_transition_to(row.status, map_reject_reason(reason).status),
             next = Rejected(row, reason)
      PROVE  RowOK(next)
  BY <1>1, RejectedOK DEF Live
<1> QED
  BY <1>1, RenewedOK, ClaimedOK, PresentedOK, ResolvedOK, CancelledOK, SweptOK, EvictedOK
  DEF RowStep

\* Most commands write one row, with Put.
LEMMA OneRow ==
    ASSUME TypeOK, NEW r \in DOMAIN requests, NEW row, RowStep(requests[r], row),
           requests' = Put(r, row)
    PROVE  RowsStepped
<1>1. DOMAIN requests' = DOMAIN requests
  BY DEF Put
<1>2. \A x \in DOMAIN requests : requests'[x] = IF x = r THEN row ELSE requests[x]
  BY DEF Put
<1>3. requests' = [x \in DOMAIN requests' |-> requests'[x]]
  BY DEF Put
<1>4. \A x \in DOMAIN requests : RowStep(requests[x], requests'[x])
  BY <1>2 DEF RowStep
<1> QED
  BY <1>1, <1>3, <1>4 DEF RowsStepped, TypeOK

LEMMA UntouchedRows ==
    ASSUME TypeOK, UNCHANGED requests
    PROVE  RowsStepped
  BY DEF RowsStepped, RowStep, TypeOK

LEMMA CreateRows ==
    ASSUME TypeOK, NEW call \in CreateCall, NEW ttl \in TtlInput, CreateRequest(call, ttl)
    PROVE  RowsStepped
<1> DEFINE expires_at == now + clamp_ttl(ttl)
<1>1. PICK w \in WalletId, r \in RequestId \ DOMAIN requests :
        requests' = Put(r,
             [client_request_id  |-> call.client_request_id,
              kind               |-> call.kind,
              wallet_instance_id |-> w,
              account_address    |-> call.account_address,
              payload_hash       |-> calculate_payload_hash(call.kind, call.payload),
              created_at         |-> now,
              expires_at         |-> expires_at,
              status             |-> "created",
              result             |-> "none",
              result_expires_at  |-> 0,
              last_error_code    |-> "none",
              delivery_lease     |-> NoDeliveryLease,
              presentation       |-> NoPresentationLease])
  BY DEF CreateRequest
<1>2. expires_at \in Nat /\ now \in Nat
  BY CoordinatorAssumption DEF TypeOK, RegistryTypeOK, clamp_ttl
<1>3. /\ call.client_request_id \in ClientRequestId
      /\ call.kind \in RequestKind
      /\ call.account_address \in Address \cup {NoAddress}
      /\ calculate_payload_hash(call.kind, call.payload) \in RequestKind \X Payload
  BY CoordinatorAssumption DEF CreateCall, calculate_payload_hash
<1> DEFINE row == requests'[r]
<1> HIDE DEF expires_at
<1>4. /\ DOMAIN requests' = DOMAIN requests \cup {r}
      /\ \A x \in DOMAIN requests : requests'[x] = requests[x]
      /\ requests' = [x \in DOMAIN requests' |-> requests'[x]]
  BY <1>1, Zenon DEF Put
<1>5. row \in Request
  BY <1>1, <1>2, <1>3, Zenon
  DEF Put, Request, RequestStatus, NoDeliveryLease, NoPresentationLease
<1>6. /\ row.status = "created" /\ row.result = "none" /\ row.result_expires_at = 0
      /\ row.last_error_code = "none"
      /\ row.delivery_lease.id = 0 /\ row.presentation.id = NoPresentation
  BY <1>1, Zenon DEF Put, NoDeliveryLease, NoPresentationLease
<1>7. Fresh(row)
  BY <1>5, <1>6 DEF Fresh, RowOK, LeasesOf, OutcomeOf
<1> QED
  BY <1>4, <1>7 DEF RowsStepped, RowStep, TypeOK

LEMMA HeartbeatRows ==
    ASSUME TypeOK, NEW w \in WalletId, NEW lock_state, NEW ids \in SUBSET RequestId,
           HeartbeatBackend(w, lock_state, ids)
    PROVE  RowsStepped
<1>1. /\ DOMAIN requests' = DOMAIN requests
      /\ requests' = [r \in DOMAIN requests' |-> requests'[r]]
  BY DEF HeartbeatBackend
<1>2. \A r \in DOMAIN requests : RowStep(requests[r], requests'[r])
  BY Zenon DEF HeartbeatBackend, RowStep
<1> QED
  BY <1>1, <1>2 DEF RowsStepped, TypeOK

\* A tick that sweeps some live rows and evicts from some rows.  On a live row
\* the eviction finds nothing.
LEMMA TickRows ==
    ASSUME TypeOK, RowsOK, NEW swept \in SUBSET NonTerminal, NEW marked, NEW evicted,
           TickWrites(swept, marked, evicted)
    PROVE  RowsStepped
<1>1. /\ DOMAIN requests' = DOMAIN requests
      /\ requests' = [r \in DOMAIN requests' |-> requests'[r]]
  BY DEF TickWrites
<1>2. ASSUME NEW r \in DOMAIN requests
      PROVE  RowStep(requests[r], requests'[r])
  <2>1. CASE r \in swept
    <3>1. RowOK(requests[r]) /\ Live(requests[r])
      BY <2>1, LiveIsNonTerminal, Zenon DEF RowsOK, NonTerminal, RowOK
    <3>2. RowOK(SweptRow(requests[r]))
      BY <3>1, SweptOK
    <3>3. SweptRow(requests[r]).result = "none"
      BY <3>1, LiveRowIsClean, ReleasedType DEF SweptRow, RowOK, RequestStatus, Request
    <3>4. EvictedRow(SweptRow(requests[r])) = SweptRow(requests[r])
      BY <3>3 DEF EvictedRow
    <3>5. requests'[r] = SweptRow(requests[r])
      BY <2>1, <3>4 DEF TickWrites
    <3> QED
      BY <3>1, <3>5, Zenon DEF RowStep
  <2>2. CASE r \notin swept
    BY <2>2, Zenon DEF TickWrites, RowStep
  <2> QED
    BY <2>1, <2>2
<1> QED
  BY <1>1, <1>2 DEF RowsStepped, TypeOK

\* Every command takes every row by a row step.
LEMMA NextRows ==
    ASSUME TypeOK, RowsOK, [Next]_vars
    PROVE  RowsStepped
<1>1. ASSUME NEW call \in CreateCall, NEW ttl \in TtlInput, CreateRequest(call, ttl)
      PROVE  RowsStepped
  BY <1>1, CreateRows
<1>2. ASSUME NEW call \in CreateCall, ReplayCreateRequest(call)
      PROVE  RowsStepped
  BY <1>2, UntouchedRows, Zenon DEF ReplayCreateRequest
<1>3. ASSUME NEW r \in RequestId, CancelRequest(r)
      PROVE  RowsStepped
  <2>1. RowStep(requests[r], Cancelled(requests[r]))
    BY <1>3, Zenon DEF CancelRequest, RowStep, Live
  <2> QED
    BY <1>3, <2>1, OneRow, Zenon DEF CancelRequest
<1>4. ASSUME NEW w \in WalletId, NEW lock_state, NEW ids \in SUBSET RequestId,
             HeartbeatBackend(w, lock_state, ids)
      PROVE  RowsStepped
  BY <1>4, HeartbeatRows
<1>5. ASSUME NEW w \in WalletId, NEW r \in RequestId, ResumeRequest(w, r)
      PROVE  RowsStepped
  <2>1. r \in DOMAIN requests /\ RowStep(requests[r], Renewed(requests[r]))
    BY <1>5, Zenon DEF ResumeRequest, Oldest, Resumable, Owned, RowStep
  <2> QED
    BY <1>5, <2>1, OneRow, Zenon DEF ResumeRequest
<1>6. ASSUME NEW w \in WalletId, NEW r \in RequestId, ClaimRequest(w, r)
      PROVE  RowsStepped
  <2>1. r \in DOMAIN requests /\ RowStep(requests[r], Claimed(requests[r]))
    BY <1>6, Zenon DEF ClaimRequest, Oldest, Claimable, Owned, RowStep
  <2> QED
    BY <1>6, <2>1, OneRow, Zenon DEF ClaimRequest
<1>7. ASSUME NEW w \in WalletId, NEW r \in RequestId, NEW p \in PresentationId,
             NEW lease, MarkRequestPresented(w, r, p, lease)
      PROVE  RowsStepped
  <2>1. r \in DOMAIN requests /\ RowStep(requests[r], Presented(requests[r], p))
    BY <1>7, Zenon DEF MarkRequestPresented, Owned, RowStep
  <2> QED
    BY <1>7, <2>1, OneRow, Zenon DEF MarkRequestPresented
<1>8. ASSUME NEW w \in WalletId, NEW r \in RequestId, NEW p \in PresentationId,
             NEW result, ResolveRequest(w, r, p, result)
      PROVE  RowsStepped
  <2>1. r \in DOMAIN requests /\ RowStep(requests[r], Resolved(requests[r], result))
    BY <1>8, Zenon DEF ResolveRequest, Owned, RowStep, validate_presentation
  <2> QED
    BY <1>8, <2>1, OneRow, Zenon DEF ResolveRequest
<1>9. ASSUME NEW w \in WalletId, NEW r \in RequestId, NEW p,
             NEW reason \in ReasonInput, RejectRequest(w, r, p, reason)
      PROVE  RowsStepped
  <2>1. r \in DOMAIN requests /\ RowStep(requests[r], Rejected(requests[r], reason))
    BY <1>9, CoordinatorAssumption, Zenon DEF RejectRequest, Owned, RowStep
  <2> QED
    BY <1>9, <2>1, OneRow, Zenon DEF RejectRequest
<1>10. ASSUME NEW swept \in SUBSET NonTerminal, NEW marked, NEW evicted,
              CrashDuringTick(swept, marked, evicted)
       PROVE  RowsStepped
  BY <1>10, TickRows, Zenon DEF CrashDuringTick
<1>11. CASE TickMaintenance
  BY <1>11, TickRows DEF TickMaintenance
<1>12. CASE UNCHANGED requests
  BY <1>12, UntouchedRows
<1> QED
  BY <1>1, <1>2, <1>3, <1>4, <1>5, <1>6, <1>7, <1>8, <1>9, <1>10, <1>11, <1>12, Zenon
  DEF Next, CallerNext, BackendNext, DaemonNext, vars, requestVars
----------------------------------------------------------------------------
(* The type invariant.                                                      *)

LEMMA AcknowledgedType ==
    ASSUME TypeOK, RowsOK, [Next]_vars
    PROVE  /\ acknowledged' \subseteq [call : CreateCall, request_id : RequestId]
           /\ next_lease_id' \in Nat \ {0}
<1>1. ASSUME NEW call \in CreateCall, NEW ttl \in TtlInput, CreateRequest(call, ttl)
      PROVE  acknowledged' \subseteq [call : CreateCall, request_id : RequestId]
  BY <1>1 DEF CreateRequest, Acknowledge, TypeOK
<1>2. ASSUME NEW call \in CreateCall, ReplayCreateRequest(call)
      PROVE  acknowledged' \subseteq [call : CreateCall, request_id : RequestId]
  BY <1>2 DEF ReplayCreateRequest, Acknowledge, WithClientRequestId, TypeOK
<1>3. ASSUME UNCHANGED acknowledged
      PROVE  acknowledged' \subseteq [call : CreateCall, request_id : RequestId]
  BY <1>3, Zenon DEF TypeOK
<1>4. BackendNext =>
          UNCHANGED acknowledged /\ next_lease_id' \in {next_lease_id, next_lease_id + 1}
  BY Zenon
  DEF BackendNext, requestVars, HeartbeatBackend, ResumeRequest, ClaimRequest,
      MarkRequestPresented, ResolveRequest, RejectRequest
<1>5. DaemonNext => UNCHANGED <<acknowledged, next_lease_id>>
  BY Zenon DEF DaemonNext, TickMaintenance, CrashDuringTick, TickWrites
<1>6. CallerNext => /\ acknowledged' \subseteq [call : CreateCall, request_id : RequestId]
                    /\ UNCHANGED next_lease_id
  BY <1>1, <1>2, <1>3, Zenon
  DEF CallerNext, requestVars, CreateRequest, ReplayCreateRequest, CancelRequest
<1>7. acknowledged' \subseteq [call : CreateCall, request_id : RequestId]
  BY <1>3, <1>4, <1>5, <1>6, Zenon DEF Next, vars, requestVars
<1>8. next_lease_id' \in {next_lease_id, next_lease_id + 1}
  BY <1>4, <1>5, <1>6, Zenon DEF Next, vars, requestVars
<1> QED
  BY <1>7, <1>8 DEF TypeOK

LEMMA NextRegistryType ==
    ASSUME TypeOK, [Next]_vars
    PROVE  RegistryTypeOK'
<1>0. RegistryTypeOK
  BY Zenon DEF TypeOK
<1>1. ASSUME NEW w \in WalletId, NEW s \in SnapshotInput,
             \/ RegisterBackend(w, s)
             \/ CrashDuringRegister(w, s)
             \/ UpdateBackendAccounts(w, s),
             UNCHANGED now
      PROVE  RegistryTypeOK'
  BY <1>0, <1>1, RegisterType, CoordinatorAssumption, Zenon DEF RegistryTypeOK, TablesOK
<1>2. ASSUME NEW w \in WalletId, NEW lock_state \in LockState \cup {"keep"},
             NEW ids \in SUBSET RequestId, HeartbeatBackend(w, lock_state, ids)
      PROVE  RegistryTypeOK'
  BY <1>0, <1>2, HeartbeatType, Zenon DEF RegistryTypeOK, TablesOK, HeartbeatBackend
<1>3. ASSUME NEW w \in WalletId, NEW a \in Address, NEW label \in Label,
             SetAccountLabel(w, a, label), UNCHANGED now
      PROVE  RegistryTypeOK'
  BY <1>0, <1>3, SetLabelType, Zenon DEF RegistryTypeOK, TablesOK
<1>4. ASSUME NEW swept, NEW marked, NEW evicted, TickWrites(swept, marked, evicted)
      PROVE  RegistryTypeOK'
  BY <1>0, <1>4, MarkStaleType, Zenon DEF RegistryTypeOK, TickWrites
<1>5. CASE AdvanceClock /\ UNCHANGED <<registryVars, requestVars>>
  BY <1>0, <1>5 DEF RegistryTypeOK, AdvanceClock, registryVars
<1>6. CASE UNCHANGED <<now, instances, accounts, labels>>
  BY <1>0, <1>6 DEF RegistryTypeOK
<1>7. CASE CallerNext
  BY <1>3, <1>6, <1>7, Zenon
  DEF CallerNext, registryVars, CreateRequest, ReplayCreateRequest, CancelRequest
<1>8. CASE BackendNext
  <2>1. ASSUME NEW w, NEW r, NEW p, NEW lease, NEW result, NEW reason,
               \/ ResumeRequest(w, r) \/ ClaimRequest(w, r)
               \/ MarkRequestPresented(w, r, p, lease)
               \/ ResolveRequest(w, r, p, result) \/ RejectRequest(w, r, p, reason)
        PROVE  UNCHANGED <<now, instances, accounts, labels>>
    BY <2>1, Zenon
    DEF registryVars, ResumeRequest, ClaimRequest, MarkRequestPresented, ResolveRequest,
        RejectRequest
  <2> QED
    BY <1>1, <1>2, <1>6, <1>8, <2>1, Zenon DEF BackendNext
<1>9. CASE DaemonNext
  BY <1>4, <1>9, Zenon DEF DaemonNext, TickMaintenance, CrashDuringTick
<1> QED
  BY <1>5, <1>6, <1>7, <1>8, <1>9, Zenon DEF Next, vars, requestVars, registryVars

\* The inductive invariant: types, and every row well formed.  The types alone
\* are not inductive through a tick, which relies on live rows being clean.
TypesAndRows == TypeOK /\ RowsOK

LEMMA TypesAndRowsInit == Init => TypesAndRows
<1> SUFFICES ASSUME Init PROVE TypesAndRows
  OBVIOUS
<1>1. RegistryTypeOK
  BY DEF Init, RegistryInit, RegistryTypeOK, Unregistered, Instance, LockState, NoRow,
     LabelText, AccountView
<1> QED
  BY <1>1 DEF Init, TypesAndRows, TypeOK, RowsOK

LEMMA TypesAndRowsStep == TypesAndRows /\ [Next]_vars => TypesAndRows'
<1> SUFFICES ASSUME TypesAndRows, [Next]_vars PROVE TypesAndRows'
  OBVIOUS
<1> USE DEF TypesAndRows
<1>1. RowsStepped
  BY NextRows
<1>2. RowsOK'
  BY <1>1, RowStepOK DEF RowsStepped, RowsOK, Fresh
<1>3. \A r \in DOMAIN requests' : requests'[r] \in Request
  BY <1>2 DEF RowsOK, RowOK
<1>4. TypeOK'
  BY <1>1, <1>3, NextRegistryType, AcknowledgedType DEF TypeOK, RowsStepped
<1> QED
  BY <1>2, <1>4

LEMMA TypesAndRowsInvariant == Spec => []TypesAndRows
  BY TypesAndRowsInit, TypesAndRowsStep, PTL DEF Spec

\* The daemon's tables are well typed in every reachable state.
THEOREM TypeCorrect == Spec => []TypeOK
<1>1. TypesAndRows => TypeOK
  BY DEF TypesAndRows
<1> QED
  BY <1>1, TypesAndRowsInvariant, PTL

\* A request holds the lease its status calls for and no other, through every
\* claim, presentation, renewal, sweep and crash.
THEOREM LeasesCorrect == Spec => []LeasesMatchStatus
<1>1. TypesAndRows => LeasesMatchStatus
  BY DEF TypesAndRows, RowsOK, RowOK, LeasesMatchStatus
<1> QED
  BY <1>1, TypesAndRowsInvariant, PTL

\* A result is there only for an approved request and is of its kind, and every
\* other end is explained by its error code.
THEOREM OutcomesCorrect == Spec => []OutcomeExplained
<1>1. TypesAndRows => OutcomeExplained
  BY Zenon DEF TypesAndRows, RowsOK, RowOK, OutcomeExplained
<1> QED
  BY <1>1, TypesAndRowsInvariant, PTL
----------------------------------------------------------------------------
(* The coordinator implements the lifecycle promised to callers.            *)

\* No row step touches what a request is: its caller's id, kind, wallet,
\* address, payload and deadlines.
SameIdentity(row, next) ==
    /\ next.client_request_id = row.client_request_id
    /\ next.kind = row.kind
    /\ next.wallet_instance_id = row.wallet_instance_id
    /\ next.account_address = row.account_address
    /\ next.payload_hash = row.payload_hash
    /\ next.created_at = row.created_at
    /\ next.expires_at = row.expires_at

LEMMA RowStepIdentity ==
    ASSUME NEW row \in Request, NEW next, RowStep(row, next)
    PROVE  SameIdentity(row, next)
<1>0. SameIdentity(row, row)
  BY Zenon DEF SameIdentity
<1>1. SameIdentity(row, Renewed(row)) /\ SameIdentity(row, Claimed(row))
  BY DEF Request, SameIdentity, Renewed, Claimed
<1>2. \A id : SameIdentity(row, Presented(row, id))
  BY DEF Request, SameIdentity, Presented
<1>3. \A result : SameIdentity(row, Resolved(row, result))
  BY DEF Request, SameIdentity, Resolved, Released
<1>4. \A reason : SameIdentity(row, Rejected(row, reason))
  BY DEF Request, SameIdentity, Rejected, Released
<1>5. SameIdentity(row, Cancelled(row)) /\ SameIdentity(row, EvictedRow(row))
  BY DEF Request, SameIdentity, Cancelled, Released, EvictedRow
<1>6. SameIdentity(row, SweptRow(row))
  BY DEF Request, SameIdentity, SweptRow, Released
<1> QED
  BY <1>0, <1>1, <1>2, <1>3, <1>4, <1>5, <1>6, Zenon DEF RowStep

Entry(row) == [kind |-> row.kind, owner |-> row.wallet_instance_id,
               phase |-> row.status, result |-> row.result]

\* A final row is changed by nothing but the eviction of its result.
LEMMA FinalRowStep ==
    ASSUME NEW row, RowOK(row), NEW next, RowStep(row, next), ~Live(row)
    PROVE  next \in {row, EvictedRow(row)}
  BY Zenon DEF RowStep, Live

\* A live row moves along the status graph, and has a result exactly if it
\* moves to approved.
LEMMA LiveRowStep ==
    ASSUME TypeOK, NEW row, RowOK(row), NEW next, RowStep(row, next), Live(row)
    PROVE  \/ next.status = row.status /\ next.result = row.result
           \/ /\ can_transition_to(row.status, next.status)
              /\ next.result = IF next.status = "approved"
                               THEN expected_result_kind(row.kind) ELSE "none"
<1> DEFINE Goal(n) ==
             \/ n.status = row.status /\ n.result = row.result
             \/ /\ can_transition_to(row.status, n.status)
                /\ n.result = IF n.status = "approved"
                              THEN expected_result_kind(row.kind) ELSE "none"
<1>1. row \in Request /\ row.result = "none"
  BY LiveRowIsClean DEF RowOK
<1>2. CASE next = row \/ next = EvictedRow(row)
  BY <1>1, <1>2 DEF EvictedRow
<1>3. Goal(Renewed(row))
  BY <1>1 DEF Renewed, Request
<1>4. row.status = "created" => Goal(Claimed(row))
  BY <1>1 DEF Claimed, Request
<1>5. \A id : row.status \in {"dispatched", "pending_user_approval"} =>
        Goal(Presented(row, id))
  BY <1>1 DEF Presented, Request
<1>6. \A result : row.status = "pending_user_approval" /\ validate_request_result(row, result)
        => Goal(Resolved(row, result))
  BY <1>1 DEF Resolved, Released, Request, validate_request_result
<1>7. ASSUME NEW reason \in RejectReasonCode,
             can_transition_to(row.status, map_reject_reason(reason).status)
      PROVE  Goal(Rejected(row, reason))
  <2>1. map_reject_reason(reason).status \in {"rejected", "expired", "failed"}
    BY RejectReasonMapped, Zenon
  <2>2. /\ Rejected(row, reason).status = map_reject_reason(reason).status
        /\ Rejected(row, reason).result = "none"
    BY <1>1 DEF Rejected, Released, Request
  <2> QED
    BY <1>7, <2>1, <2>2, Zenon
<1>8. Goal(Cancelled(row))
  BY <1>1 DEF Cancelled, Released, Request, Live
<1>9. Goal(SweptRow(row))
  BY <1>1 DEF SweptRow, Released, Request, Live, LeaseLapsed
<1> HIDE DEF Goal
<1>10. Goal(next)
  <2>1. CASE next = row \/ next = EvictedRow(row)
    BY <2>1, <1>2, Zenon DEF Goal
  <2> QED
    BY <2>1, <1>3, <1>4, <1>5, <1>6, <1>7, <1>8, <1>9 DEF RowStep
<1> QED
  BY <1>10, Zenon DEF Goal

LEMMA EvictedOnlyWhenDue ==
    ASSUME TypeOK, NEW row, RowOK(row), EvictedRow(row) # row
    PROVE  /\ row.result_expires_at \in 1 .. now
           /\ row.status = "approved" /\ row.result # "none"
           /\ EvictedRow(row) = [row EXCEPT !.result = "none", !.result_expires_at = 0]
  BY DEF EvictedRow, RowOK, Request, OutcomeOf, TypeOK, RegistryTypeOK

\* The book's vocabulary is the coordinator's (both extend RequestTypes).
LEMMA SameVocabulary ==
    /\ \A status, next : Lifecycle!can_transition_to(status, next) <=>
                           can_transition_to(status, next)
    /\ \A kind : Lifecycle!expected_result_kind(kind) = expected_result_kind(kind)
    /\ Lifecycle!RequestKind = RequestKind
    /\ Lifecycle!RequestStatus = RequestStatus
    /\ Lifecycle!ResultKind = ResultKind
  BY DEF Lifecycle!can_transition_to, Lifecycle!expected_result_kind, expected_result_kind,
     Lifecycle!RequestKind, RequestKind, Lifecycle!RequestStatus, RequestStatus,
     Lifecycle!ResultKind, ResultKind

LEMMA RowStepMaps ==
    ASSUME TypeOK, NEW row, RowOK(row), NEW next, RowStep(row, next)
    PROVE  Lifecycle!Step(Entry(row), Entry(next))
<1>1. row \in Request
  BY DEF RowOK
<1>2. next.kind = row.kind /\ next.wallet_instance_id = row.wallet_instance_id
  BY <1>1, RowStepIdentity, Zenon DEF SameIdentity
<1>3. CASE Live(row)
  BY <1>2, <1>3, LiveRowStep, SameVocabulary, Zenon DEF Entry, Lifecycle!Step, Lifecycle!Moves
<1>4. CASE ~Live(row)
  <2>1. CASE next = row
    BY <2>1 DEF Lifecycle!Step
  <2>2. CASE next = EvictedRow(row) /\ next # row
    <3>1. /\ row.status = "approved" /\ row.result # "none"
          /\ next = [row EXCEPT !.result = "none", !.result_expires_at = 0]
      BY <2>2, EvictedOnlyWhenDue, Zenon
    <3>2. next.status = "approved" /\ next.result = "none"
      BY <1>1, <3>1 DEF Request
    <3> QED
      BY <1>2, <3>1, <3>2 DEF Entry, Lifecycle!Step, Lifecycle!Evicted
  <2> QED
    BY <1>4, <2>1, <2>2, FinalRowStep
<1> QED
  BY <1>3, <1>4

\* Final rows are final: requests are never forgotten or rerouted, and once a
\* request has ended only the eviction of its result, when due, touches it.
THEOREM FinalityCorrect == Spec => FinalIsFinal
<1>1. TypesAndRows /\ [Next]_vars =>
        [\A r \in DOMAIN requests :
          /\ r \in DOMAIN requests'
          /\ LET row == requests[r]
                 next == requests'[r]
             IN  /\ row.wallet_instance_id = next.wallet_instance_id
                 /\ row.expires_at = next.expires_at
                 /\ is_terminal(row.status) /\ next # row =>
                       /\ row.result_expires_at \in 1 .. now
                       /\ next = [row EXCEPT !.result = "none",
                                             !.result_expires_at = 0]]_requests
  <2> SUFFICES ASSUME TypesAndRows, [Next]_vars, NEW r \in DOMAIN requests
               PROVE  /\ r \in DOMAIN requests'
                      /\ requests[r].wallet_instance_id = requests'[r].wallet_instance_id
                      /\ requests[r].expires_at = requests'[r].expires_at
                      /\ is_terminal(requests[r].status) /\ requests'[r] # requests[r] =>
                           /\ requests[r].result_expires_at \in 1 .. now
                           /\ requests'[r] = [requests[r] EXCEPT !.result = "none",
                                                                 !.result_expires_at = 0]
    BY Zenon
  <2>1. RowOK(requests[r]) /\ requests[r] \in Request
    BY DEF TypesAndRows, RowsOK, RowOK
  <2>2. r \in DOMAIN requests' /\ RowStep(requests[r], requests'[r])
    BY NextRows DEF TypesAndRows, RowsStepped
  <2>3. SameIdentity(requests[r], requests'[r])
    BY <2>1, <2>2, RowStepIdentity, Zenon
  <2>4. ASSUME is_terminal(requests[r].status), requests'[r] # requests[r]
        PROVE  requests'[r] = EvictedRow(requests[r])
    BY <2>1, <2>2, <2>4, LiveIsNonTerminal, FinalRowStep, Zenon
  <2> QED
    BY <2>1, <2>2, <2>3, <2>4, EvictedOnlyWhenDue, Zenon DEF SameIdentity, TypesAndRows
<1> QED
  BY <1>1, TypesAndRowsInvariant, PTL DEF Spec, FinalIsFinal

\* The coordinator implements the request lifecycle: its initial state is the
\* empty book, and every command of it is a step of the book or leaves the book
\* as it is.
THEOREM Refinement == Spec => ImplementsLifecycle
<1>1. Init => Lifecycle!Init
  BY Zenon DEF Init, Lifecycle!Init
<1>2. TypesAndRows /\ [Next]_vars =>
        [Lifecycle!Next]_[r \in DOMAIN requests |->
                            [kind   |-> requests[r].kind,
                             owner  |-> requests[r].wallet_instance_id,
                             phase  |-> requests[r].status,
                             result |-> requests[r].result]]
  <2> SUFFICES ASSUME TypesAndRows, [Next]_vars PROVE Lifecycle!Next
    BY Zenon
  <2>1. RowsStepped
    BY NextRows DEF TypesAndRows
  <2>2. ASSUME NEW r \in DOMAIN requests
        PROVE  Lifecycle!Step(Entry(requests[r]), Entry(requests'[r]))
    BY <2>1, RowStepMaps, Zenon DEF TypesAndRows, RowsOK, RowsStepped
  <2>3. ASSUME NEW r \in DOMAIN requests', r \notin DOMAIN requests
        PROVE  Lifecycle!Accepted(Entry(requests'[r]))
    BY <2>1, <2>3, SameVocabulary, Zenon
    DEF RowsStepped, Fresh, RowOK, Entry, Lifecycle!Accepted, Lifecycle!Entry, Request
  <2> QED
    BY <2>1, <2>2, <2>3, Zenon DEF RowsStepped, Entry, Lifecycle!Next
<1> QED
  BY <1>1, <1>2, TypesAndRowsInvariant, PTL DEF Spec, ImplementsLifecycle, Lifecycle!Spec
----------------------------------------------------------------------------
(* What a command does to what is presented on a wallet, and approved.      *)

\* Only requests in back come to be presented, and only those in won approved.
Effect(w, back, won) ==
    /\ Resumable(w)' \subseteq Resumable(w) \cup back
    /\ \A r \in DOMAIN requests' :
          requests'[r].status = "approved" =>
              r \in won \/ (r \in DOMAIN requests /\ requests[r].status = "approved")

\* Most commands write one row.
LEMMA PutEffect ==
    ASSUME NEW w, NEW r \in DOMAIN requests, NEW row, requests' = Put(r, row), now' = now,
           row.wallet_instance_id = requests[r].wallet_instance_id,
           NEW back, NEW won,
           row.status = "pending_user_approval" => r \in Resumable(w) \cup back,
           row.status = "approved" => r \in won
    PROVE  Effect(w, back, won)
<1>1. /\ DOMAIN requests' = DOMAIN requests
      /\ \A x \in DOMAIN requests : requests'[x] = IF x = r THEN row ELSE requests[x]
  BY DEF Put
<1>2. ASSUME NEW x \in Resumable(w)' PROVE x \in Resumable(w) \cup back
  <2>1. CASE x = r
    BY <1>1, <1>2, <2>1, Zenon DEF Resumable, Owned
  <2>2. CASE x # r
    BY <1>1, <1>2, <2>2, Zenon DEF Resumable, Owned
  <2> QED
    BY <2>1, <2>2, Zenon
<1> QED
  BY <1>1, <1>2, Zenon DEF Effect

\* Commands that leave the requests alone.
LEMMA NoEffect ==
    ASSUME NEW w, UNCHANGED <<requests, now>>
    PROVE  Effect(w, {}, {})
  BY Zenon DEF Effect, Resumable, Owned

LEMMA ClockEffect ==
    ASSUME NEW w, TypesAndRows, AdvanceClock, UNCHANGED requests
    PROVE  Effect(w, {}, {})
<1>1. now \in Nat /\ \A r \in DOMAIN requests : requests[r].presentation.expires_at \in Nat
  BY Zenon DEF TypesAndRows, TypeOK, RegistryTypeOK, RowsOK, RowOK, Request
<1> QED
  BY <1>1 DEF AdvanceClock, Effect, Resumable, Owned

\* A create call adds a row, and the row is neither shown nor approved.
LEMMA NewRowEffect ==
    ASSUME NEW w, NEW r \in RequestId \ DOMAIN requests, NEW row, requests' = Put(r, row),
           row.status = "created", now' = now
    PROVE  Effect(w, {}, {})
<1>1. /\ DOMAIN requests' = DOMAIN requests \cup {r}
      /\ \A x \in DOMAIN requests : requests'[x] = requests[x]
      /\ requests'[r].status = "created"
  BY DEF Put
<1> QED
  BY <1>1, Zenon DEF Effect, Resumable, Owned

LEMMA CreateEffect ==
    ASSUME NEW w, NEW call, NEW ttl, CreateRequest(call, ttl)
    PROVE  Effect(w, {}, {})
  BY NewRowEffect, Zenon DEF CreateRequest

LEMMA CancelEffect ==
    ASSUME NEW w, TypesAndRows, NEW r, CancelRequest(r)
    PROVE  Effect(w, {}, {})
<1>1. /\ r \in DOMAIN requests /\ requests' = Put(r, Cancelled(requests[r])) /\ now' = now
      /\ requests[r] \in Request
  BY Zenon DEF CancelRequest, TypesAndRows, RowsOK, RowOK
<1>2. /\ Cancelled(requests[r]).status = "cancelled"
      /\ Cancelled(requests[r]).wallet_instance_id = requests[r].wallet_instance_id
  BY <1>1, Zenon DEF Cancelled, Released, Request
<1> QED
  BY <1>1, <1>2, PutEffect, Zenon

LEMMA HeartbeatEffect ==
    ASSUME NEW w, TypesAndRows, NEW lock_state, NEW ids,
           HeartbeatBackend(w, lock_state, ids)
    PROVE  Effect(w, {r \in ids \cap DOMAIN requests :
                      requests[r].status = "pending_user_approval"}, {})
<1>1. /\ DOMAIN requests' = DOMAIN requests /\ now' = now
      /\ \A r \in DOMAIN requests : requests[r] \in Request
  BY Zenon DEF HeartbeatBackend, TypesAndRows, RowsOK, RowOK
<1>2. ASSUME NEW r \in DOMAIN requests
      PROVE  \/ requests'[r] = requests[r]
             \/ /\ r \in ids /\ requests[r].status = "pending_user_approval"
                /\ requests'[r].status = "pending_user_approval"
  <2>1. \/ requests'[r] = requests[r]
        \/ /\ r \in ids /\ requests[r].status = "pending_user_approval"
           /\ requests'[r] = Renewed(requests[r])
    BY Zenon DEF HeartbeatBackend
  <2>2. Renewed(requests[r]).status = requests[r].status
    BY <1>1, Zenon DEF Renewed, Request
  <2> QED
    BY <2>1, <2>2, Zenon
<1> QED
  BY <1>1, <1>2, Zenon DEF Effect, Resumable, Owned

LEMMA ResumeEffect ==
    ASSUME NEW w, TypesAndRows, NEW r, ResumeRequest(w, r)
    PROVE  Effect(w, {}, {})
<1>1. /\ r \in Resumable(w) /\ r \in DOMAIN requests
      /\ requests' = Put(r, Renewed(requests[r])) /\ now' = now
      /\ requests[r] \in Request /\ requests[r].status = "pending_user_approval"
  BY Zenon DEF ResumeRequest, Oldest, Resumable, Owned, TypesAndRows, RowsOK, RowOK
<1>2. /\ Renewed(requests[r]).status = "pending_user_approval"
      /\ Renewed(requests[r]).wallet_instance_id = requests[r].wallet_instance_id
  BY <1>1, Zenon DEF Renewed, Request
<1> QED
  BY <1>1, <1>2, PutEffect, Zenon

LEMMA ClaimEffect ==
    ASSUME NEW w, TypesAndRows, NEW r, ClaimRequest(w, r)
    PROVE  Effect(w, {}, {})
<1>1. /\ r \in DOMAIN requests /\ requests' = Put(r, Claimed(requests[r])) /\ now' = now
      /\ requests[r] \in Request
  BY Zenon DEF ClaimRequest, Oldest, Claimable, Owned, TypesAndRows, RowsOK, RowOK
<1>2. /\ Claimed(requests[r]).status = "dispatched"
      /\ Claimed(requests[r]).wallet_instance_id = requests[r].wallet_instance_id
  BY <1>1, Zenon DEF Claimed, Request
<1> QED
  BY <1>1, <1>2, PutEffect, Zenon

LEMMA PresentedEffect ==
    ASSUME NEW w, TypesAndRows, NEW r, NEW p, NEW lease, MarkRequestPresented(w, r, p, lease)
    PROVE  Effect(w, {r}, {})
<1>1. /\ r \in DOMAIN requests /\ requests' = Put(r, Presented(requests[r], p)) /\ now' = now
      /\ requests[r] \in Request
  BY Zenon DEF MarkRequestPresented, Owned, TypesAndRows, RowsOK, RowOK
<1>2. /\ Presented(requests[r], p).status = "pending_user_approval"
      /\ Presented(requests[r], p).wallet_instance_id = requests[r].wallet_instance_id
  BY <1>1 DEF Presented, Request
<1> QED
  BY <1>1, <1>2, PutEffect, Zenon

\* An answer ends the request.
LEMMA ResolveEffect ==
    ASSUME NEW w, TypesAndRows, NEW r, NEW p, NEW result, ResolveRequest(w, r, p, result)
    PROVE  Effect(w, {}, {r}) /\ is_terminal(requests'[r].status)
<1>1. /\ r \in DOMAIN requests /\ requests' = Put(r, Resolved(requests[r], result))
      /\ now' = now /\ requests[r] \in Request
  BY Zenon DEF ResolveRequest, Owned, TypesAndRows, RowsOK, RowOK
<1>2. /\ Resolved(requests[r], result).status = "approved"
      /\ Resolved(requests[r], result).wallet_instance_id = requests[r].wallet_instance_id
  BY <1>1 DEF Resolved, Released, Request
<1>3. requests'[r].status = "approved"
  BY <1>1, <1>2, Zenon DEF Put
<1>4. Effect(w, {}, {r})
  BY <1>1, <1>2, PutEffect, Zenon
<1> QED
  BY <1>3, <1>4, Zenon DEF is_terminal

LEMMA RejectEffect ==
    ASSUME NEW w, TypesAndRows, NEW r, NEW p, NEW reason \in RejectReasonCode,
           RejectRequest(w, r, p, reason)
    PROVE  Effect(w, {}, {}) /\ is_terminal(requests'[r].status)
<1>1. /\ r \in DOMAIN requests /\ requests' = Put(r, Rejected(requests[r], reason))
      /\ now' = now /\ requests[r] \in Request
  BY Zenon DEF RejectRequest, Owned, TypesAndRows, RowsOK, RowOK
<1>2. map_reject_reason(reason).status \in {"rejected", "expired", "failed"}
  BY DEF map_reject_reason
<1>3. /\ Rejected(requests[r], reason).status = map_reject_reason(reason).status
      /\ Rejected(requests[r], reason).wallet_instance_id = requests[r].wallet_instance_id
  BY <1>1, Zenon DEF Rejected, Released, Request
<1>4. requests'[r].status = map_reject_reason(reason).status
  BY <1>1, <1>3, Zenon DEF Put
<1>5. Effect(w, {}, {})
  BY <1>1, <1>2, <1>3, PutEffect, Zenon
<1> QED
  BY <1>2, <1>4, <1>5, Zenon DEF is_terminal

LEMMA TickEffect ==
    ASSUME NEW w, TypesAndRows, TickMaintenance
    PROVE  Effect(w, {}, {})
<1>1. /\ DOMAIN requests' = DOMAIN requests /\ now' = now
      /\ \A r \in DOMAIN requests : requests[r] \in Request
  BY Zenon DEF TickMaintenance, TickWrites, TypesAndRows, RowsOK, RowOK
<1>2. ASSUME NEW r \in DOMAIN requests
      PROVE  \/ /\ requests'[r].status = requests[r].status
                /\ requests'[r].presentation = requests[r].presentation
                /\ requests'[r].wallet_instance_id = requests[r].wallet_instance_id
             \/ requests'[r].status \in {"created", "expired"}
  <2> DEFINE row == IF r \in NonTerminal THEN SweptRow(requests[r]) ELSE requests[r]
  <2>1. requests'[r] = EvictedRow(row)
    BY Zenon DEF TickMaintenance, TickWrites
  <2>2. row = requests[r] \/ row = SweptRow(requests[r])
    OBVIOUS
  <2>3. row \in Request /\ (row = requests[r] \/ row.status \in {"created", "expired"})
    <3>1. Released(requests[r], "created") \in Request
          /\ Released(requests[r], "created").status = "created"
          /\ Released(requests[r], "expired") \in Request
          /\ Released(requests[r], "expired").status = "expired"
      BY <1>1, ReleasedType, Zenon DEF RequestStatus
    <3>2. [Released(requests[r], "expired") EXCEPT !.last_error_code = "request_expired"]
              \in {q \in Request : q.status = "expired"}
      BY <3>1 DEF Request, SharedErrorCode
    <3> QED
      BY <1>1, <2>2, <3>1, <3>2 DEF SweptRow
  <2> HIDE DEF row
  <2>4. /\ EvictedRow(row).status = row.status
        /\ EvictedRow(row).presentation = row.presentation
        /\ EvictedRow(row).wallet_instance_id = row.wallet_instance_id
    BY <2>3 DEF EvictedRow, Request
  <2> QED
    BY <2>1, <2>3, <2>4, Zenon
<1> QED
  BY <1>1, <1>2, Zenon DEF Effect, Resumable, Owned

\* What every command leaves as it was: a request keeps its wallet, and an ended
\* one its status.
LEMMA OldRows ==
    ASSUME TypesAndRows, [Next]_vars
    PROVE  /\ DOMAIN requests \subseteq DOMAIN requests'
           /\ \A r \in DOMAIN requests :
                 /\ requests'[r].wallet_instance_id = requests[r].wallet_instance_id
                 /\ is_terminal(requests[r].status) =>
                        requests'[r].status = requests[r].status
           /\ \A w : Owned(w) \subseteq Owned(w)'
<1>1. RowsStepped
  BY NextRows DEF TypesAndRows
<1>2. ASSUME NEW r \in DOMAIN requests
      PROVE  /\ r \in DOMAIN requests'
             /\ requests'[r].wallet_instance_id = requests[r].wallet_instance_id
             /\ is_terminal(requests[r].status) =>
                    requests'[r].status = requests[r].status
  <2>1. r \in DOMAIN requests' /\ RowStep(requests[r], requests'[r])
    BY <1>1 DEF RowsStepped
  <2>2. RowOK(requests[r]) /\ requests[r] \in Request
    BY DEF TypesAndRows, RowsOK, RowOK
  <2>3. requests'[r].wallet_instance_id = requests[r].wallet_instance_id
    BY <2>1, <2>2, RowStepIdentity, Zenon DEF SameIdentity
  <2>4. ASSUME is_terminal(requests[r].status)
        PROVE  requests'[r].status = requests[r].status
    <3>1. requests'[r] \in {requests[r], EvictedRow(requests[r])}
      BY <2>1, <2>2, <2>4, LiveIsNonTerminal, FinalRowStep, Zenon
    <3>2. EvictedRow(requests[r]).status = requests[r].status
      BY <2>2 DEF EvictedRow, Request
    <3> QED
      BY <3>1, <3>2
  <2> QED
    BY <2>1, <2>3, <2>4, Zenon
<1> QED
  BY <1>2, Zenon DEF Owned
============================================================================
