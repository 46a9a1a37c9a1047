---------------------------- MODULE DaemonProofs ----------------------------
(***************************************************************************)
(* What else holds of the daemon for every value of the constants: who may *)
(* own a request, retried creation, lifetimes and the maintenance sweep,   *)
(* then what the registry keeps across snapshots and what its queries say, *)
(* and that the server in front of the coordinator adds nothing to it.     *)
(***************************************************************************)
EXTENDS CoordinatorProofs, WalletQueries, DaemonServer, WellFoundedInduction

(* Ownership.                                                               *)

\* What a wallet advertises fits the backend kind it registered with.
CapabilitiesFitKind ==
    \A w \in WalletId :
        /\ instances[w].backend_kind = "unregistered" => instances[w].capabilities = {}
        /\ instances[w].backend_kind = "starmask_extension" =>
               instances[w].capabilities = ExtensionCapabilities

\* A step of the registry as seen by request owners: a registered wallet keeps
\* its kind.
KindsKept ==
    \A w \in WalletId : Registered(w) => instances'[w].backend_kind = instances[w].backend_kind

LEMMA RegisterKeepsKinds ==
    ASSUME TypeOK, CapabilitiesFitKind, NEW w \in WalletId, NEW s \in Snapshots,
           KindMayRegister(w, s),
           instances' = [instances EXCEPT ![w] = RegisteredInstance(s)]
    PROVE  CapabilitiesFitKind' /\ KindsKept
<1>1. /\ s.backend_kind \in BackendKind
      /\ s.backend_kind = "starmask_extension" => s.capabilities = ExtensionCapabilities
  BY SnapshotType, Zenon DEF Snapshots, LocalSnapshots, ExtensionSnapshots
<1>2. \A v \in WalletId : instances'[v] = IF v = w THEN RegisteredInstance(s) ELSE instances[v]
  BY DEF TypeOK, RegistryTypeOK
<1>3. CapabilitiesFitKind'
  BY <1>1, <1>2 DEF CapabilitiesFitKind, RegisteredInstance, BackendKind
<1>4. KindsKept
  BY <1>2 DEF KindsKept, Registered, KindMayRegister, RegisteredInstance
<1> QED
  BY <1>3, <1>4

\* Every command keeps them.
LEMMA NextKeepsKinds ==
    ASSUME TypeOK, CapabilitiesFitKind, [Next]_vars
    PROVE  CapabilitiesFitKind' /\ KindsKept
<1>1. ASSUME NEW w \in WalletId, NEW s \in SnapshotInput,
             \/ RegisterBackend(w, s)
             \/ CrashDuringRegister(w, s)
             \/ UpdateBackendAccounts(w, s)
      PROVE  CapabilitiesFitKind' /\ KindsKept
  BY <1>1, RegisterKeepsKinds, CoordinatorAssumption
  DEF RegisterBackend, CrashDuringRegister, UpdateBackendAccounts, KindMayRegister
<1>2. ASSUME NEW w \in WalletId, NEW lock_state, HeartbeatInstance(w, lock_state)
      PROVE  CapabilitiesFitKind' /\ KindsKept
  <2>1. \A v \in WalletId : /\ instances'[v].backend_kind = instances[v].backend_kind
                            /\ instances'[v].capabilities = instances[v].capabilities
    BY <1>2 DEF HeartbeatInstance, TypeOK, RegistryTypeOK, Instance
  <2> QED
    BY <2>1 DEF CapabilitiesFitKind, KindsKept
<1>3. ASSUME NEW marked, MarkStale(marked)
      PROVE  CapabilitiesFitKind' /\ KindsKept
  <2>1. \A v \in WalletId : /\ instances'[v].backend_kind = instances[v].backend_kind
                            /\ instances'[v].capabilities = instances[v].capabilities
    BY <1>3 DEF MarkStale, TypeOK, RegistryTypeOK, Instance
  <2> QED
    BY <2>1 DEF CapabilitiesFitKind, KindsKept
<1>4. CASE UNCHANGED instances
  BY <1>4 DEF CapabilitiesFitKind, KindsKept
<1>5. CASE CallerNext
  BY <1>4, <1>5, Zenon
  DEF CallerNext, registryVars, CreateRequest, ReplayCreateRequest, CancelRequest,
      SetAccountLabel
<1>6. CASE BackendNext
  <2>1. ASSUME NEW w \in WalletId, NEW lock_state, NEW ids, HeartbeatBackend(w, lock_state, ids)
        PROVE  CapabilitiesFitKind' /\ KindsKept
    BY <1>2, <2>1, Zenon DEF HeartbeatBackend
  <2> QED
    BY <1>1, <1>4, <1>6, <2>1, Zenon
    DEF BackendNext, registryVars, ResumeRequest, ClaimRequest, MarkRequestPresented,
        ResolveRequest, RejectRequest
<1>7. CASE DaemonNext
  BY <1>3, <1>7, Zenon DEF DaemonNext, TickMaintenance, CrashDuringTick, TickWrites
<1> QED
  BY <1>4, <1>5, <1>6, <1>7, Zenon DEF Next, vars, registryVars

\* The wallet that routing selects can serve the kind.
LEMMA RoutedToCapable ==
    ASSUME TypeOK, CapabilitiesFitKind, NEW kind \in RequestKind, NEW address, NEW wallet,
           NEW w \in WalletId, resolve_wallet_for_request(kind, address, wallet, w)
    PROVE  \/ instances[w].backend_kind = "local_account_dir"
           \/ /\ instances[w].backend_kind = "starmask_extension"
              /\ kind \in ExtensionCapabilities
<1>1. kind \in instances[w].capabilities
  BY DEF resolve_wallet_for_request, resolve_wallet_for_signing, capability_for_request
<1>2. instances[w].backend_kind \in {"unregistered", "starmask_extension", "local_account_dir"}
  BY DEF TypeOK, RegistryTypeOK, Instance, BackendKind
<1> QED
  BY <1>1, <1>2, Zenon DEF CapabilitiesFitKind

\* What create_request inserts, for whom, and what it answers.
Inserted(call, ttl, w, r) ==
    /\ resolve_wallet_for_request(call.kind, call.account_address, call.wallet, w)
    /\ DOMAIN requests' = DOMAIN requests \cup {r}
    /\ \A x \in DOMAIN requests : requests'[x] = requests[x]
    /\ requests'[r].client_request_id = call.client_request_id
    /\ requests'[r].kind = call.kind
    /\ requests'[r].wallet_instance_id = w
    /\ requests'[r].account_address = call.account_address
    /\ requests'[r].payload_hash = <<call.kind, call.payload>>
    /\ requests'[r].created_at = now
    /\ requests'[r].expires_at = now + clamp_ttl(ttl)
    /\ acknowledged' = acknowledged \cup {[call |-> call, request_id |-> r]}

LEMMA CreatedRow ==
    ASSUME NEW call, NEW ttl, CreateRequest(call, ttl)
    PROVE  \E w \in WalletId, r \in RequestId \ DOMAIN requests : Inserted(call, ttl, w, r)
<1>1. PICK w \in WalletId, r \in RequestId \ DOMAIN requests :
             /\ resolve_wallet_for_request(call.kind, call.account_address, call.wallet, w)
             /\ requests' = Put(r,
                  [client_request_id  |-> call.client_request_id,
                   kind               |-> call.kind,
                   wallet_instance_id |-> w,
                   account_address    |-> call.account_address,
                   payload_hash       |-> calculate_payload_hash(call.kind, call.payload),
                   created_at         |-> now,
                   expires_at         |-> now + clamp_ttl(ttl),
                   status             |-> "created",
                   result             |-> "none",
                   result_expires_at  |-> 0,
                   last_error_code    |-> "none",
                   delivery_lease     |-> NoDeliveryLease,
                   presentation       |-> NoPresentationLease])
             /\ Acknowledge(call, r)
  BY Zenon DEF CreateRequest
<1> QED
  BY <1>1, Zenon DEF Inserted, Put, Acknowledge, calculate_payload_hash

\* Nothing else inserts a row or gives such an answer, but a replay.
LEMMA OnlyCreateInserts ==
    ASSUME [Next]_vars
    PROVE  \/ \E call \in CreateCall, ttl \in TtlInput : CreateRequest(call, ttl)
           \/ \E call \in CreateCall : ReplayCreateRequest(call)
           \/ DOMAIN requests' = DOMAIN requests /\ UNCHANGED acknowledged
<1> DEFINE Quiet == DOMAIN requests' = DOMAIN requests /\ UNCHANGED acknowledged
<1>1. ASSUME NEW r \in DOMAIN requests, NEW row, requests' = Put(r, row)
      PROVE  DOMAIN requests' = DOMAIN requests
  BY <1>1 DEF Put
<1>2. ASSUME NEW r \in RequestId, CancelRequest(r) PROVE Quiet
  BY <1>2, <1>1, Zenon DEF CancelRequest
<1>3. ASSUME NEW w \in WalletId, NEW lock_state, NEW ids, HeartbeatBackend(w, lock_state, ids)
      PROVE  Quiet
  BY <1>3, Zenon DEF HeartbeatBackend
<1>4. ASSUME NEW w \in WalletId, NEW r \in RequestId, ResumeRequest(w, r) \/ ClaimRequest(w, r)
      PROVE  Quiet
  <2>1. r \in DOMAIN requests
    BY <1>4, Zenon DEF ResumeRequest, ClaimRequest, Oldest, Resumable, Claimable, Owned
  <2> QED
    BY <1>4, <1>1, <2>1, Zenon DEF ResumeRequest, ClaimRequest
<1>5. ASSUME NEW w \in WalletId, NEW r \in RequestId, NEW p, NEW x,
             \/ MarkRequestPresented(w, r, p, x)
             \/ ResolveRequest(w, r, p, x)
             \/ RejectRequest(w, r, p, x)
      PROVE  Quiet
  <2>1. r \in DOMAIN requests
    BY <1>5, Zenon DEF MarkRequestPresented, ResolveRequest, RejectRequest, Owned
  <2> QED
    BY <1>5, <1>1, <2>1, Zenon DEF MarkRequestPresented, ResolveRequest, RejectRequest
<1>6. ASSUME NEW swept, NEW marked, NEW evicted, TickWrites(swept, marked, evicted)
      PROVE  Quiet
  BY <1>6 DEF TickWrites
<1>7. CASE UNCHANGED <<requests, acknowledged>>
  BY <1>7
<1>8. CASE CallerNext
  BY <1>2, <1>7, <1>8 DEF CallerNext, requestVars
<1>9. CASE BackendNext
  BY <1>3, <1>4, <1>5, <1>7, <1>9, Zenon DEF BackendNext, requestVars
<1>10. CASE DaemonNext
  BY <1>6, <1>10, Zenon DEF DaemonNext, TickMaintenance, CrashDuringTick
<1> QED
  BY <1>7, <1>8, <1>9, <1>10, Zenon DEF Next, vars, requestVars

\* The inductive invariant of ownership.
OwnersInv == TypesAndRows /\ CapabilitiesFitKind /\ OwnerCanServeKind

LEMMA OwnersStep == OwnersInv /\ [Next]_vars => OwnersInv'
<1> SUFFICES ASSUME OwnersInv, [Next]_vars PROVE OwnersInv'
  OBVIOUS
<1> USE DEF OwnersInv, TypesAndRows
<1>1. TypesAndRows' /\ RowsStepped /\ CapabilitiesFitKind' /\ KindsKept
  BY TypesAndRowsStep, NextRows, NextKeepsKinds
<1> DEFINE Served(kind, backend_kind) ==
             \/ backend_kind = "local_account_dir"
             \/ backend_kind = "starmask_extension" /\ kind \in ExtensionCapabilities
<1>2. ASSUME NEW r \in DOMAIN requests
      PROVE  Served(requests'[r].kind,
                    instances'[requests'[r].wallet_instance_id].backend_kind)
  <2>1. requests[r] \in Request /\ RowStep(requests[r], requests'[r])
    BY <1>1, Zenon DEF RowsStepped, RowsOK, RowOK
  <2>2. SameIdentity(requests[r], requests'[r])
    BY <2>1, RowStepIdentity
  <2>3. requests[r].wallet_instance_id \in WalletId
    BY <2>1, Zenon DEF Request
  <2> QED
    BY <1>1, <2>2, <2>3 DEF SameIdentity, KindsKept, Registered, OwnerCanServeKind
<1>3. ASSUME NEW r \in DOMAIN requests', r \notin DOMAIN requests
      PROVE  Served(requests'[r].kind,
                    instances'[requests'[r].wallet_instance_id].backend_kind)
  <2>1. PICK call \in CreateCall, ttl \in TtlInput : CreateRequest(call, ttl)
    BY <1>3, OnlyCreateInserts, Zenon DEF ReplayCreateRequest
  <2>2. call.kind \in RequestKind /\ UNCHANGED instances
    BY <2>1, CoordinatorAssumption, Zenon DEF CreateCall, CreateRequest
  <2>3. PICK w \in WalletId, new \in RequestId \ DOMAIN requests : Inserted(call, ttl, w, new)
    BY <2>1, CreatedRow
  <2>4. /\ resolve_wallet_for_request(call.kind, call.account_address, call.wallet, w)
        /\ requests'[r].kind = call.kind
        /\ requests'[r].wallet_instance_id = w
    BY <1>3, <2>3, Zenon DEF Inserted
  <2> QED
    BY <2>2, <2>4, RoutedToCapable
<1>4. OwnerCanServeKind'
  BY <1>2, <1>3, Zenon DEF OwnerCanServeKind
<1> QED
  BY <1>1, <1>4

\* A request is only ever owned by a wallet the daemon knows and whose kind of
\* backend can serve it.
THEOREM OwnersCorrect == Spec => []OwnerCanServeKind
<1>1. Init => OwnersInv
  BY TypesAndRowsInit
  DEF Init, RegistryInit, OwnersInv, CapabilitiesFitKind, OwnerCanServeKind, Unregistered
<1>2. OwnersInv => OwnerCanServeKind
  BY DEF OwnersInv
<1> QED
  BY <1>1, <1>2, OwnersStep, PTL DEF Spec
----------------------------------------------------------------------------
(* Idempotent creation.                                                     *)

\* The payload is tagged with its kind, so the hash stands for both.
HashNamesKind == \A r \in DOMAIN requests : requests[r].payload_hash[1] = requests[r].kind

IdempotenceInv == TypesAndRows /\ HashNamesKind /\ CreateIsIdempotent

\* The row is what the call asked for.
Answers(row, call) ==
    /\ row.client_request_id = call.client_request_id
    /\ row.kind = call.kind
    /\ row.account_address = call.account_address
    /\ row.payload_hash = <<call.kind, call.payload>>
    /\ call.wallet \in {AnyWallet, row.wallet_instance_id}

\* One more call is answered, with a row that is what it asked for.
LEMMA OneMoreAnswered ==
    ASSUME NEW call, NEW r \in DOMAIN requests', Answers(requests'[r], call),
           acknowledged' = acknowledged \cup {[call |-> call, request_id |-> r]},
           \A ack \in acknowledged : /\ ack.request_id \in DOMAIN requests'
                                    /\ Answers(requests'[ack.request_id], ack.call),
           \A x, y \in DOMAIN requests' :
              requests'[x].client_request_id = requests'[y].client_request_id => x = y
    PROVE  CreateIsIdempotent'
<1>1. ASSUME NEW ack \in acknowledged'
      PROVE  ack.request_id \in DOMAIN requests' /\ Answers(requests'[ack.request_id], ack.call)
  <2>1. CASE ack \in acknowledged
    BY <2>1, Zenon
  <2>2. CASE ack = [call |-> call, request_id |-> r]
    <3>1. ack.call = call /\ ack.request_id = r
      BY <2>2
    <3> QED
      BY <3>1, Zenon
  <2> QED
    BY <2>1, <2>2, Zenon
<1> QED
  BY <1>1, Zenon DEF CreateIsIdempotent, Answers

LEMMA IdempotenceStep == IdempotenceInv /\ [Next]_vars => IdempotenceInv'
<1> SUFFICES ASSUME IdempotenceInv, [Next]_vars PROVE HashNamesKind' /\ CreateIsIdempotent'
  BY TypesAndRowsStep DEF IdempotenceInv
<1> USE DEF IdempotenceInv, TypesAndRows
<1>1. RowsStepped
  BY NextRows
<1>2. \A r \in DOMAIN requests : r \in DOMAIN requests' /\ SameIdentity(requests[r], requests'[r])
  BY <1>1, RowStepIdentity, Zenon DEF RowsStepped, RowsOK, RowOK
<1>3. \A ack \in acknowledged : /\ ack.request_id \in DOMAIN requests'
                                /\ Answers(requests'[ack.request_id], ack.call)
  BY <1>2 DEF CreateIsIdempotent, SameIdentity, Answers
<1>4. CASE DOMAIN requests' = DOMAIN requests /\ UNCHANGED acknowledged
  <2>1. HashNamesKind'
    BY <1>2, <1>4, Zenon DEF SameIdentity, HashNamesKind
  <2>2. \A x, y \in DOMAIN requests' :
           requests'[x].client_request_id = requests'[y].client_request_id => x = y
    BY <1>2, <1>4, Zenon DEF SameIdentity, CreateIsIdempotent
  <2> QED
    BY <1>3, <1>4, <2>1, <2>2, Zenon DEF CreateIsIdempotent, Answers
<1>5. ASSUME NEW call \in CreateCall, ReplayCreateRequest(call)
      PROVE  HashNamesKind' /\ CreateIsIdempotent'
  <2>1. UNCHANGED requests
    BY <1>5, Zenon DEF ReplayCreateRequest
  <2>2. PICK r \in WithClientRequestId(call.client_request_id) :
             /\ requests[r].account_address = call.account_address
             /\ call.wallet \in {AnyWallet, requests[r].wallet_instance_id}
             /\ requests[r].payload_hash = <<call.kind, call.payload>>
             /\ acknowledged' = acknowledged \cup {[call |-> call, request_id |-> r]}
    BY <1>5, Zenon DEF ReplayCreateRequest, Acknowledge, calculate_payload_hash
  <2>3. r \in DOMAIN requests /\ Answers(requests[r], call)
    BY <2>2 DEF WithClientRequestId, HashNamesKind, Answers
  <2>4. HashNamesKind'
    BY <2>1, Zenon DEF HashNamesKind
  <2>5. \A x, y \in DOMAIN requests' :
           requests'[x].client_request_id = requests'[y].client_request_id => x = y
    BY <2>1, Zenon DEF CreateIsIdempotent
  <2> QED
    BY <1>3, <2>1, <2>2, <2>3, <2>4, <2>5, OneMoreAnswered, Zenon
<1>6. ASSUME NEW call \in CreateCall, NEW ttl \in TtlInput, CreateRequest(call, ttl)
      PROVE  HashNamesKind' /\ CreateIsIdempotent'
  <2>1. \A x \in DOMAIN requests : requests[x].client_request_id # call.client_request_id
    BY <1>6, Zenon DEF CreateRequest, WithClientRequestId
  <2>2. PICK w \in WalletId, r \in RequestId \ DOMAIN requests : Inserted(call, ttl, w, r)
    BY <1>6, CreatedRow, Zenon
  <2>3. Answers(requests'[r], call)
    BY <2>2, Zenon DEF Inserted, resolve_wallet_for_request, resolve_wallet_for_signing,
                resolve_wallet_instance_for_account, Answers
  <2>4. HashNamesKind'
    <3>1. requests'[r].payload_hash[1] = requests'[r].kind
      BY <2>2 DEF Inserted
    <3> QED
      BY <2>2, <3>1, Zenon DEF Inserted, HashNamesKind
  <2>5. \A x, y \in DOMAIN requests' :
           requests'[x].client_request_id = requests'[y].client_request_id => x = y
    BY <2>1, <2>2 DEF Inserted, CreateIsIdempotent
  <2>6. r \in DOMAIN requests' /\ acknowledged' = acknowledged \cup {[call |-> call, request_id |-> r]}
    BY <2>2, Zenon DEF Inserted
  <2> QED
    BY <1>3, <2>3, <2>4, <2>5, <2>6, OneMoreAnswered, Zenon
<1> QED
  BY <1>4, <1>5, <1>6, OnlyCreateInserts, Zenon

\* However often and in whatever order creations are retried, cancelled,
\* expired or interrupted, a client_request_id names one request, and it is the
\* one every answered call asked for.
THEOREM IdempotencyCorrect == Spec => []CreateIsIdempotent
<1>1. Init => IdempotenceInv
  BY TypesAndRowsInit, Zenon DEF Init, IdempotenceInv, HashNamesKind, CreateIsIdempotent
<1>2. IdempotenceInv => CreateIsIdempotent
  BY DEF IdempotenceInv
<1> QED
  BY <1>1, <1>2, IdempotenceStep, PTL DEF Spec
----------------------------------------------------------------------------
(* Lifetimes.                                                               *)

LEMMA ClampBounds ==
    ASSUME NEW ttl \in TtlInput
    PROVE  /\ clamp_ttl(ttl) \in Nat
           /\ clamp_ttl(ttl) <= MaxRequestTtl
           /\ MinRequestTtl <= MaxRequestTtl => clamp_ttl(ttl) >= MinRequestTtl
  BY CoordinatorAssumption DEF clamp_ttl

LEMMA ClockAdvances ==
    ASSUME TypeOK, [Next]_vars
    PROVE  now' \in Nat /\ now <= now'
<1>1. CallerNext => now' = now
  BY Zenon DEF CallerNext, CreateRequest, ReplayCreateRequest, CancelRequest
<1>2. BackendNext => now' = now
  BY Zenon DEF BackendNext, HeartbeatBackend, ResumeRequest, ClaimRequest,
     MarkRequestPresented, ResolveRequest, RejectRequest
<1>3. DaemonNext => now' = now
  BY Zenon DEF DaemonNext, TickMaintenance, CrashDuringTick, TickWrites
<1>4. now' \in {now, now + 1}
  BY <1>1, <1>2, <1>3, Zenon DEF Next, AdvanceClock, vars
<1>5. now \in Nat
  BY Zenon DEF TypeOK, RegistryTypeOK
<1> QED
  BY <1>4, <1>5

LifetimesInv == TypesAndRows /\ LifetimesBounded

LEMMA LifetimesStep == LifetimesInv /\ [Next]_vars => LifetimesInv'
<1> SUFFICES ASSUME LifetimesInv, [Next]_vars PROVE LifetimesBounded'
  BY TypesAndRowsStep DEF LifetimesInv
<1> USE DEF LifetimesInv, TypesAndRows
<1>1. RowsStepped /\ now' \in Nat /\ now <= now' /\ now \in Nat
  BY NextRows, ClockAdvances, Zenon DEF TypeOK, RegistryTypeOK
<1>2. ASSUME NEW r \in DOMAIN requests
      PROVE  /\ requests[r] \in Request
             /\ requests'[r].created_at = requests[r].created_at
             /\ requests'[r].expires_at = requests[r].expires_at
  BY <1>1, RowStepIdentity DEF RowsStepped, RowsOK, RowOK, SameIdentity
<1> DEFINE Bounded(row, time) ==
             /\ row.expires_at - row.created_at <= MaxRequestTtl
             /\ MinRequestTtl <= MaxRequestTtl =>
                    row.expires_at - row.created_at >= MinRequestTtl
             /\ row.created_at <= time
<1>3. ASSUME NEW r \in DOMAIN requests PROVE Bounded(requests'[r], now')
  <2>1. Bounded(requests[r], now)
    BY Zenon DEF LifetimesBounded
  <2>2. requests[r].created_at \in Nat
    BY <1>2, Zenon DEF Request
  <2> QED
    BY <1>1, <1>2, <2>1, <2>2
<1>4. ASSUME NEW r \in DOMAIN requests', r \notin DOMAIN requests
      PROVE  Bounded(requests'[r], now')
  <2>1. PICK call \in CreateCall, ttl \in TtlInput : CreateRequest(call, ttl)
    BY <1>4, OnlyCreateInserts, Zenon DEF ReplayCreateRequest
  <2>2. PICK w \in WalletId, new \in RequestId \ DOMAIN requests : Inserted(call, ttl, w, new)
    BY <2>1, CreatedRow, Zenon
  <2>3. /\ requests'[r].created_at = now
        /\ requests'[r].expires_at = now + clamp_ttl(ttl)
    BY <1>4, <2>2, Zenon DEF Inserted
  <2> QED
    BY <1>1, <2>3, ClampBounds, CoordinatorAssumption
<1> QED
  BY <1>3, <1>4, Zenon DEF LifetimesBounded

\* Whatever TTL is asked for, and whether or not the configured minimum is
\* below the maximum, no request is given longer than the maximum.
THEOREM LifetimesCorrect == Spec => []LifetimesBounded
<1>1. Init => LifetimesInv
  BY TypesAndRowsInit, Zenon DEF Init, LifetimesInv, LifetimesBounded
<1>2. LifetimesInv => LifetimesBounded
  BY DEF LifetimesInv
<1> QED
  BY <1>1, <1>2, LifetimesStep, PTL DEF Spec
----------------------------------------------------------------------------
(* The sweep.                                                               *)

\* What every row is at the end of a tick.
NotOverdue(row) ==
    /\ row.expires_at <= now => is_terminal(row.status)
    /\ row.status = "dispatched" => row.delivery_lease.expires_at > now
    /\ row.status = "pending_user_approval" => row.presentation.expires_at > now
    /\ row.result # "none" => row.result_expires_at > now

LEMMA SweptLeaves ==
    ASSUME TypeOK, NEW row, RowOK(row), Live(row)
    PROVE  NotOverdue(SweptRow(row)) /\ SweptRow(row).result = "none"
<1>1. /\ row \in Request /\ row.result = "none" /\ now \in Nat
      /\ row.expires_at \in Nat
      /\ row.delivery_lease.expires_at \in Nat
      /\ row.presentation.expires_at \in Nat
  BY Zenon DEF RowOK, OutcomeOf, Live, Request, TypeOK, RegistryTypeOK
<1>2. ASSUME NEW status \in RequestStatus
      PROVE  /\ Released(row, status).status = status
             /\ Released(row, status).result = "none"
             /\ Released(row, status).expires_at = row.expires_at
  BY <1>1 DEF Released, Request
<1>3. CASE row.expires_at <= now
  <2> DEFINE expired == [Released(row, "expired") EXCEPT !.last_error_code = "request_expired"]
  <2>1. SweptRow(row) = expired
    BY <1>3 DEF SweptRow
  <2>2. expired.status = "expired" /\ expired.result = "none"
    BY <1>1 DEF Released, Request
  <2> QED
    BY <2>1, <2>2 DEF NotOverdue, is_terminal
<1>4. CASE ~(row.expires_at <= now) /\ LeaseLapsed(row)
  <2>1. SweptRow(row) = Released(row, "created")
    BY <1>4 DEF SweptRow
  <2> QED
    BY <1>1, <1>2, <1>4, <2>1, Zenon DEF NotOverdue, RequestStatus
<1>5. CASE ~(row.expires_at <= now) /\ ~LeaseLapsed(row)
  <2>1. SweptRow(row) = row
    BY <1>5, Zenon DEF SweptRow
  <2> QED
    BY <1>1, <1>5, <2>1 DEF NotOverdue, LeaseLapsed, RowOK, LeasesOf
<1> QED
  BY <1>3, <1>4, <1>5, Zenon

LEMMA EvictedLeaves ==
    ASSUME TypeOK, NEW row, RowOK(row), is_terminal(row.status)
    PROVE  NotOverdue(EvictedRow(row))
<1>1. /\ row \in Request /\ now \in Nat /\ row.result_expires_at \in Nat
      /\ (row.result # "none") <=> (row.result_expires_at # 0)
  BY Zenon DEF RowOK, OutcomeOf, Request, TypeOK, RegistryTypeOK
<1> DEFINE evicted == [row EXCEPT !.result = "none", !.result_expires_at = 0]
<1>2. evicted.status = row.status /\ evicted.result = "none"
  BY <1>1 DEF Request
<1>3. CASE EvictedRow(row) = evicted
  BY <1>2, <1>3 DEF NotOverdue, is_terminal
<1>4. CASE EvictedRow(row) = row /\ (row.result # "none" => row.result_expires_at > now)
  BY <1>4, Zenon DEF NotOverdue, is_terminal
<1> QED
  BY <1>1, <1>3, <1>4 DEF EvictedRow

LEMMA TickLeavesRows ==
    ASSUME TypesAndRows, TickMaintenance
    PROVE  \A r \in DOMAIN requests' : NotOverdue(requests'[r])
<1> USE DEF TypesAndRows
<1> SUFFICES ASSUME NEW r \in DOMAIN requests' PROVE NotOverdue(requests'[r])
  OBVIOUS
<1>1. /\ r \in DOMAIN requests
      /\ requests'[r] = EvictedRow(IF is_terminal(requests[r].status)
                                   THEN requests[r] ELSE SweptRow(requests[r]))
  BY Zenon DEF TickMaintenance, TickWrites, NonTerminal
<1>2. RowOK(requests[r])
  BY <1>1, Zenon DEF RowsOK
<1>3. CASE is_terminal(requests[r].status)
  BY <1>1, <1>2, <1>3, EvictedLeaves, Zenon
<1>4. CASE ~is_terminal(requests[r].status)
  <2>1. NotOverdue(SweptRow(requests[r])) /\ SweptRow(requests[r]).result = "none"
    BY <1>2, <1>4, SweptLeaves, LiveIsNonTerminal, Zenon DEF RowOK
  <2>2. EvictedRow(SweptRow(requests[r])) = SweptRow(requests[r])
    BY <2>1 DEF EvictedRow
  <2> QED
    BY <1>1, <1>4, <2>1, <2>2, Zenon
<1> QED
  BY <1>3, <1>4, Zenon

\* When a maintenance tick is done nothing is overdue, for any number of
\* requests and wallets.
THEOREM SweepCorrect == Spec => TickLeavesNothingOverdue
<1>1. ASSUME TypesAndRows, TickMaintenance
      PROVE  /\ \A r \in DOMAIN requests' : NotOverdue(requests'[r])
             /\ \A w \in WalletId :
                   instances'[w].connected =>
                       now - instances'[w].last_seen_at < WalletOfflineAfter
  <2> USE <1>1 DEF TypesAndRows
  <2>1. \A r \in DOMAIN requests' : NotOverdue(requests'[r])
    BY TickLeavesRows
  <2>2. ASSUME NEW w \in WalletId, instances'[w].connected
        PROVE  now - instances'[w].last_seen_at < WalletOfflineAfter
    <3>1. instances[w] \in Instance /\ now \in Nat /\ WalletOfflineAfter \in Nat
      BY RegistryAssumption, Zenon DEF TypeOK, RegistryTypeOK
    <3>2. instances'[w] = IF instances[w].connected /\ is_wallet_stale(w)
                          THEN [instances[w] EXCEPT !.connected = FALSE]
                          ELSE instances[w]
      BY DEF TickMaintenance, TickWrites, MarkStale
    <3>3. instances'[w] = instances[w] /\ ~is_wallet_stale(w)
      BY <2>2, <3>1, <3>2, Zenon DEF Instance
    <3> QED
      BY <3>1, <3>3 DEF is_wallet_stale, Instance
  <2> QED
    BY <2>1, <2>2, Zenon
<1>2. TypesAndRows /\ [Next]_vars =>
        [TickMaintenance =>
          /\ \A r \in DOMAIN requests' :
                LET row == requests'[r]
                IN  /\ row.expires_at <= now => is_terminal(row.status)
                    /\ row.status = "dispatched" => row.delivery_lease.expires_at > now
                    /\ row.status = "pending_user_approval" =>
                           row.presentation.expires_at > now
                    /\ row.result # "none" => row.result_expires_at > now
          /\ \A w \in WalletId :
                instances'[w].connected =>
                    now - instances'[w].last_seen_at < WalletOfflineAfter]_vars
  BY <1>1, Zenon DEF NotOverdue, is_terminal
<1> QED
  BY <1>2, TypesAndRowsInvariant, PTL DEF Spec, TickLeavesNothingOverdue

\* After a tick hasAvailable and the pull agree, for any number of requests and
\* wallets: a pending row has a presentation lease (RowOK) and the sweep left
\* none that has lapsed.
THEOREM AnnouncementsCorrect == Spec => TickMakesAnnouncementsTrue
<1>1. ASSUME TypesAndRows, [Next]_vars, TickMaintenance, NEW w \in WalletId
      PROVE  request_has_available(w)' <=> (Resumable(w) \cup Claimable(w) # {})'
  <2>1. now' = now /\ TypesAndRows'
    BY <1>1, TypesAndRowsStep, Zenon DEF TickMaintenance, TickWrites
  <2>2. ASSUME NEW r \in DOMAIN requests', requests'[r].status = "pending_user_approval"
        PROVE  /\ requests'[r].presentation.id # NoPresentation
               /\ requests'[r].presentation.expires_at > now'
    BY <1>1, <2>1, <2>2, TickLeavesRows, Zenon DEF NotOverdue, TypesAndRows, RowsOK, RowOK, LeasesOf
  <2> QED
    BY <2>2, Zenon DEF request_has_available, Resumable, Claimable, Owned
<1>2. TypesAndRows /\ [Next]_vars =>
        [TickMaintenance =>
          \A w \in WalletId :
             request_has_available(w)' <=> (Resumable(w) \cup Claimable(w) # {})']_vars
  BY <1>1, Zenon
<1> QED
  BY <1>2, TypesAndRowsInvariant, PTL DEF Spec, TickMakesAnnouncementsTrue
----------------------------------------------------------------------------
(* Account labels, backend kinds and routing: what the registry keeps       *)
(* across any sequence of snapshots, relabellings and half-finished         *)
(* registrations.                                                           *)

\* One wallet's label rows: no order is given out twice.
DistinctOrders(rows) ==
    \A a, b \in Address : rows[a].order = rows[b].order /\ a # b => rows[a].order = 0

\* One wallet's label rows before and after a snapshot.
RowsKept(rows, next) ==
    \A a \in Address : rows[a].order # 0 => next[a] = rows[a]

LEMMA NewOrdersDistinct ==
    ASSUME RegistryTypeOK, NEW w \in WalletId, NEW view, DistinctOrders(labels[w]),
           ensure_local_account_labels(w, view)
    PROVE  /\ \A v \in WalletId : v # w => labels'[v] = labels[v]
           /\ DistinctOrders(labels'[w])
           /\ RowsKept(labels[w], labels'[w])
           /\ \A a \in Exposed(view) : labels'[w][a].order # 0
<1> DEFINE new == {a \in Exposed(view) : labels[w][a].order = 0}
<1>1. PICK next \in AccountOrder, position \in Bijection(new, 1 .. Cardinality(new)),
           text \in [new -> LabelText \ {"none"}] :
        /\ next_account_order(w, next)
        /\ labels' = [labels EXCEPT ![w] =
                     [a \in Address |->
                        IF a \in new
                        THEN [order |-> next + position[a] - 1, label |-> text[a]]
                        ELSE labels[w][a]]]
  BY Zenon DEF ensure_local_account_labels
<1>2. next \in Nat /\ next >= 1 /\ \A a \in Address : labels[w][a].order < next
  BY <1>1 DEF AccountOrder, next_account_order
<1>3. /\ \A a \in new : position[a] \in Nat /\ position[a] >= 1
      /\ \A a, b \in new : position[a] = position[b] => a = b
  BY DEF Bijection, Injection, IsInjective
<1>4. \A a \in Address : labels[w][a].order \in Nat
  BY Zenon DEF RegistryTypeOK
<1>5. new \subseteq Address /\ \A a \in new : labels[w][a].order = 0
  BY Zenon DEF Exposed
<1>6. /\ \A v \in WalletId : v # w => labels'[v] = labels[v]
      /\ \A a \in Address \ new : labels'[w][a] = labels[w][a]
      /\ \A a \in new : labels'[w][a].order = next + position[a] - 1
  <2> HIDE DEF new
  <2> QED
    BY <1>1, <1>5, Zenon DEF RegistryTypeOK
<1>7. \A a \in Exposed(view) : a \in Address /\ (a \notin new => labels[w][a].order # 0)
  BY Zenon DEF Exposed
<1> HIDE DEF new
<1>8. \A a \in new : labels'[w][a].order \in Nat /\ labels'[w][a].order >= next
  BY <1>2, <1>3, <1>6
<1>9. \A a \in Exposed(view) : labels'[w][a].order # 0
  BY <1>2, <1>6, <1>7, <1>8
<1>10. RowsKept(labels[w], labels'[w])
  BY <1>5, <1>6, Zenon DEF RowsKept
<1>11. DistinctOrders(labels'[w])
  <2> SUFFICES ASSUME NEW a \in Address, NEW b \in Address, a # b,
                      labels'[w][a].order = labels'[w][b].order
               PROVE  labels'[w][a].order = 0
    BY Zenon DEF DistinctOrders
  <2>1. CASE a \in new /\ b \in new
    BY <1>2, <1>3, <1>6, <2>1
  <2>2. CASE a \in new /\ b \notin new
    BY <1>2, <1>4, <1>6, <1>8, <2>2
  <2>3. CASE a \notin new /\ b \in new
    BY <1>2, <1>4, <1>6, <1>8, <2>3
  <2>4. CASE a \notin new /\ b \notin new
    BY <1>6, <2>4 DEF DistinctOrders
  <2> QED
    BY <2>1, <2>2, <2>3, <2>4, Zenon
<1> QED
  BY <1>6, <1>9, <1>10, <1>11, Zenon

LEMMA RelabelledRow ==
    ASSUME RegistryTypeOK, NEW w \in WalletId, NEW a \in Address, NEW label,
           DistinctOrders(labels[w]), SetAccountLabel(w, a, label)
    PROVE  /\ \A v \in WalletId : v # w => labels'[v] = labels[v]
           /\ \A b \in Address : b # a => labels'[w][b] = labels[w][b]
           /\ labels'[w][a].label = label
           /\ labels'[w][a].order # 0
           /\ labels[w][a].order # 0 => labels'[w][a].order = labels[w][a].order
           /\ DistinctOrders(labels'[w])
<1>1. PICK order \in AccountOrder :
          /\ IF labels[w][a].order # 0
             THEN order = labels[w][a].order
             ELSE next_account_order(w, order)
          /\ labels' = [labels EXCEPT ![w][a] = [order |-> order, label |-> label]]
  BY Zenon DEF SetAccountLabel
<1>2. /\ \A v \in WalletId : v # w => labels'[v] = labels[v]
      /\ \A b \in Address : b # a => labels'[w][b] = labels[w][b]
      /\ labels'[w][a] = [order |-> order, label |-> label]
  BY <1>1, Zenon DEF RegistryTypeOK
<1>3. order \in Nat /\ order # 0 /\ \A b \in Address : labels[w][b].order \in Nat
  BY DEF AccountOrder, RegistryTypeOK
<1>4. \A b \in Address : b # a => labels[w][b].order # order
  BY <1>1, <1>3 DEF next_account_order, DistinctOrders
<1>5. DistinctOrders(labels'[w])
  BY <1>2, <1>4 DEF DistinctOrders
<1> QED
  BY <1>1, <1>2, <1>3, <1>5

\* The inductive invariant, wallet by wallet.  An unknown wallet exposes
\* nothing, so that a registration cut short between its two writes leaves no
\* account without a label.
WalletOK(w) ==
    /\ ~Registered(w) => \A a \in Address : accounts[w][a] = "absent"
    /\ instances[w].backend_kind = "local_account_dir" =>
          \A a \in Address : accounts[w][a] # "absent" => labels[w][a].order # 0
    /\ DistinctOrders(labels[w])

LabelsInv == RegistryTypeOK /\ \A w \in WalletId : WalletOK(w)

\* What a step may do to one wallet's kind and labels.
WalletStep(w) ==
    /\ Registered(w) => instances'[w].backend_kind = instances[w].backend_kind
    /\ \A a \in Address : labels[w][a].order # 0 =>
          /\ labels'[w][a].order = labels[w][a].order
          /\ labels'[w][a].label # labels[w][a].label =>
                 SetAccountLabel(w, a, labels'[w][a].label)

\* A wallet whose kind, accounts and labels are left alone.
LEMMA UntouchedWallet ==
    ASSUME NEW w \in WalletId, WalletOK(w),
           instances'[w].backend_kind = instances[w].backend_kind,
           accounts'[w] = accounts[w], labels'[w] = labels[w]
    PROVE  WalletOK(w)' /\ WalletStep(w)
  BY Zenon DEF WalletOK, WalletStep, Registered

LEMMA RegisterLabels ==
    ASSUME LabelsInv, NEW w \in WalletId, NEW s \in Snapshots,
           \/ RegisterBackend(w, s)
           \/ CrashDuringRegister(w, s)
           \/ UpdateBackendAccounts(w, s)
    PROVE  \A v \in WalletId : WalletOK(v)' /\ WalletStep(v)
<1> USE DEF LabelsInv
<1>1. /\ s.backend_kind \in BackendKind
      /\ s.accounts \in [Address -> AccountView]
  BY SnapshotType, Zenon
<1>2. /\ \A v \in WalletId : v # w => instances'[v] = instances[v]
      /\ instances'[w].backend_kind = s.backend_kind
      /\ instances[w].backend_kind \in {"unregistered", s.backend_kind}
  BY DEF RegisterBackend, CrashDuringRegister, UpdateBackendAccounts, KindMayRegister,
         RegisteredInstance, RegistryTypeOK
<1>3. s.backend_kind # "unregistered"
  BY <1>1, Zenon DEF BackendKind
<1>4. WalletOK(w)
  BY Zenon
<1>5. CASE UNCHANGED <<accounts, labels>>
  <2>1. WalletOK(w)' /\ WalletStep(w)
    BY <1>2, <1>3, <1>4, <1>5, Zenon DEF WalletOK, WalletStep, Registered
  <2> QED
    BY <1>2, <1>5, <2>1, UntouchedWallet, Zenon
<1>6. CASE replace_wallet_accounts(w, s.backend_kind, s.accounts)
  <2>1. /\ \A v \in WalletId : v # w => accounts'[v] = accounts[v]
        /\ accounts'[w] = s.accounts
    BY <1>6, Zenon DEF replace_wallet_accounts, RegistryTypeOK
  <2>2. CASE s.backend_kind = "local_account_dir"
    <3>1. /\ \A v \in WalletId : v # w => labels'[v] = labels[v]
          /\ DistinctOrders(labels'[w])
          /\ RowsKept(labels[w], labels'[w])
          /\ \A a \in Exposed(s.accounts) : labels'[w][a].order # 0
      BY <1>4, <1>6, <2>2, NewOrdersDistinct, Zenon DEF replace_wallet_accounts, WalletOK
    <3>2. WalletOK(w)' /\ WalletStep(w)
      BY <1>2, <1>3, <2>1, <3>1, Zenon DEF WalletOK, WalletStep, RowsKept, Registered, Exposed
    <3> QED
      BY <1>2, <2>1, <3>1, <3>2, UntouchedWallet, Zenon
  <2>3. CASE s.backend_kind # "local_account_dir"
    <3>1. UNCHANGED labels
      BY <1>6, <2>3, Zenon DEF replace_wallet_accounts
    <3>2. WalletOK(w)' /\ WalletStep(w)
      BY <1>2, <1>3, <1>4, <2>3, <3>1, Zenon DEF WalletOK, WalletStep, Registered
    <3> QED
      BY <1>2, <2>1, <3>1, <3>2, UntouchedWallet, Zenon
  <2> QED
    BY <2>2, <2>3, Zenon
<1> QED
  BY <1>5, <1>6, Zenon DEF RegisterBackend, CrashDuringRegister, UpdateBackendAccounts

LEMMA RegistryStepLabels ==
    ASSUME LabelsInv, [RegistryNext]_<<now, registryVars>>
    PROVE  \A v \in WalletId : WalletOK(v)' /\ WalletStep(v)
<1> USE DEF LabelsInv
<1>1. ASSUME NEW w \in WalletId, NEW lock_state, HeartbeatInstance(w, lock_state)
      PROVE  \A v \in WalletId : WalletOK(v)' /\ WalletStep(v)
  <2>1. /\ \A v \in WalletId : instances'[v].backend_kind = instances[v].backend_kind
        /\ UNCHANGED <<accounts, labels>>
    BY <1>1, Zenon DEF HeartbeatInstance, RegistryTypeOK, Instance
  <2> QED
    BY <2>1, UntouchedWallet, Zenon
<1>2. ASSUME NEW w \in WalletId, NEW a \in Address, NEW label \in Label,
             SetAccountLabel(w, a, label)
      PROVE  \A v \in WalletId : WalletOK(v)' /\ WalletStep(v)
  <2>1. WalletOK(w) /\ UNCHANGED <<instances, accounts>>
    BY <1>2, Zenon DEF SetAccountLabel
  <2>2. /\ \A v \in WalletId : v # w => labels'[v] = labels[v]
        /\ \A b \in Address : b # a => labels'[w][b] = labels[w][b]
        /\ labels'[w][a].label = label
        /\ labels'[w][a].order # 0
        /\ labels[w][a].order # 0 => labels'[w][a].order = labels[w][a].order
        /\ DistinctOrders(labels'[w])
    BY <1>2, <2>1, RelabelledRow, Zenon DEF WalletOK
  <2>3. WalletOK(w)'
    BY <2>1, <2>2, Zenon DEF WalletOK, Registered
  <2>4. WalletStep(w)
    BY <1>2, <2>1, <2>2, Zenon DEF WalletStep
  <2> QED
    BY <2>1, <2>2, <2>3, <2>4, UntouchedWallet, Zenon
<1>3. CASE MarkStale(WalletId) /\ UNCHANGED <<accounts, labels>>
  <2>1. \A v \in WalletId : instances'[v].backend_kind = instances[v].backend_kind
    BY <1>3 DEF MarkStale, RegistryTypeOK, Instance
  <2> QED
    BY <1>3, <2>1, UntouchedWallet, Zenon
<1>4. CASE UNCHANGED registryVars
  BY <1>4, UntouchedWallet, Zenon DEF registryVars
<1>5. ASSUME NEW w \in WalletId, NEW s \in Snapshots,
             \/ RegisterBackend(w, s)
             \/ CrashDuringRegister(w, s)
             \/ UpdateBackendAccounts(w, s)
      PROVE  \A v \in WalletId : WalletOK(v)' /\ WalletStep(v)
  BY <1>5, RegisterLabels, Zenon
<1>6. CASE RegistryNext
  BY <1>1, <1>2, <1>3, <1>4, <1>5, <1>6, Zenon DEF RegistryNext, RegistryStep
<1> QED
  BY <1>4, <1>6, Zenon DEF registryVars

LEMMA LabelsInvariant == RegistrySpec => []LabelsInv
<1>1. RegistryInit => \A w \in WalletId : WalletOK(w)
  BY DEF RegistryInit, WalletOK, DistinctOrders, Registered, Unregistered, NoRow
<1>2. LabelsInv /\ [RegistryNext]_<<now, registryVars>> => LabelsInv'
  BY RegistryStepLabels, RegistryTypeStep, Zenon DEF LabelsInv
<1>3. RegistryTypeOK /\ (\A w \in WalletId : WalletOK(w)) => LabelsInv
  BY Zenon DEF LabelsInv
<1> QED
  BY <1>1, <1>2, <1>3, RegistryTypeCorrect, PTL DEF RegistrySpec

\* Every exposed local account has a label row and no two rows of a wallet
\* share an order, whatever vanished, came back or was cut short.
THEOREM LabelOrdersCorrect == RegistrySpec => []LabelOrdersSound
<1>1. LabelsInv => LabelOrdersSound
  BY Zenon DEF LabelsInv, WalletOK, DistinctOrders, LabelOrdersSound
<1> QED
  BY <1>1, LabelsInvariant, PTL

\* A label row is never lost or renumbered by a snapshot, and only
\* wallet.setAccountLabel changes its text.
THEOREM LabelsSurvive == RegistrySpec => LabelsSurviveSnapshots
<1>1. LabelsInv /\ [RegistryNext]_<<now, registryVars>> =>
        [\A w \in WalletId, a \in Address :
          labels[w][a].order # 0 =>
              /\ labels'[w][a].order = labels[w][a].order
              /\ labels'[w][a].label # labels[w][a].label =>
                     SetAccountLabel(w, a, labels'[w][a].label)]_labels
  BY RegistryStepLabels, Zenon DEF WalletStep
<1> QED
  BY <1>1, LabelsInvariant, PTL DEF RegistrySpec, LabelsSurviveSnapshots

\* A wallet_instance_id keeps the backend kind it first registered with.
THEOREM KindsPinned == RegistrySpec => BackendKindPinned
<1>1. LabelsInv /\ [RegistryNext]_<<now, registryVars>> =>
        [\A w \in WalletId : Registered(w) =>
          instances'[w].backend_kind = instances[w].backend_kind]_instances
  BY RegistryStepLabels, Zenon DEF WalletStep
<1> QED
  BY <1>1, LabelsInvariant, PTL DEF RegistrySpec, BackendKindPinned

\* A call selects at most one wallet, and a registered one; without a name it
\* selects a wallet only when no other known wallet exposes the address.
THEOREM RoutingCorrect == RegistrySpec => []RoutingDeterministic
<1>1. LabelsInv => RoutingDeterministic
  <2> SUFFICES ASSUME LabelsInv, NEW kind \in RequestKind, NEW address \in Address,
                      NEW wallet \in WalletId \cup {AnyWallet}, NEW w \in WalletId,
                      resolve_wallet_for_request(kind, address, wallet, w)
               PROVE  /\ wallet \in {w, AnyWallet}
                      /\ Registered(w)
                      /\ resolve_wallet_for_request(kind, address, w, w)
                      /\ \A v \in WalletId \ {w} :
                            /\ ~resolve_wallet_for_request(kind, address, wallet, v)
                            /\ wallet = AnyWallet => accounts[v][address] = "absent"
    BY Zenon DEF RoutingDeterministic
  <2>1. AnyWallet \notin WalletId
    BY RegistryAssumption, Zenon
  <2>2. CASE kind \in MutationKind
    BY <2>1, <2>2, Zenon DEF resolve_wallet_for_request
  <2>3. CASE kind \notin MutationKind
    <3>1. WalletOK(w) /\ accounts[w][address] # "absent"
      BY <2>3, Zenon DEF LabelsInv, resolve_wallet_for_request, resolve_wallet_for_signing,
                  resolve_wallet_instance_for_account
    <3>2. Registered(w)
      BY <3>1, Zenon DEF WalletOK
    <3> QED
      BY <2>1, <2>3, <3>2, Zenon DEF resolve_wallet_for_request, resolve_wallet_for_signing,
                              resolve_wallet_instance_for_account
  <2> QED
    BY <2>2, <2>3, Zenon
<1> QED
  BY <1>1, LabelsInvariant, PTL
----------------------------------------------------------------------------
(* What the wallet queries say of the registry.                             *)

\* Nobody was last seen in the future: every writer of last_seen_at takes the
\* coordinator's clock, which does not go back.
SeenByNow == \A w \in WalletId : instances[w].last_seen_at <= now

LEMMA SeenByNowInit == RegistryInit => SeenByNow
  BY DEF RegistryInit, SeenByNow, Unregistered

LEMMA SeenByNowStep ==
    RegistryTypeOK /\ SeenByNow /\ [RegistryNext]_<<now, registryVars>> => SeenByNow'
<1> SUFFICES ASSUME RegistryTypeOK, SeenByNow, [RegistryNext]_<<now, registryVars>>
             PROVE  SeenByNow'
  BY Zenon
<1> USE DEF SeenByNow
<1>1. now \in Nat /\ \A w \in WalletId : instances[w] \in Instance
  BY DEF RegistryTypeOK
<1>2. ASSUME NEW w \in WalletId, NEW s \in Snapshots, UNCHANGED now,
             \/ RegisterBackend(w, s)
             \/ CrashDuringRegister(w, s)
             \/ UpdateBackendAccounts(w, s)
      PROVE  SeenByNow'
  <2>1. instances' = [instances EXCEPT ![w] = RegisteredInstance(s)]
    BY <1>2, Zenon DEF RegisterBackend, CrashDuringRegister, UpdateBackendAccounts
  <2> QED
    BY <1>1, <1>2, <2>1 DEF RegisteredInstance, RegistryTypeOK
<1>3. ASSUME NEW w \in WalletId, NEW lock_state, HeartbeatInstance(w, lock_state), UNCHANGED now
      PROVE  SeenByNow'
  BY <1>1, <1>3 DEF HeartbeatInstance, RegistryTypeOK, Instance
<1>4. ASSUME NEW w \in WalletId, NEW a \in Address, NEW label, SetAccountLabel(w, a, label),
             UNCHANGED now
      PROVE  SeenByNow'
  BY <1>4, Zenon DEF SetAccountLabel
<1>5. ASSUME MarkStale(WalletId), UNCHANGED now PROVE SeenByNow'
  BY <1>1, <1>5 DEF MarkStale, Instance
<1>6. ASSUME AdvanceClock, UNCHANGED registryVars PROVE SeenByNow'
  BY <1>1, <1>6 DEF AdvanceClock, registryVars, Instance
<1>7. CASE UNCHANGED <<now, registryVars>>
  BY <1>7, Zenon DEF registryVars
<1> QED
  BY <1>2, <1>3, <1>4, <1>5, <1>6, <1>7, Zenon DEF RegistryNext, RegistryStep

\* wallet.status is computed from the connected wallets and the unlocked of them.
LEMMA StatusOfConnected ==
    /\ wallet_status.wallet_available = (list_wallet_instances(FALSE) # {})
    /\ wallet_status.wallet_online = (list_wallet_instances(TRUE) # {})
    /\ wallet_status.default =
           IF {w \in list_wallet_instances(TRUE) : instances[w].lock_state = "unlocked"} # {}
           THEN First({w \in list_wallet_instances(TRUE) : instances[w].lock_state = "unlocked"})
           ELSE First(list_wallet_instances(TRUE))
<1>1. {w \in list_wallet_instances(FALSE) : instances[w].connected} =
          list_wallet_instances(TRUE)
  BY Zenon DEF list_wallet_instances
<1> QED
  BY <1>1, Zenon DEF wallet_status

\* Some number of a set of numbers is the least.
LEMMA LeastNumber ==
    ASSUME NEW T \in SUBSET Nat, T # {}
    PROVE  \E x \in T : \A y \in T : x <= y
<1> DEFINE Less == OpToRel(<, Nat)
<1>1. IsWellFoundedOn(Less, Nat)
  BY NatLessThanWellFounded
<1>2. PICK x \in T : \A y \in T : <<y, x>> \notin Less
  <2> HIDE DEF Less
  <2> QED
    BY <1>1, WFMin, Zenon
<1>3. \A y \in T : ~(y < x)
  BY <1>2, Zenon DEF OpToRel
<1> QED
  BY <1>3

\* Of some wallets one was seen last: a default can be named.
LEMMA SomeoneIsFirst ==
    ASSUME RegistryTypeOK, SeenByNow, NEW S \in SUBSET WalletId, S # {}
    PROVE  First(S) # {}
<1> DEFINE Silence(w) == now - instances[w].last_seen_at
           Silences == {n \in Nat : \E w \in S : n = Silence(w)}
<1>1. \A w \in S : Silence(w) \in Nat /\ instances[w].last_seen_at \in Nat /\ now \in Nat
  BY DEF RegistryTypeOK, SeenByNow, Instance
<1>2. Silences # {} /\ Silences \in SUBSET Nat
  BY <1>1, Zenon
<1>3. PICK least \in Silences : \A n \in Silences : least <= n
  <2> HIDE DEF Silences
  <2> QED
    BY <1>2, LeastNumber, Zenon
<1>4. PICK w \in S : least = Silence(w)
  BY Zenon
<1>5. \A v \in S : Silence(w) <= Silence(v)
  BY <1>1, <1>3, <1>4, Zenon
<1>6. \A v \in S : instances[v].last_seen_at <= instances[w].last_seen_at
  BY <1>1, <1>5
<1> QED
  BY <1>4, <1>6, Zenon DEF First

\* wallet.status and wallet.listAccounts agree with the routing of requests for
\* any number of wallets: whoever may be selected is online in the status, the
\* default exists and is connected, and it is unlocked where that is needed.
THEOREM QueriesCorrect == RegistrySpec => []QueriesAgreeWithRouting
<1> DEFINE Connected == list_wallet_instances(TRUE)
           Unlocked == {w \in Connected : instances[w].lock_state = "unlocked"}
<1>1. ASSUME LabelsInv, SeenByNow PROVE QueriesAgreeWithRouting
  <2> USE DEF LabelsInv
  <2>1. /\ wallet_status.wallet_available = (list_wallet_instances(FALSE) # {})
        /\ wallet_status.wallet_online = (Connected # {})
        /\ wallet_status.default = IF Unlocked # {} THEN First(Unlocked) ELSE First(Connected)
    BY StatusOfConnected, Zenon
  <2>2. Connected \in SUBSET WalletId /\ Unlocked \in SUBSET Connected
    BY Zenon DEF list_wallet_instances
  <2>3. wallet_status.default \subseteq Connected
    BY <2>1, <2>2, Zenon DEF First
  <2>4. ASSUME NEW kind \in RequestKind, NEW address \in Address, NEW w \in WalletId,
               resolve_wallet_for_request(kind, address, w, w)
        PROVE  /\ wallet_status.wallet_available /\ wallet_status.wallet_online
               /\ wallet_status.default # {}
               /\ kind \notin MutationKind /\ "unlock" \notin instances[w].capabilities =>
                      \A d \in wallet_status.default : instances[d].lock_state = "unlocked"
    <3>1. Registered(w) /\ instances[w].connected
      BY <1>1, <2>4, Zenon DEF resolve_wallet_for_request, resolve_wallet_for_signing,
                        resolve_wallet_instance_for_account, WalletOK
    <3>2. w \in Connected /\ w \in list_wallet_instances(FALSE)
      BY <3>1, Zenon DEF list_wallet_instances
    <3>3. First(Connected) # {} /\ (Unlocked # {} => First(Unlocked) # {})
      <4>1. RegistryTypeOK /\ SeenByNow
        BY <1>1, Zenon
      <4>2. Connected # {}
        BY <3>2, Zenon
      <4> HIDE DEF Connected, Unlocked
      <4> QED
        BY <2>2, <4>1, <4>2, SomeoneIsFirst, Zenon
    <3>4. kind \notin MutationKind /\ "unlock" \notin instances[w].capabilities =>
              w \in Unlocked
      BY <2>4, <3>2, Zenon DEF resolve_wallet_for_request, resolve_wallet_for_signing
    <3>5. \A d \in First(Unlocked) : instances[d].lock_state = "unlocked"
      BY Zenon DEF First
    <3> QED
      BY <2>1, <3>2, <3>3, <3>4, <3>5, Zenon
  <2>5. ASSUME NEW kind \in RequestKind, NEW address \in Address, NEW w \in WalletId,
               resolve_wallet_for_request(kind, address, AnyWallet, w)
        PROVE  {v \in WalletId : address \in wallet_list_accounts(v)} = {w}
    <3>1. kind \notin MutationKind
      BY <2>5, RegistryAssumption, Zenon DEF resolve_wallet_for_request
    <3>2. /\ accounts[w][address] # "absent"
          /\ \A v \in WalletId : accounts[v][address] # "absent" => v = w
      BY <2>5, <3>1, Zenon DEF resolve_wallet_for_request, resolve_wallet_for_signing,
                        resolve_wallet_instance_for_account
    <3>3. Registered(w)
      BY <1>1, <3>2, Zenon DEF WalletOK
    <3> QED
      BY <3>2, <3>3, Zenon DEF wallet_list_accounts, Exposed
  <2> HIDE DEF LabelsInv, Connected, Unlocked
  <2> QED
    BY <2>3, <2>4, <2>5, Zenon DEF QueriesAgreeWithRouting, Connected
<1>2. LabelsInv => RegistryTypeOK
  BY Zenon DEF LabelsInv
<1>3. LabelsInv /\ SeenByNow => QueriesAgreeWithRouting
  BY <1>1
<1> QED
  BY <1>2, <1>3, LabelsInvariant, SeenByNowInit, SeenByNowStep, PTL DEF RegistrySpec
---------------------------------------------------------------------------
(* The server in front of the coordinator.                                 *)

\* A command that the coordinator carries out is one of its steps.
LEMMA CommandIsStep ==
    ASSUME NEW call \in CallInput, Command(call)
    PROVE  Next \/ UNCHANGED vars
<1> DEFINE w == call.wallet
<1>0. /\ call.method \in Method
      /\ call.method \in WalletMethod => w \in WalletId
      /\ call.method \in RegisteringMethod => call.snapshot \in SnapshotInput
      /\ call.method \in ExtensionMethod => AsExtension(call.snapshot) \in SnapshotInput
  BY ServerAssumption, Zenon DEF ServerAssumption
<1>1. CASE call.method \in RegisteringMethod
  <2>1. w \in WalletId /\ call.snapshot \in SnapshotInput
    BY <1>0, <1>1, Zenon DEF WalletMethod
  <2>2. \/ RegisterBackend(w, call.snapshot) /\ UNCHANGED <<now, requestVars>>
        \/ UpdateBackendAccounts(w, call.snapshot) /\ UNCHANGED <<now, requestVars>>
    BY <1>1, Zenon DEF Command, QueryMethod, RegisteringMethod, RegisterCommand, UpdateCommand, Unmoved
  <2> QED
    BY <2>1, <2>2, Zenon DEF Next, BackendNext
<1>2. CASE call.method \in ExtensionMethod
  <2>1. w \in WalletId /\ AsExtension(call.snapshot) \in SnapshotInput
    BY <1>0, <1>2, Zenon DEF WalletMethod
  <2>2. \/ RegisterBackend(w, AsExtension(call.snapshot)) /\ UNCHANGED <<now, requestVars>>
        \/ UpdateBackendAccounts(w, AsExtension(call.snapshot)) /\ UNCHANGED <<now, requestVars>>
    BY <1>2, Zenon DEF Command, QueryMethod, ExtensionMethod, RegisterExtension, UpdateExtension, Unmoved
  <2> QED
    BY <2>1, <2>2, Zenon DEF Next, BackendNext
<1>3. CASE call.method \in {"extension.heartbeat", "backend.heartbeat"}
  <2>1. w \in WalletId
    BY <1>0, <1>3, Zenon DEF WalletMethod
  <2>2. \E lock_state \in LockState \cup {"keep"}, ids \in SUBSET RequestId :
            HeartbeatBackend(w, lock_state, ids)
    BY <1>3, Zenon DEF Command, QueryMethod, HeartbeatExtension, HeartbeatCommand
  <2> QED
    BY <2>1, <2>2, Zenon DEF Next, BackendNext
<1>4. CASE call.method = "request.create"
  BY <1>4, Zenon DEF Command, QueryMethod, CreateCommand, Next, CallerNext
<1>5. CASE call.method = "request.cancel"
  BY <1>5, Zenon DEF Command, QueryMethod, CancelCommand, Next, CallerNext
<1>6. CASE call.method = "wallet.setAccountLabel"
  <2>1. w \in WalletId
    BY <1>0, <1>6, Zenon DEF WalletMethod
  <2> QED
    BY <1>6, <2>1, Zenon DEF Command, QueryMethod, SetLabelCommand, Unmoved, Next, CallerNext
<1>7. CASE call.method = "request.pullNext"
  <2>1. w \in WalletId
    BY <1>0, <1>7, Zenon DEF WalletMethod
  <2> QED
    BY <1>7, <2>1, Zenon DEF Command, QueryMethod, PullCommand, Next, BackendNext
<1>8. CASE call.method \in {"request.presented", "request.resolve", "request.reject"}
  <2>1. w \in WalletId
    BY <1>0, <1>8, Zenon DEF WalletMethod
  <2>2. \/ \E r \in RequestId, p \in PresentationId, lease \in 0 .. MaxLeases :
              MarkRequestPresented(w, r, p, lease)
        \/ \E r \in RequestId, p \in PresentationId, result \in ResultKind :
              ResolveRequest(w, r, p, result)
        \/ \E r \in RequestId, p \in PresentationId \cup {NoPresentation},
              reason \in ReasonInput : RejectRequest(w, r, p, reason)
    BY <1>8, Zenon DEF Command, QueryMethod, PresentedCommand, ResolveCommand, RejectCommand
  <2> QED
    BY <2>1, <2>2, Zenon DEF Next, BackendNext
<1>9. CASE call.method \in QueryMethod
  BY <1>9, Zenon DEF Command, QueryMethod
<1> QED
  BY <1>0, <1>1, <1>2, <1>3, <1>4, <1>5, <1>6, <1>7, <1>8, <1>9, Zenon
  DEF Method, WalletMethod

\* What a command does to the wallets: nothing, or one wallet is heard.
LEMMA CommandHears ==
    ASSUME NEW call \in CallInput, Command(call)
    PROVE  \/ UNCHANGED instances
           \/ /\ call.method \in RegisteringMethod
              /\ KindMayRegister(call.wallet, call.snapshot)
              /\ call.method = "backend.updateAccounts" =>
                    instances[call.wallet].backend_kind = call.snapshot.backend_kind
              /\ instances' = [instances EXCEPT ![call.wallet] =
                                  RegisteredInstance(call.snapshot)]
           \/ /\ call.method \in ExtensionMethod
              /\ KindMayRegister(call.wallet, AsExtension(call.snapshot))
              /\ instances' = [instances EXCEPT ![call.wallet] =
                                  RegisteredInstance(AsExtension(call.snapshot))]
           \/ /\ call.method \in {"extension.heartbeat", "backend.heartbeat"}
              /\ \E lock_state : HeartbeatInstance(call.wallet, lock_state)
<1> DEFINE w == call.wallet
<1>0. call.method \in Method
  BY ServerAssumption, Zenon DEF ServerAssumption
<1>1. CASE call.method = "backend.register"
  BY <1>1, Zenon DEF Command, QueryMethod, RegisterCommand, RegisterBackend, RegisteringMethod
<1>2. CASE call.method = "backend.updateAccounts"
  BY <1>2, Zenon DEF Command, QueryMethod, UpdateCommand, UpdateBackendAccounts,
              RegisteringMethod, KindMayRegister
<1>3. CASE call.method = "extension.register"
  BY <1>3, Zenon DEF Command, QueryMethod, RegisterExtension, RegisterBackend, ExtensionMethod
<1>4. CASE call.method = "extension.updateAccounts"
  BY <1>4, Zenon DEF Command, QueryMethod, UpdateExtension, UpdateBackendAccounts,
              ExtensionMethod, KindMayRegister
<1>5. CASE call.method \in {"extension.heartbeat", "backend.heartbeat"}
  BY <1>5, Zenon DEF Command, QueryMethod, HeartbeatExtension, HeartbeatCommand, HeartbeatBackend
<1>6. CASE call.method = "wallet.setAccountLabel"
  BY <1>6, Zenon DEF Command, QueryMethod, SetLabelCommand, SetAccountLabel
<1>7. CASE call.method \in {"request.create", "request.cancel"}
  BY <1>7, Zenon DEF Command, QueryMethod, CreateCommand, CreateRequest, ReplayCreateRequest, CancelCommand,
              CancelRequest
<1>8. CASE call.method = "request.pullNext"
  BY <1>8, Zenon DEF Command, QueryMethod, PullCommand, ResumeRequest, ClaimRequest, vars
<1>9. CASE call.method \in {"request.presented", "request.resolve", "request.reject"}
  BY <1>9, Zenon DEF Command, QueryMethod, PresentedCommand, ResolveCommand, RejectCommand,
              MarkRequestPresented, ResolveRequest, RejectRequest
<1>10. CASE call.method \in QueryMethod
  BY <1>10, Zenon DEF Command, QueryMethod, vars
<1> QED
  BY <1>0, <1>1, <1>2, <1>3, <1>4, <1>5, <1>6, <1>7, <1>8, <1>9, <1>10, Zenon
  DEF Method, WalletMethod, RegisteringMethod, ExtensionMethod

\* Nobody calls but with a known call, and what is queued passed the checks of
\* the configuration that still holds.
ConnectionOK(task) ==
    /\ DOMAIN task = {"stage", "call"}
    /\ task.stage \in {"free", "read", "queued", "reply"}
    /\ task.stage # "free" => task.call \in CallInput
    /\ task.stage = "queued" => policy_admits(task.call)

ConnectionsOK ==
    DOMAIN connection = Connection /\ \A k \in Connection : ConnectionOK(connection[k])

\* A connection is in the queue at most once, and only while it waits.
QueueOK ==
    /\ queue \in Seq(Connection \cup {"tick"})
    /\ \A i \in 1 .. Len(queue) :
          queue[i] # "tick" => connection[queue[i]].stage = "queued"
    /\ \A i, j \in 1 .. Len(queue) : queue[i] = queue[j] /\ queue[i] # "tick" => i = j

\* Local wallets are those of local agents.
LocalOK ==
    /\ DOMAIN instances = WalletId
    /\ \A w \in WalletId : Local(w) => w \in AgentWallet

ServerInv == ConnectionsOK /\ QueueOK /\ LocalOK

\* The first in the queue has a call that passed the checks.
LEMMA HeadIsAdmitted ==
    ASSUME ServerInv, queue # <<>>, Head(queue) # "tick"
    PROVE  /\ Head(queue) \in Connection
           /\ connection[Head(queue)].call \in CallInput
           /\ policy_admits(connection[Head(queue)].call)
<1>1. Len(queue) > 0 /\ Head(queue) = queue[1] /\ Head(queue) \in Connection \cup {"tick"}
  BY DEF ServerInv, QueueOK
<1>2. connection[Head(queue)].stage = "queued"
  BY <1>1 DEF ServerInv, QueueOK
<1> QED
  BY <1>1, <1>2, Zenon DEF ServerInv, ConnectionsOK, ConnectionOK

\* The coordinator takes the first command and answers it.
LEMMA TakenQueue ==
    ASSUME ServerInv, RunNext
    PROVE  ConnectionsOK' /\ QueueOK'
<1>1. queue # <<>> /\ queue' = Tail(queue) /\ enabled' = enabled
  BY DEF RunNext
<1>2. /\ queue' \in Seq(Connection \cup {"tick"}) /\ Len(queue') = Len(queue) - 1
      /\ Len(queue) \in Nat \ {0} /\ Head(queue) = queue[1]
      /\ \A i \in 1 .. Len(queue') : queue'[i] = queue[i + 1]
  BY <1>1 DEF ServerInv, QueueOK
<1>3. \A i \in 1 .. Len(queue') : i + 1 \in 1 .. Len(queue)
  BY <1>2
<1>4. \A i \in 1 .. Len(queue') : queue'[i] # "tick" => connection[queue'[i]].stage = "queued"
  <2> SUFFICES ASSUME NEW i \in 1 .. Len(queue'), queue'[i] # "tick"
               PROVE  connection[queue'[i]].stage = "queued"
    BY Zenon
  <2>1. i + 1 \in 1 .. Len(queue) /\ queue'[i] = queue[i + 1]
    BY <1>2, <1>3, Zenon
  <2> QED
    BY <2>1, Zenon DEF ServerInv, QueueOK
<1>5. \A i, j \in 1 .. Len(queue') : queue'[i] = queue'[j] /\ queue'[i] # "tick" => i = j
  <2> SUFFICES ASSUME NEW i \in 1 .. Len(queue'), NEW j \in 1 .. Len(queue'),
                      queue'[i] = queue'[j], queue'[i] # "tick"
               PROVE  i = j
    BY Zenon
  <2>1. /\ i + 1 \in 1 .. Len(queue) /\ j + 1 \in 1 .. Len(queue)
        /\ queue[i + 1] = queue[j + 1] /\ queue[i + 1] # "tick"
    BY <1>2, <1>3, Zenon
  <2>2. i + 1 = j + 1
    BY <2>1, Zenon DEF ServerInv, QueueOK
  <2> QED
    BY <2>2
<1>6. CASE Head(queue) = "tick"
  <2>1. connection' = connection
    BY <1>6 DEF RunNext
  <2>2. QueueOK'
    BY <1>2, <1>4, <1>5, <2>1, Zenon DEF QueueOK
  <2> QED
    BY <1>1, <2>1, <2>2 DEF ServerInv, ConnectionsOK, ConnectionOK, policy_admits
<1>7. CASE Head(queue) # "tick"
  <2> DEFINE k == Head(queue)
             task == [connection[k] EXCEPT !.stage = "reply"]
  <2>1. k \in Connection /\ connection[k].call \in CallInput
    BY <1>1, <1>7, HeadIsAdmitted, Zenon
  <2>2. connection' = [connection EXCEPT ![k] = task]
    BY <1>7, Zenon DEF RunNext
  <2>3. task.stage = "reply" /\ task.call = connection[k].call /\ DOMAIN task = {"stage", "call"}
    BY <2>1 DEF ServerInv, ConnectionsOK, ConnectionOK
  <2> HIDE DEF task, k
  <2>4. ConnectionsOK'
    BY <1>1, <2>1, <2>2, <2>3 DEF ServerInv, ConnectionsOK, ConnectionOK, policy_admits
  <2>5. \A i \in 1 .. Len(queue') : queue'[i] # "tick" => queue'[i] # k
    BY <1>2, <1>7 DEF ServerInv, QueueOK, k
  <2>6. ASSUME NEW i \in 1 .. Len(queue'), queue'[i] # "tick"
        PROVE  connection'[queue'[i]].stage = "queued"
    <3>1. queue'[i] \in Connection /\ queue'[i] # k
      BY <1>2, <2>5, <2>6
    <3>2. connection[queue'[i]].stage = "queued"
      BY <1>4, <2>6, Zenon
    <3> QED
      BY <2>2, <3>1, <3>2, Zenon DEF ServerInv, ConnectionsOK
  <2> QED
    BY <1>2, <1>5, <2>4, <2>6, Zenon DEF QueueOK
<1> QED
  BY <1>6, <1>7, Zenon

\* One connection changes that is not in the queue.
LEMMA ConnectionMoves ==
    ASSUME ServerInv, NEW k \in Connection, NEW task, ConnectionOK(task),
           connection' = [connection EXCEPT ![k] = task], connection[k].stage # "queued",
           UNCHANGED <<queue, enabled>>
    PROVE  ConnectionsOK' /\ QueueOK'
<1>1. ConnectionsOK'
  BY DEF ServerInv, ConnectionsOK, ConnectionOK, policy_admits
<1>2. \A i \in 1 .. Len(queue) : queue[i] # "tick" => queue[i] \in Connection /\ queue[i] # k
  BY DEF ServerInv, QueueOK
<1>3. QueueOK'
  BY <1>2, Zenon DEF ServerInv, ConnectionsOK, QueueOK
<1> QED
  BY <1>1, <1>3, Zenon

\* Something new at the end of the queue.
LEMMA JoinsQueue ==
    ASSUME ServerInv, NEW x \in Connection \cup {"tick"}, queue' = Append(queue, x),
           x # "tick" => connection'[x].stage = "queued" /\ connection[x].stage # "queued",
           \A k \in Connection : k # x => connection'[k] = connection[k]
    PROVE  QueueOK'
<1>1. /\ queue' \in Seq(Connection \cup {"tick"}) /\ Len(queue') = Len(queue) + 1
      /\ queue'[Len(queue) + 1] = x /\ Len(queue) \in Nat
      /\ \A i \in 1 .. Len(queue) : queue'[i] = queue[i] /\ queue[i] \in Connection \cup {"tick"}
  BY DEF ServerInv, QueueOK
<1>2. \A i \in 1 .. Len(queue) : queue[i] # "tick" =>
          queue[i] # x /\ connection[queue[i]].stage = "queued"
  BY Zenon DEF ServerInv, QueueOK
<1>3. \A i \in 1 .. Len(queue') : queue'[i] # "tick" => connection'[queue'[i]].stage = "queued"
  BY <1>1, <1>2
<1>4. \A i, j \in 1 .. Len(queue') : queue'[i] = queue'[j] /\ queue'[i] # "tick" => i = j
  BY <1>1, <1>2 DEF ServerInv, QueueOK
<1> QED
  BY <1>1, <1>3, <1>4, Zenon DEF QueueOK

LEMMA ConnectionStep ==
    ASSUME ServerInv, NEW k \in Connection, Accept(k) \/ ReadFails(k) \/ TaskStep(k)
    PROVE  ConnectionsOK' /\ QueueOK' /\ UNCHANGED vars
<1>0. /\ ConnectionOK(connection[k]) /\ DOMAIN connection = Connection
      /\ DOMAIN connection[k] = {"stage", "call"}
  BY Zenon DEF ServerInv, ConnectionsOK, ConnectionOK
<1>1. CASE Accept(k)
  <2>1. PICK call \in CallInput :
            connection' = [connection EXCEPT ![k] = [stage |-> "read", call |-> call]]
    BY <1>1, Zenon DEF Accept
  <2>2. ConnectionOK([stage |-> "read", call |-> call])
    BY Zenon DEF ConnectionOK
  <2>3. connection[k].stage # "queued" /\ UNCHANGED <<queue, enabled, vars>>
    BY <1>1 DEF Accept, Free
  <2> QED
    BY <2>1, <2>2, <2>3, ConnectionMoves, Zenon
<1>2. CASE ReadFails(k) \/ Respond(k)
  <2>1. ConnectionOK(Free)
    BY Zenon DEF ConnectionOK, Free
  <2> QED
    BY <1>2, <2>1, ConnectionMoves, Zenon DEF ReadFails, Respond
<1>3. CASE dispatch_request(k)
  <2> DEFINE call == connection[k].call
             task(stage) == [connection[k] EXCEPT !.stage = stage]
  <2>1. call \in CallInput /\ connection[k].stage = "read" /\ UNCHANGED <<enabled, vars>>
    BY <1>0, <1>3, Zenon DEF dispatch_request, ConnectionOK
  <2>2. \A stage : /\ DOMAIN task(stage) = {"stage", "call"} /\ task(stage).stage = stage
                   /\ task(stage).call = call
    BY <1>0
  <2>3. CASE decode_protocol(call.method, call.version) /\ policy_admits(call)
    <3>1. connection' = [connection EXCEPT ![k] = task("queued")] /\ queue' = Append(queue, k)
      BY <1>3, <2>3, Zenon DEF dispatch_request
    <3> HIDE DEF task, call
    <3>2. ConnectionOK(task("queued"))
      BY <2>1, <2>2, <2>3, Zenon DEF ConnectionOK
    <3>3. ConnectionsOK'
      BY <2>1, <3>1, <3>2 DEF ServerInv, ConnectionsOK, ConnectionOK, policy_admits
    <3>4. QueueOK'
      BY <1>0, <2>1, <2>2, <3>1, JoinsQueue, Zenon
    <3> QED
      BY <2>1, <3>3, <3>4, Zenon
  <2>4. CASE ~(decode_protocol(call.method, call.version) /\ policy_admits(call))
    <3>1. connection' = [connection EXCEPT ![k] = task("reply")] /\ queue' = queue
      BY <1>3, <2>4, Zenon DEF dispatch_request
    <3> HIDE DEF task, call
    <3>2. ConnectionOK(task("reply"))
      BY <2>1, <2>2, Zenon DEF ConnectionOK
    <3> QED
      BY <2>1, <3>1, <3>2, ConnectionMoves, Zenon
  <2> QED
    BY <2>3, <2>4, Zenon
<1> QED
  BY <1>1, <1>2, <1>3, Zenon DEF TaskStep

\* What the coordinator does with the first in the queue.
LEMMA RunsCommand ==
    ASSUME ServerInv, RunNext
    PROVE  \/ TickMaintenance \/ UNCHANGED vars
           \/ \E call \in CallInput : policy_admits(call) /\ Command(call)
<1>1. CASE Head(queue) = "tick"
  BY <1>1 DEF RunNext
<1>2. CASE Head(queue) # "tick"
  <2>1. queue # <<>> /\ (Command(connection[Head(queue)].call) \/ UNCHANGED vars)
    BY <1>2, Zenon DEF RunNext
  <2> QED
    BY <1>2, <2>1, HeadIsAdmitted, Zenon
<1> QED
  BY <1>1, <1>2, Zenon

\* The whole daemon is a coordinator: what its server queues are commands, in
\* whatever order they come, and a restart leaves the database as it is.
LEMMA ServerStepIsStep ==
    ASSUME ServerInv, [ServerNext]_<<vars, serverVars>>
    PROVE  [Next]_vars
<1>1. CASE \E k \in Connection : Accept(k) \/ ReadFails(k) \/ TaskStep(k)
  BY <1>1, ConnectionStep, Zenon
<1>2. CASE RunNext
  <2>1. CASE TickMaintenance
    BY <2>1, Zenon DEF Next, DaemonNext
  <2> QED
    BY <1>2, <2>1, RunsCommand, CommandIsStep, Zenon
<1>3. CASE QueueTick \/ Restart \/ UNCHANGED <<vars, serverVars>>
  BY <1>3, Zenon DEF QueueTick, Restart
<1>4. CASE Time
  BY <1>4, Zenon DEF Time, Next
<1> QED
  BY <1>1, <1>2, <1>3, <1>4, Zenon DEF ServerNext

\* A wallet that is heard: what the command of an admitted call does to a local
\* wallet, and who becomes one.
LEMMA HeardIsConfigured ==
    ASSUME ServerInv, NEW call \in CallInput, policy_admits(call), Command(call),
           NEW w \in WalletId
    PROVE  /\ Local(w) /\ instances'[w] # instances[w] => w \in enabled
           /\ Local(w)' => w \in AgentWallet
           /\ DOMAIN instances' = WalletId
<1> DEFINE v == call.wallet
<1>0. DOMAIN instances = WalletId /\ (Local(w) => w \in AgentWallet)
  BY Zenon DEF ServerInv, LocalOK
<1>1. CASE UNCHANGED instances
  BY <1>0, <1>1, Zenon DEF Local
<1>2. CASE /\ call.method \in RegisteringMethod
           /\ call.method = "backend.updateAccounts" =>
                 instances[v].backend_kind = call.snapshot.backend_kind
           /\ instances' = [instances EXCEPT ![v] = RegisteredInstance(call.snapshot)]
  <2>1. v \in enabled
    BY <1>2, Zenon DEF RegisteringMethod, policy_admits
  <2>2. RegisteredInstance(call.snapshot).backend_kind = call.snapshot.backend_kind
    BY Zenon DEF RegisteredInstance
  <2>3. call.method = "backend.register" /\ call.snapshot.backend_kind = "local_account_dir"
        => v \in AgentWallet
    BY Zenon DEF AgentWallet
  <2> HIDE DEF v
  <2>4. w # v => instances'[w] = instances[w]
    BY <1>2
  <2>5. w = v => instances'[w].backend_kind = call.snapshot.backend_kind
    BY <1>0, <1>2, <2>2, Zenon
  <2>6. Local(w)' => w \in AgentWallet
    BY <1>0, <1>2, <2>3, <2>4, <2>5, Zenon DEF Local, RegisteringMethod
  <2> QED
    BY <1>0, <1>2, <2>1, <2>4, <2>6, Zenon
<1>3. CASE /\ call.method \in ExtensionMethod
           /\ KindMayRegister(v, AsExtension(call.snapshot))
           /\ instances' = [instances EXCEPT ![v] =
                               RegisteredInstance(AsExtension(call.snapshot))]
  <2>1. AsExtension(call.snapshot).backend_kind = "starmask_extension"
    <3>1. AsExtension(call.snapshot) \in Snapshots
      BY <1>3, ServerAssumption, CoordinatorAssumption, Zenon
      DEF ServerAssumption, CoordinatorAssumption
    <3>2. "backend_kind" \in DOMAIN AsExtension(call.snapshot)
      BY <3>1, Zenon DEF Snapshots, LocalSnapshots, ExtensionSnapshots
    <3> QED
      BY <3>2 DEF AsExtension
  <2>2. /\ RegisteredInstance(AsExtension(call.snapshot)).backend_kind = "starmask_extension"
        /\ w = v => ~Local(w)
    BY <1>3, <2>1, Zenon DEF RegisteredInstance, KindMayRegister, Local
  <2> HIDE DEF v
  <2>3. w # v => instances'[w] = instances[w]
    BY <1>3
  <2>4. w = v => ~Local(w)'
    BY <1>0, <1>3, <2>2, Zenon DEF Local
  <2> QED
    BY <1>0, <1>3, <2>2, <2>3, <2>4, Zenon DEF Local
<1>4. ASSUME call.method \in {"extension.heartbeat", "backend.heartbeat"}, NEW lock_state,
             HeartbeatInstance(v, lock_state)
      PROVE  /\ Local(w) /\ instances'[w] # instances[w] => w \in enabled
             /\ Local(w)' => w \in AgentWallet
             /\ DOMAIN instances' = WalletId
  <2>1. PICK row : /\ instances' = [instances EXCEPT ![v] = row]
                   /\ row = [instances[v] EXCEPT
                                !.connected = TRUE, !.last_seen_at = now,
                                !.lock_state = IF lock_state = "keep"
                                               THEN instances[v].lock_state ELSE lock_state]
    BY <1>4, Zenon DEF HeartbeatInstance
  <2>2. row.backend_kind = instances[v].backend_kind
    BY <2>1
  <2>3. call.method = "backend.heartbeat" => v \in enabled
    BY DEF policy_admits
  <2>4. call.method = "extension.heartbeat" => v \notin AgentWallet
    BY ServerAssumption, Zenon DEF ServerAssumption
  <2> HIDE DEF v
  <2>5. w # v => instances'[w] = instances[w]
    BY <2>1
  <2>6. Local(w)' => Local(w)
    BY <1>0, <2>1, <2>2, <2>5, Zenon DEF Local
  <2> QED
    BY <1>0, <1>4, <2>1, <2>3, <2>4, <2>5, <2>6
<1> HIDE DEF v
<1> QED
  BY <1>1, <1>2, <1>3, <1>4, CommandHears, Zenon DEF v

\* The sweep takes wallets offline, and does nothing else to them.
LEMMA SweepOnlyDisconnects ==
    ASSUME ServerInv, TickMaintenance, NEW w \in WalletId
    PROVE  /\ \/ instances'[w] = instances[w]
              \/ instances'[w] = [instances[w] EXCEPT !.connected = FALSE]
           /\ Local(w)' => Local(w)
           /\ DOMAIN instances' = WalletId
<1>1. /\ DOMAIN instances' = WalletId
      /\ \/ instances'[w] = instances[w]
         \/ instances'[w] = [instances[w] EXCEPT !.connected = FALSE]
  BY Zenon DEF TickMaintenance, TickWrites, MarkStale
<1>2. [instances[w] EXCEPT !.connected = FALSE].backend_kind = instances[w].backend_kind
  OBVIOUS
<1> QED
  BY <1>1, <1>2, Zenon DEF Local

LEMMA ServerInvInit == ServerInit => ServerInv
<1> SUFFICES ASSUME ServerInit PROVE ServerInv
  OBVIOUS
<1>1. ConnectionOK(Free)
  BY Zenon DEF ConnectionOK, Free
<1>2. ConnectionsOK
  BY <1>1, Zenon DEF ServerInit, ConnectionsOK
<1>3. QueueOK
  BY DEF ServerInit, QueueOK
<1>4. LocalOK
  BY Zenon DEF ServerInit, Init, RegistryInit, LocalOK, Local, Unregistered
<1> QED
  BY <1>2, <1>3, <1>4 DEF ServerInv

LEMMA ServerInvNext == ServerInv /\ [ServerNext]_<<vars, serverVars>> => ServerInv'
<1> SUFFICES ASSUME ServerInv, [ServerNext]_<<vars, serverVars>> PROVE ServerInv'
  BY Zenon
<1>0. UNCHANGED instances => LocalOK'
  BY Zenon DEF ServerInv, LocalOK, Local
<1>1. CASE \E k \in Connection : Accept(k) \/ ReadFails(k) \/ TaskStep(k)
  BY <1>0, <1>1, ConnectionStep, Zenon DEF ServerInv, vars
<1>2. CASE RunNext
  <2>1. ASSUME TickMaintenance PROVE LocalOK'
    BY <2>1, SweepOnlyDisconnects, Zenon DEF ServerInv, LocalOK, TickMaintenance, TickWrites, MarkStale
  <2>2. ASSUME NEW call \in CallInput, policy_admits(call), Command(call) PROVE LocalOK'
    <3>1. DOMAIN instances' = WalletId
      <4>1. CASE WalletId = {}
        BY <2>2, <4>1, CommandHears, Zenon DEF ServerInv, LocalOK, HeartbeatInstance
      <4>2. CASE WalletId # {}
        BY <2>2, <4>2, HeardIsConfigured, Zenon
      <4> QED
        BY <4>1, <4>2, Zenon
    <3> QED
      BY <2>2, <3>1, HeardIsConfigured, Zenon DEF LocalOK
  <2>3. UNCHANGED vars => LocalOK'
    BY <1>0, Zenon DEF vars
  <2> QED
    BY <1>2, <2>1, <2>2, <2>3, RunsCommand, TakenQueue, Zenon DEF ServerInv
<1>3. CASE QueueTick
  <2>1. QueueOK'
    BY <1>3, JoinsQueue, Zenon DEF QueueTick
  <2> QED
    BY <1>0, <1>3, <2>1, Zenon
    DEF QueueTick, ServerInv, ConnectionsOK, ConnectionOK, policy_admits, vars
<1>4. CASE Restart
  <2>1. ConnectionOK(Free)'
    BY Zenon DEF ConnectionOK, Free
  <2>2. ConnectionsOK'
    BY <1>4, <2>1, Zenon DEF Restart, ConnectionsOK, ConnectionOK, policy_admits, Free
  <2>3. QueueOK'
    BY <1>4 DEF Restart, QueueOK
  <2> QED
    BY <1>0, <1>4, <2>2, <2>3, Zenon DEF Restart, ServerInv, vars
<1>5. CASE Time \/ UNCHANGED <<vars, serverVars>>
  BY <1>0, <1>5
  DEF Time, registryVars, serverVars, vars, ServerInv, ConnectionsOK, ConnectionOK, QueueOK,
      policy_admits
<1> QED
  BY <1>1, <1>2, <1>3, <1>4, <1>5, Zenon DEF ServerNext

LEMMA ServerInvariant == ServerSpec => []ServerInv
<1> QED
  BY ServerInvInit, ServerInvNext, PTL DEF ServerSpec

\* The daemon behind its server implements the coordinator, whatever calls come
\* over whatever connections, are refused, wait in the queue or are lost in a
\* restart (serve_connection, dispatch_request and the coordinator thread): so
\* the theorems about the coordinator hold of the daemon.
THEOREM ServerIsCoordinated == ServerSpec => Spec
<1>1. ServerInit => Init
  BY Zenon DEF ServerInit
<1>2. ServerInv /\ [ServerNext]_<<vars, serverVars>> => [Next]_vars
  BY ServerStepIsStep, Zenon
<1> QED
  BY <1>1, <1>2, ServerInvariant, PTL DEF ServerSpec, Spec

\* ServerPolicy: a local backend that the configuration does not name is not
\* heard, for any number of connections, any queue and any restarts between the
\* check of a call and its command.
THEOREM OnlyConfiguredHeard == ServerSpec => OnlyConfiguredAreHeard
<1>1. ASSUME ServerInv, [ServerNext]_<<vars, serverVars>>, NEW w \in WalletId,
             Local(w), instances'[w] # instances[w]
      PROVE  w \in enabled \/ instances'[w] = [instances[w] EXCEPT !.connected = FALSE]
  <2>1. RunNext
    BY <1>1, ConnectionStep, Zenon
    DEF ServerNext, QueueTick, Restart, Time, registryVars, vars
  <2>2. CASE TickMaintenance
    BY <1>1, <2>2, SweepOnlyDisconnects, Zenon
  <2>3. ~UNCHANGED vars
    BY <1>1, Zenon DEF vars
  <2> QED
    BY <1>1, <2>1, <2>2, <2>3, RunsCommand, HeardIsConfigured
<1>2. ServerInv /\ [ServerNext]_<<vars, serverVars>> =>
        [\A w \in WalletId :
            Local(w) /\ instances'[w] # instances[w]
                => w \in enabled \/ instances'[w] = [instances[w] EXCEPT !.connected = FALSE]
        ]_<<instances, enabled>>
  BY <1>1, Zenon
<1> QED
  BY <1>2, ServerInvariant, PTL DEF ServerSpec, OnlyConfiguredAreHeard
=============================================================================
