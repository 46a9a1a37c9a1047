---------------------------- MODULE Coordinator ----------------------------
(***************************************************************************)
(* The coordinator of starmaskd: one thread that takes commands off a      *)
(* queue and runs each to completion against the SQLite store.  Callers    *)
(* create and cancel requests; wallet backends register, heartbeat, claim, *)
(* present, resolve and reject; the daemon's own timer runs maintenance.   *)
(* An action is one command.  A command that fails its checks answers with *)
(* an error and writes nothing: it is a stuttering step, so only the       *)
(* accepted forms appear.  Callers are unreliable: any command may come at *)
(* any time, be repeated, or carry ids of leases and presentations that    *)
(* are no longer current.                                                  *)
(***************************************************************************)
EXTENDS WalletRegistry

CONSTANTS
    RequestId, ClientRequestId, PresentationId,
    Payload,               \* what a request carries besides its kind
    NoAddress,             \* the empty account_address of create_account
    NoPresentation,        \* an absent presentation_id
    SnapshotInput,         \* the snapshots backends publish
    KindInput,             \* the request kinds callers use
    ReasonInput,           \* the reject reasons wallets use
    TtlInput,              \* ttl_seconds callers ask for (none = the default)
    MinRequestTtl, MaxRequestTtl,
    DeliveryLeaseTtl, PresentationLeaseTtl, ResultRetention,
    MaxLeases              \* bound: how many delivery leases are ever granted

ASSUME CoordinatorAssumption ==
    /\ NoPresentation \notin PresentationId
    /\ SnapshotInput \subseteq Snapshots
    /\ KindInput \subseteq RequestKind
    /\ ReasonInput \subseteq RejectReasonCode
    /\ TtlInput \subseteq Nat
    /\ MinRequestTtl \in Nat /\ MaxRequestTtl \in Nat
    /\ DeliveryLeaseTtl \in Nat /\ PresentationLeaseTtl \in Nat
    /\ ResultRetention \in Nat /\ MaxLeases \in Nat

VARIABLES
    requests,      \* the requests table, a function from the ids in use
    next_lease_id, \* the next fresh delivery_lease_id
    acknowledged   \* history: every successful answer to a create call

requestVars == <<requests, next_lease_id, acknowledged>>
vars == <<now, instances, accounts, labels, requests, next_lease_id, acknowledged>>

NoDeliveryLease == [id |-> 0, expires_at |-> 0]
NoPresentationLease == [id |-> NoPresentation, expires_at |-> 0]

\* A row of the requests table.  Timestamps only ever displayed (updated_at,
\* approved_at and the like) and message texts are left out; 0 is SQL NULL.
Request ==
    [client_request_id  : ClientRequestId,
     kind               : RequestKind,
     wallet_instance_id : WalletId,
     account_address    : Address \cup {NoAddress},
     payload_hash       : RequestKind \X Payload,
     created_at         : Nat,
     expires_at         : Nat,
     status             : RequestStatus,
     result             : ResultKind \cup {"none"},
     result_expires_at  : Nat,
     last_error_code    : SharedErrorCode \cup {"none"},
     delivery_lease     : [id : Nat, expires_at : Nat],
     presentation       : [id : PresentationId \cup {NoPresentation},
                           expires_at : Nat]]

\* The arguments of a create call, TTL apart.  Creating an account names no
\* address, and a request that changes the wallet itself must name the wallet.
CreateCall ==
    {call \in [client_request_id : ClientRequestId,
               kind              : KindInput,
               account_address   : Address \cup {NoAddress},
               payload           : Payload,
               wallet            : WalletId \cup {AnyWallet}] :
        /\ (call.account_address = NoAddress) <=> (call.kind = "create_account")
        /\ call.kind \in MutationKind => call.wallet # AnyWallet}

Init ==
    /\ RegistryInit
    /\ requests = [r \in {} |-> {}]
    /\ next_lease_id = 1
    /\ acknowledged = {}

Put(r, row) == [x \in DOMAIN requests \cup {r} |-> IF x = r THEN row ELSE requests[x]]

Owned(w) == {r \in DOMAIN requests : requests[r].wallet_instance_id = w}

Oldest(S) == {r \in S : \A s \in S : requests[r].created_at <= requests[s].created_at}
----------------------------------------------------------------------------
(* Callers: create, retry, cancel.                                          *)

\* The hash covers the payload's kind tag; it is taken to be collision-free.
calculate_payload_hash(kind, payload) == <<kind, payload>>

\* Max then min: with a minimum configured above the maximum, the maximum wins.
clamp_ttl(ttl) ==
    LET raised == IF ttl < MinRequestTtl THEN MinRequestTtl ELSE ttl
    IN  IF raised > MaxRequestTtl THEN MaxRequestTtl ELSE raised

\* Mutant: only live requests are looked up.
WithClientRequestId_Live(c) ==
    {r \in DOMAIN requests : /\ requests[r].client_request_id = c
                             /\ ~is_terminal(requests[r].status)}

\* get_request_by_client_request_id
WithClientRequestId(c) ==
    {r \in DOMAIN requests : requests[r].client_request_id = c}

Acknowledge(call, r) ==
    acknowledged' = acknowledged \cup {[call |-> call, request_id |-> r]}

\* The clock is bounded: only requests whose TTL ends within it are made.
CreateRequest(call, ttl) ==
    LET expires_at == now + clamp_ttl(ttl)
    IN  /\ WithClientRequestId(call.client_request_id) = {}
        /\ expires_at <= MaxTime
        /\ \E w \in WalletId, r \in RequestId \ DOMAIN requests :
              /\ resolve_wallet_for_request(call.kind, call.account_address, call.wallet, w)
              /\ requests' = Put(r,
                   [client_request_id  |-> call.client_request_id,
                    kind               |-> call.kind,
                    wallet_instance_id |-> w,
                    account_address    |-> call.account_address,
                    payload_hash       |-> calculate_payload_hash(call.kind, call.payload),
                    created_at         |-> now,
                    expires_at         |-> expires_at,
                    status             |-> "created",
                    result             |-> "none",
                    result_expires_at  |-> 0,
                    last_error_code    |-> "none",
                    delivery_lease     |-> NoDeliveryLease,
                    presentation       |-> NoPresentationLease])
              /\ Acknowledge(call, r)
        /\ UNCHANGED <<now, instances, accounts, labels, next_lease_id>>

\* A create call whose client_request_id is taken: answered with the existing
\* request if payload and signing target agree, refused otherwise.
ReplayCreateRequest(call) ==
    /\ \E r \in WithClientRequestId(call.client_request_id) :
          /\ requests[r].account_address = call.account_address
          /\ call.wallet \in {AnyWallet, requests[r].wallet_instance_id}
          /\ requests[r].payload_hash = calculate_payload_hash(call.kind, call.payload)
          /\ Acknowledge(call, r)
    /\ UNCHANGED <<now, instances, accounts, labels, requests, next_lease_id>>

\* A transition out of dispatched or pending_user_approval, with the clearing
\* of both leases that goes with every one of them.
Released(row, status) ==
    [row EXCEPT !.status = status,
                !.delivery_lease = NoDeliveryLease,
                !.presentation = NoPresentationLease]

Cancelled(row) ==
    [Released(row, "cancelled") EXCEPT !.last_error_code = "request_cancelled"]

CancelRequest(r) ==
    /\ r \in DOMAIN requests
    /\ can_transition_to(requests[r].status, "cancelled")
    /\ requests' = Put(r, Cancelled(requests[r]))
    /\ UNCHANGED <<now, instances, accounts, labels, next_lease_id, acknowledged>>
----------------------------------------------------------------------------
(* Wallet backends.                                                         *)

Renewed(row) ==
    [row EXCEPT !.presentation = [id |-> row.presentation.id,
                                  expires_at |-> now + PresentationLeaseTtl]]

\* Heartbeats name the requests on screen; the lease of each that is pending
\* under this wallet is renewed, and the others are skipped.  A crash between
\* the single writes leaves what a heartbeat naming fewer requests would.
HeartbeatBackend(w, lock_state, presented_request_ids) ==
    /\ HeartbeatInstance(w, lock_state)
    /\ requests' = [r \in DOMAIN requests |->
          IF /\ r \in presented_request_ids \cap Owned(w)
             /\ requests[r].status = "pending_user_approval"
             /\ requests[r].presentation.id # NoPresentation
          THEN Renewed(requests[r])
          ELSE requests[r]]
    /\ UNCHANGED <<now, next_lease_id, acknowledged>>

\* find_resumable_request, before the choice of the oldest.
Resumable(w) ==
    {r \in Owned(w) : /\ requests[r].status = "pending_user_approval"
                      /\ requests[r].presentation.id # NoPresentation
                      /\ requests[r].presentation.expires_at > now}

\* claim_next_request_for_wallet, before the choice of the oldest.
Claimable(w) == {r \in Owned(w) : requests[r].status = "created"}

\* Mutant: work already handed out is announced again.
request_has_available_Live(w) ==
    \E r \in Owned(w) : ~is_terminal(requests[r].status)

request_has_available(w) ==
    \E r \in Owned(w) : requests[r].status \in {"created", "pending_user_approval"}

\* pull_next_request when a presentation is still live.
ResumeRequest(w, r) ==
    /\ Registered(w)
    /\ r \in Oldest(Resumable(w))
    /\ requests' = Put(r, Renewed(requests[r]))
    /\ UNCHANGED <<now, instances, accounts, labels, next_lease_id, acknowledged>>

Claimed(row) ==
    [row EXCEPT !.status = "dispatched",
                !.delivery_lease = [id |-> next_lease_id,
                                    expires_at |-> now + DeliveryLeaseTtl]]

\* Mutant: new work is claimed although a presentation could be resumed.
ClaimRequest_Eager(w, r) ==
    /\ Registered(w)
    /\ r \in Oldest(Claimable(w))
    /\ next_lease_id <= MaxLeases
    /\ next_lease_id' = next_lease_id + 1
    /\ requests' = Put(r, Claimed(requests[r]))
    /\ UNCHANGED <<now, instances, accounts, labels, acknowledged>>

\* pull_next_request otherwise: neither the TTL nor the wallet's current
\* capabilities, lock state or connection are looked at.
ClaimRequest(w, r) ==
    /\ Registered(w)
    /\ Resumable(w) = {}
    /\ r \in Oldest(Claimable(w))
    /\ next_lease_id <= MaxLeases
    /\ next_lease_id' = next_lease_id + 1
    /\ requests' = Put(r, Claimed(requests[r]))
    /\ UNCHANGED <<now, instances, accounts, labels, acknowledged>>

validate_delivery_lease(row, id) ==
    /\ row.delivery_lease.id # 0
    /\ row.delivery_lease.id = id
    /\ row.delivery_lease.expires_at > now

validate_presentation(row, id) ==
    /\ row.status = "pending_user_approval"
    /\ row.presentation.id # NoPresentation
    /\ row.presentation.id = id
    /\ row.presentation.expires_at > now

\* Mutant: the delivery lease is kept.
Presented_KeepsLease(row, id) ==
    [row EXCEPT !.status = "pending_user_approval",
                !.presentation = [id |-> id, expires_at |-> now + PresentationLeaseTtl]]

Presented(row, id) ==
    [row EXCEPT !.status = "pending_user_approval",
                !.delivery_lease = NoDeliveryLease,
                !.presentation = [id |-> id, expires_at |-> now + PresentationLeaseTtl]]

\* delivery_lease_id 0: the call carries none (a resumed presentation).
MarkRequestPresented(w, r, presentation_id, delivery_lease_id) ==
    /\ r \in Owned(w)
    /\ \/ /\ requests[r].status = "dispatched"
          /\ validate_delivery_lease(requests[r], delivery_lease_id)
          /\ can_transition_to(requests[r].status, "pending_user_approval")
       \/ /\ requests[r].status = "pending_user_approval"
          /\ delivery_lease_id = 0
          /\ validate_presentation(requests[r], presentation_id)
    /\ requests' = Put(r, Presented(requests[r], presentation_id))
    /\ UNCHANGED <<now, instances, accounts, labels, next_lease_id, acknowledged>>

\* Mutant: any result is taken.
validate_request_result_Any(row, result) == TRUE

validate_request_result(row, result) == result = expected_result_kind(row.kind)

Resolved(row, result) ==
    [Released(row, "approved") EXCEPT !.result = result,
                                      !.result_expires_at = now + ResultRetention,
                                      !.last_error_code = "none"]

ResolveRequest(w, r, presentation_id, result) ==
    /\ r \in Owned(w)
    /\ validate_request_result(requests[r], result)
    /\ validate_presentation(requests[r], presentation_id)
    /\ can_transition_to(requests[r].status, "approved")
    /\ requests' = Put(r, Resolved(requests[r], result))
    /\ UNCHANGED <<now, instances, accounts, labels, next_lease_id, acknowledged>>

Rejected(row, reason) ==
    [Released(row, map_reject_reason(reason).status) EXCEPT
        !.last_error_code = map_reject_reason(reason).error]

RejectRequest(w, r, presentation_id, reason) ==
    /\ r \in Owned(w)
    /\ \/ validate_presentation(requests[r], presentation_id)
       \/ requests[r].status = "dispatched" /\ presentation_id = NoPresentation
    /\ can_transition_to(requests[r].status, map_reject_reason(reason).status)
    /\ requests' = Put(r, Rejected(requests[r], reason))
    /\ UNCHANGED <<now, instances, accounts, labels, next_lease_id, acknowledged>>
----------------------------------------------------------------------------
(* Maintenance.                                                             *)

\* Mutant: the sweep lists every request.
NonTerminal_All == DOMAIN requests

NonTerminal == {r \in DOMAIN requests : ~is_terminal(requests[r].status)}

\* Mutant: only delivery leases lapse.
LeaseLapsed_DeliveryOnly(row) ==
    row.status = "dispatched" /\ row.delivery_lease.expires_at <= now

LeaseLapsed(row) ==
    \/ /\ row.status = "dispatched"
       /\ row.delivery_lease.id # 0
       /\ row.delivery_lease.expires_at <= now
    \/ /\ row.status = "pending_user_approval"
       /\ row.presentation.id # NoPresentation
       /\ row.presentation.expires_at <= now

\* Mutant: a request on screen is spared its TTL.
SweptRow_SparesPending(row) ==
    IF row.expires_at <= now /\ row.status # "pending_user_approval"
    THEN [Released(row, "expired") EXCEPT !.last_error_code = "request_expired"]
    ELSE IF LeaseLapsed(row) THEN Released(row, "created") ELSE row

\* The body of the first loop: the TTL first, then the lease.
SweptRow(row) ==
    IF row.expires_at <= now
    THEN [Released(row, "expired") EXCEPT !.last_error_code = "request_expired"]
    ELSE IF LeaseLapsed(row) THEN Released(row, "created") ELSE row

\* The body of the last loop, with its query.
EvictedRow(row) ==
    IF row.result_expires_at # 0 /\ row.result_expires_at <= now /\ row.result # "none"
    THEN [row EXCEPT !.result = "none", !.result_expires_at = 0]
    ELSE row

\* The three loops of tick_maintenance over the rows they got to.
TickWrites(swept, marked, evicted) ==
    /\ requests' = [r \in DOMAIN requests |->
          LET row == IF r \in swept THEN SweptRow(requests[r]) ELSE requests[r]
          IN  IF r \in evicted THEN EvictedRow(row) ELSE row]
    /\ MarkStale(marked)
    /\ UNCHANGED <<now, accounts, labels, next_lease_id, acknowledged>>

TickMaintenance == TickWrites(NonTerminal, WalletId, DOMAIN requests)

\* Every row is written on its own: the daemon dies, or the store fails, with
\* only the first rows done.  The loops run in this order, requests from the
\* oldest, wallets from the one last heard from, results in no stated order.
CrashDuringTick(swept, marked, evicted) ==
    /\ \A r \in swept, s \in NonTerminal \ swept :
          requests[r].created_at <= requests[s].created_at
    /\ marked # {} => swept = NonTerminal
    /\ \A v \in marked, w \in WalletId \ marked :
          instances[v].last_seen_at >= instances[w].last_seen_at
    /\ evicted # {} => marked = WalletId
    /\ TickWrites(swept, marked, evicted)
----------------------------------------------------------------------------
CallerNext ==
    \/ \E call \in CreateCall : \/ \E ttl \in TtlInput : CreateRequest(call, ttl)
                                \/ ReplayCreateRequest(call)
    \/ \E r \in RequestId : CancelRequest(r)
    \/ \E w \in WalletId, a \in Address, label \in Label :
          SetAccountLabel(w, a, label) /\ UNCHANGED <<now, requestVars>>

BackendNext ==
    \/ \E w \in WalletId, s \in SnapshotInput :
          /\ \/ RegisterBackend(w, s)
             \/ CrashDuringRegister(w, s)
             \/ UpdateBackendAccounts(w, s)
          /\ UNCHANGED <<now, requestVars>>
    \/ \E w \in WalletId, lock_state \in LockState \cup {"keep"}, ids \in SUBSET RequestId :
          HeartbeatBackend(w, lock_state, ids)
    \/ \E w \in WalletId, r \in RequestId : ResumeRequest(w, r) \/ ClaimRequest(w, r)
    \/ \E w \in WalletId, r \in RequestId, p \in PresentationId :
          \/ \E lease \in 0 .. MaxLeases : MarkRequestPresented(w, r, p, lease)
          \/ \E result \in ResultKind : ResolveRequest(w, r, p, result)
    \/ \E w \in WalletId, r \in RequestId, p \in PresentationId \cup {NoPresentation},
          reason \in ReasonInput : RejectRequest(w, r, p, reason)

DaemonNext ==
    \/ TickMaintenance
    \/ \E swept \in SUBSET NonTerminal, marked \in SUBSET WalletId,
          evicted \in SUBSET DOMAIN requests : CrashDuringTick(swept, marked, evicted)

Next ==
    \/ CallerNext
    \/ BackendNext
    \/ DaemonNext
    \/ AdvanceClock /\ UNCHANGED <<registryVars, requestVars>>

Spec == Init /\ [][Next]_vars

\* The daemon's maintenance interval keeps firing and time goes by; nothing is
\* assumed of callers and wallets.
FairSpec ==
    /\ Spec
    /\ WF_vars(TickMaintenance)
    /\ WF_vars(AdvanceClock /\ UNCHANGED <<registryVars, requestVars>>)
----------------------------------------------------------------------------
(* Properties.                                                              *)

\* Type invariant of the daemon's database and of the answers it has given.
TypeOK ==
    /\ RegistryTypeOK
    /\ DOMAIN requests \subseteq RequestId
    /\ requests \in [DOMAIN requests -> Request]
    /\ next_lease_id \in Nat \ {0}
    /\ acknowledged \subseteq [call : CreateCall, request_id : RequestId]

LeasesOf(row) ==
    /\ (row.delivery_lease.id # 0) <=> (row.status = "dispatched")
    /\ (row.presentation.id # NoPresentation) <=> (row.status = "pending_user_approval")

\* A request holds a delivery lease exactly while it is dispatched and a
\* presentation lease exactly while it is pending_user_approval.  The sweep
\* releases by lease and the pull resumes by lease: a row whose lease and
\* status disagree would be offered to nobody until its TTL ends.
LeasesMatchStatus == \A r \in DOMAIN requests : LeasesOf(requests[r])

OutcomeOf(row) ==
    /\ (row.result # "none") <=> (row.result_expires_at # 0)
    /\ row.result # "none" => /\ row.status = "approved"
                              /\ row.result = expected_result_kind(row.kind)
    /\ CASE row.status = "rejected"  -> row.last_error_code = "request_rejected"
         [] row.status = "expired"   -> row.last_error_code = "request_expired"
         [] row.status = "cancelled" -> row.last_error_code = "request_cancelled"
         [] row.status = "failed"    -> row.last_error_code \in FailureCode
         [] OTHER                    -> row.last_error_code = "none"

\* What a poller reads is coherent: a result is there only for an approved
\* request, is of the kind asked for and has a date of eviction; and every
\* other final status comes with the error code that explains it.
OutcomeExplained == \A r \in DOMAIN requests : OutcomeOf(requests[r])

\* Creation is idempotent: a client_request_id names one request, for good,
\* and every call that was ever told so asked for exactly that request
\* (create_request's replay check, over any order of retries, cancellations
\* and expiries).
CreateIsIdempotent ==
    /\ \A r, s \in DOMAIN requests :
          requests[r].client_request_id = requests[s].client_request_id => r = s
    /\ \A ack \in acknowledged :
          /\ ack.request_id \in DOMAIN requests
          /\ LET row == requests[ack.request_id]
             IN  /\ row.client_request_id = ack.call.client_request_id
                 /\ row.kind = ack.call.kind
                 /\ row.account_address = ack.call.account_address
                 /\ row.payload_hash = <<ack.call.kind, ack.call.payload>>
                 /\ ack.call.wallet \in {AnyWallet, row.wallet_instance_id}

\* A request is owned by a wallet the daemon knows, and one a browser
\* extension cannot serve is never owned by one, whatever the wallets
\* register, crash on or publish after it was routed.
OwnerCanServeKind ==
    \A r \in DOMAIN requests :
        LET backend_kind == instances[requests[r].wallet_instance_id].backend_kind
        IN  \/ backend_kind = "local_account_dir"
            \/ /\ backend_kind = "starmask_extension"
               /\ requests[r].kind \in ExtensionCapabilities

\* No request outlives the configured maximum, and none is given less than the
\* configured minimum when the two are in order (clamp_ttl).
LifetimesBounded ==
    \A r \in DOMAIN requests :
        LET lifetime == requests[r].expires_at - requests[r].created_at
        IN  /\ lifetime <= MaxRequestTtl
            /\ MinRequestTtl <= MaxRequestTtl => lifetime >= MinRequestTtl
            /\ requests[r].created_at <= now

\* Requests are never forgotten or rerouted, and a final row never changes
\* again except that its result goes once its retention has ended: no late
\* answer, sweep or cancellation touches it.
FinalIsFinal ==
    [][\A r \in DOMAIN requests :
          /\ r \in DOMAIN requests'
          /\ LET row == requests[r]
                 next == requests'[r]
             IN  /\ row.wallet_instance_id = next.wallet_instance_id
                 /\ row.expires_at = next.expires_at
                 /\ is_terminal(row.status) /\ next # row =>
                       /\ row.result_expires_at \in 1 .. now
                       /\ next = [row EXCEPT !.result = "none",
                                             !.result_expires_at = 0]]_requests

\* When a maintenance tick is done nothing is overdue: no live request past
\* its TTL, no lapsed lease, no result past its retention, and no connected
\* wallet past its silence.
TickLeavesNothingOverdue ==
    [][TickMaintenance =>
          /\ \A r \in DOMAIN requests' :
                LET row == requests'[r]
                IN  /\ row.expires_at <= now => is_terminal(row.status)
                    /\ row.status = "dispatched" => row.delivery_lease.expires_at > now
                    /\ row.status = "pending_user_approval" =>
                           row.presentation.expires_at > now
                    /\ row.result # "none" => row.result_expires_at > now
          /\ \A w \in WalletId :
                instances'[w].connected =>
                    now - instances'[w].last_seen_at < WalletOfflineAfter]_vars

\* request.hasAvailable looks at statuses, the pull at leases and the clock, and
\* they disagree from the lapse of a presentation lease on.  A tick brings them
\* together: a wallet is then told of work exactly when a pull would return some.
TickMakesAnnouncementsTrue ==
    [][TickMaintenance =>
          \A w \in WalletId :
             request_has_available(w)' <=> (Resumable(w) \cup Claimable(w) # {})']_vars

Lifecycle == INSTANCE RequestLifecycle WITH
    book <- [r \in DOMAIN requests |->
               [kind   |-> requests[r].kind,
                owner  |-> requests[r].wallet_instance_id,
                phase  |-> requests[r].status,
                result |-> requests[r].result]]

\* The coordinator, with its leases, sweeps and crashes, implements the
\* lifecycle promised to callers: every command moves every request along
\* can_transition_to or leaves it alone.
ImplementsLifecycle == Lifecycle!Spec

\* Every accepted request becomes final, though no caller and no wallet ever
\* has to act: its TTL and the maintenance interval see to it, against
\* heartbeats that keep renewing its presentation.
EveryRequestTerminates == Lifecycle!Termination
============================================================================
