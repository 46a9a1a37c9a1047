--------------------------- MODULE DaemonServer ---------------------------
(***************************************************************************)
(* The JSON-RPC server of starmaskd in front of the coordinator.  Every    *)
(* connection is a task of its own that reads one request, checks it       *)
(* against the protocol version and the configured backends, puts a        *)
(* command in the coordinator's queue, waits for the outcome and writes    *)
(* the answer; a caller that leaves early changes nothing of this.  The    *)
(* maintenance task queues ticks in the same way.  A restart loses the     *)
(* queue and the connections, keeps the database and may come with another *)
(* configuration.  Agents call backend methods, native hosts extension     *)
(* methods; arguments that no check of the server looks at are chosen when *)
(* the command runs.                                                       *)
(***************************************************************************)
EXTENDS Coordinator, Sequences

CONSTANTS Connection,    \* connections open at a time
          CallInput,     \* the calls callers make
          ConfigInput,   \* configurations: the sets of enabled wallet ids
          MaxRestarts    \* bound: how often the daemon restarts

VARIABLES enabled,     \* the backends and extensions the configuration allows
          connection,  \* the connection tasks
          queue,       \* commands waiting for the coordinator thread
          ticking,     \* the maintenance task waits for its tick
          restarts

serverVars == <<enabled, connection, queue, ticking, restarts>>

DAEMON_PROTOCOL_VERSION == 1
GENERIC_BACKEND_PROTOCOL_VERSION == 2

QueryMethod == {"system.ping", "system.getInfo", "wallet.status", "wallet.listInstances",
                "wallet.listAccounts", "wallet.getPublicKey", "request.getStatus",
                "request.hasAvailable"}
BackendMethod == {"backend.register", "backend.heartbeat", "backend.updateAccounts"}
EitherMethod == {"request.hasAvailable", "request.pullNext", "request.presented",
                 "request.resolve", "request.reject"}

NoSnapshot == [backend_kind |-> "unregistered", capabilities |-> {},
               lock_state |-> "unknown", accounts |-> [a \in Address |-> "absent"]]
Call(method, version, w, s) ==
    [method |-> method, version |-> version, wallet |-> w, snapshot |-> s]
Free == [stage |-> "free", call |-> Call("none", 0, AnyWallet, NoSnapshot)]

ServerInit ==
    /\ Init
    /\ enabled \in ConfigInput
    /\ connection = [k \in Connection |-> Free]
    /\ queue = <<>>
    /\ ticking = FALSE
    /\ restarts = 0
---------------------------------------------------------------------------
(* Checks before a call reaches the coordinator.                           *)

\* decode_protocol, decode_protocol_exact, decode_protocol_one_of
decode_protocol(method, version) ==
    version \in IF method \in EitherMethod
                THEN {DAEMON_PROTOCOL_VERSION, GENERIC_BACKEND_PROTOCOL_VERSION}
                ELSE IF method \in BackendMethod THEN {GENERIC_BACKEND_PROTOCOL_VERSION}
                ELSE {DAEMON_PROTOCOL_VERSION}

\* Everything the agent can do is allowed to a local backend.
allowed_capabilities == WalletCapability

validate_local_backend_capabilities(s) == s.capabilities \subseteq allowed_capabilities

validate_generic_backend_registration(s) ==
    /\ s.backend_kind = "local_account_dir"
    /\ validate_local_backend_capabilities(s)

\* Mutant: heartbeats are taken from any backend.
policy_admits_Heartbeats(call) ==
    CASE call.method \in {"extension.register", "backend.register", "backend.updateAccounts"} ->
             call.wallet \in enabled
      [] OTHER -> TRUE

\* ServerPolicy: extensions are checked when they register, local backends at
\* every call that keeps them connected.
policy_admits(call) ==
    CASE call.method = "extension.register" -> call.wallet \in enabled
      [] call.method = "backend.register" ->
             call.wallet \in enabled /\ validate_generic_backend_registration(call.snapshot)
      [] call.method = "backend.heartbeat" -> call.wallet \in enabled
      [] call.method = "backend.updateAccounts" ->
             call.wallet \in enabled /\ validate_local_backend_capabilities(call.snapshot)
      [] OTHER -> TRUE
---------------------------------------------------------------------------
(* The command of a call.                                                  *)

Unmoved == UNCHANGED <<now, requestVars>>

\* An extension does not choose its kind and its capabilities.
AsExtension(s) == [s EXCEPT !.backend_kind = "starmask_extension",
                            !.capabilities = ExtensionCapabilities]

RegisterExtension(w, s) == RegisterBackend(w, AsExtension(s)) /\ Unmoved
UpdateExtension(w, s) == UpdateBackendAccounts(w, AsExtension(s)) /\ Unmoved
HeartbeatExtension(w) == \E ids \in SUBSET RequestId : HeartbeatBackend(w, "keep", ids)
RegisterCommand(w, s) == RegisterBackend(w, s) /\ Unmoved
UpdateCommand(w, s) == UpdateBackendAccounts(w, s) /\ Unmoved
HeartbeatCommand(w) ==
    \E lock_state \in LockState, ids \in SUBSET RequestId :
        HeartbeatBackend(w, lock_state, ids)
CreateCommand ==
    \E call \in CreateCall :
        (\E ttl \in TtlInput : CreateRequest(call, ttl)) \/ ReplayCreateRequest(call)
CancelCommand == \E r \in RequestId : CancelRequest(r)
SetLabelCommand(w) ==
    \E a \in Address, label \in Label : SetAccountLabel(w, a, label) /\ Unmoved
PullCommand(w) ==
    \/ \E r \in RequestId : ResumeRequest(w, r) \/ ClaimRequest(w, r)
    \/ Registered(w) /\ Resumable(w) \cup Claimable(w) = {} /\ UNCHANGED vars
PresentedCommand(w) ==
    \E r \in RequestId, p \in PresentationId, lease \in 0 .. MaxLeases :
        MarkRequestPresented(w, r, p, lease)
ResolveCommand(w) ==
    \E r \in RequestId, p \in PresentationId, result \in ResultKind :
        ResolveRequest(w, r, p, result)
RejectCommand(w) ==
    \E r \in RequestId, p \in PresentationId \cup {NoPresentation}, reason \in ReasonInput :
        RejectRequest(w, r, p, reason)

Command(call) ==
    LET w == call.wallet
    IN  \/ call.method = "extension.register" /\ RegisterExtension(w, call.snapshot)
        \/ call.method = "extension.updateAccounts" /\ UpdateExtension(w, call.snapshot)
        \/ call.method = "extension.heartbeat" /\ HeartbeatExtension(w)
        \/ call.method = "backend.register" /\ RegisterCommand(w, call.snapshot)
        \/ call.method = "backend.updateAccounts" /\ UpdateCommand(w, call.snapshot)
        \/ call.method = "backend.heartbeat" /\ HeartbeatCommand(w)
        \/ call.method = "request.create" /\ CreateCommand
        \/ call.method = "request.cancel" /\ CancelCommand
        \/ call.method = "wallet.setAccountLabel" /\ SetLabelCommand(w)
        \/ call.method = "request.pullNext" /\ PullCommand(w)
        \/ call.method = "request.presented" /\ PresentedCommand(w)
        \/ call.method = "request.resolve" /\ ResolveCommand(w)
        \/ call.method = "request.reject" /\ RejectCommand(w)
        \/ call.method \in QueryMethod /\ UNCHANGED vars

\* The coordinator answers the command with an error.
Refused(call) == ~ENABLED Command(call)

\* Who calls: wallets that exist, with what a backend can publish.  A native host
\* does not beat under the wallet_instance_id of a local agent.
RegisteringMethod == {"backend.register", "backend.updateAccounts"}
ExtensionMethod == {"extension.register", "extension.updateAccounts"}
WalletMethod == {"extension.heartbeat", "backend.heartbeat", "wallet.setAccountLabel",
                 "request.pullNext", "request.presented", "request.resolve", "request.reject"}
                    \cup RegisteringMethod \cup ExtensionMethod
Method == WalletMethod \cup QueryMethod \cup {"request.create", "request.cancel"}
AgentWallet ==
    {call.wallet : call \in {call \in CallInput :
        call.method = "backend.register" /\ call.snapshot.backend_kind = "local_account_dir"}}

ASSUME ServerAssumption ==
    /\ "tick" \notin Connection
    /\ \A call \in CallInput :
          /\ call.method \in Method
          /\ call.method \in WalletMethod => call.wallet \in WalletId
          /\ call.method \in RegisteringMethod => call.snapshot \in SnapshotInput
          /\ call.method \in ExtensionMethod => AsExtension(call.snapshot) \in SnapshotInput
          /\ call.method = "extension.heartbeat" => call.wallet \notin AgentWallet
---------------------------------------------------------------------------
(* Connections.                                                            *)

\* A caller connects and writes its request.
Accept(k) ==
    /\ connection[k] = Free
    /\ \E call \in CallInput :
          connection' = [connection EXCEPT ![k] = [stage |-> "read", call |-> call]]
    /\ UNCHANGED <<vars, enabled, queue, ticking, restarts>>

\* Nothing readable arrives in time, or it is no request.
ReadFails(k) ==
    /\ connection[k].stage = "read"
    /\ connection' = [connection EXCEPT ![k] = Free]
    /\ UNCHANGED <<vars, enabled, queue, ticking, restarts>>

\* A call that fails a check is answered at once, the others are queued.
dispatch_request(k) ==
    LET call == connection[k].call
    IN  /\ connection[k].stage = "read"
        /\ IF decode_protocol(call.method, call.version) /\ policy_admits(call)
           THEN /\ connection' = [connection EXCEPT ![k].stage = "queued"]
                /\ queue' = Append(queue, k)
           ELSE /\ connection' = [connection EXCEPT ![k].stage = "reply"]
                /\ UNCHANGED queue
        /\ UNCHANGED <<vars, enabled, ticking, restarts>>

\* The answer is written and the connection closed.
Respond(k) ==
    /\ connection[k].stage = "reply"
    /\ connection' = [connection EXCEPT ![k] = Free]
    /\ UNCHANGED <<vars, enabled, queue, ticking, restarts>>

\* The maintenance interval fires; ticks missed while one waits are skipped.
QueueTick ==
    /\ ~ticking
    /\ ticking' = TRUE
    /\ queue' = Append(queue, "tick")
    /\ UNCHANGED <<vars, enabled, connection, restarts>>

\* The coordinator thread runs the next command, or refuses it, and hands back
\* the outcome.
RunNext ==
    /\ queue # <<>>
    /\ queue' = Tail(queue)
    /\ IF Head(queue) = "tick"
       THEN TickMaintenance /\ ticking' = FALSE /\ UNCHANGED connection
       ELSE /\ \/ Command(connection[Head(queue)].call)
               \/ Refused(connection[Head(queue)].call) /\ UNCHANGED vars
            /\ connection' = [connection EXCEPT ![Head(queue)].stage = "reply"]
            /\ UNCHANGED ticking
    /\ UNCHANGED <<enabled, restarts>>

Restart ==
    /\ restarts < MaxRestarts
    /\ restarts' = restarts + 1
    /\ enabled' \in ConfigInput
    /\ connection' = [k \in Connection |-> Free]
    /\ queue' = <<>>
    /\ ticking' = FALSE
    /\ UNCHANGED vars

Time == AdvanceClock /\ UNCHANGED <<registryVars, requestVars, serverVars>>

TaskStep(k) == dispatch_request(k) \/ Respond(k)

ServerNext ==
    \/ \E k \in Connection : Accept(k) \/ ReadFails(k) \/ TaskStep(k)
    \/ QueueTick \/ RunNext \/ Restart \/ Time

ServerSpec == ServerInit /\ [][ServerNext]_<<vars, serverVars>>

\* The runtime polls every task, the interval fires, the coordinator thread
\* takes what is queued, and time goes by.
FairServerSpec ==
    /\ ServerSpec
    /\ \A k \in Connection : WF_<<vars, serverVars>>(TaskStep(k))
    /\ WF_<<vars, serverVars>>(QueueTick)
    /\ WF_<<vars, serverVars>>(RunNext)
    /\ WF_<<vars, serverVars>>(Time)
---------------------------------------------------------------------------
(* Properties.                                                             *)

Local(w) == instances[w].backend_kind = "local_account_dir"

\* A local backend is heard only while the configuration names it: after a
\* restart without it, no registration, heartbeat or snapshot of the agent that
\* is still running refreshes its row, although the row and its requests remain.
OnlyConfiguredAreHeard ==
    [][\A w \in WalletId :
          Local(w) /\ instances'[w] # instances[w]
              => w \in enabled \/ instances'[w] = [instances[w] EXCEPT !.connected = FALSE]
      ]_<<instances, enabled>>

\* So a local backend that a restart took out of the configuration goes offline
\* and out of routing, although its agent keeps calling (for every last sign of
\* life the bounded clock can outlive).
DisabledGoesOffline ==
    \A w \in WalletId, t \in 1 .. (MaxTime - WalletOfflineAfter) :
        Local(w) /\ w \notin enabled /\ instances[w].last_seen_at = t
            ~> ~instances[w].connected \/ w \in enabled

\* No caller waits for ever: a call is answered or its connection ends, however
\* many are queued and whether or not the coordinator accepts the commands
\* before it.
EveryCallEnds ==
    \A k \in Connection : connection[k].stage = "queued" ~> connection[k].stage # "queued"
===========================================================================
