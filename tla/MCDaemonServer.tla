-------------------------- MODULE MCDaemonServer --------------------------
(* The daemon's server under two loads for TLC: backends that come and go    *)
(* with the configuration, and the calls of a request's life.                *)
EXTENDS DaemonServer

CONSTANTS w1, w2, k1, k2

VARIABLE scenario

LocalSnapshot ==
    [backend_kind |-> "local_account_dir", capabilities |-> WalletCapability,
     lock_state |-> "unlocked", accounts |-> [a \in Address |-> "signing"]]
BrowserSnapshot ==
    [backend_kind |-> "starmask_extension", capabilities |-> ExtensionCapabilities,
     lock_state |-> "unlocked", accounts |-> [a \in Address |-> "signing"]]

BothSnapshots == {LocalSnapshot, BrowserSnapshot}

\* The agent of w1, a native host of w2, and an agent set up with w2's name.
BackendCalls ==
    {Call(method, 2, w1, LocalSnapshot) :
        method \in {"backend.register", "backend.updateAccounts", "backend.heartbeat"}}
    \cup {Call(method, 1, w2, BrowserSnapshot) :
        method \in {"extension.register", "extension.updateAccounts", "extension.heartbeat"}}
    \cup {Call("backend.register", 2, w2, BrowserSnapshot),
          Call("backend.register", 1, w1, LocalSnapshot),
          Call("wallet.setAccountLabel", 1, w1, NoSnapshot)}

\* The life of a request, with one agent.
RequestCalls ==
    {Call("backend.register", 2, w1, LocalSnapshot)}
    \cup {Call(method, 1, w1, NoSnapshot) :
        method \in {"request.create", "request.cancel", "request.getStatus",
                    "request.pullNext", "request.presented",
                    "request.resolve", "request.reject"}}

AllCalls == BackendCalls \cup RequestCalls

Backends == INSTANCE DaemonServer WITH CallInput <- BackendCalls

Requests ==
    INSTANCE DaemonServer WITH
        CallInput <- RequestCalls, ConfigInput <- {{w1}}, MaxRestarts <- 0

\* Heartbeats keep the lock open here: the lock state is not what this is about.
Unlocked == \A w \in WalletId : Registered(w) => instances[w].lock_state = "unlocked"

\* One caller and one agent, each with one call at a time.
CallerMethod == {"none", "request.create", "request.cancel", "request.getStatus"}
OneEach ==
    /\ connection[k1].call.method \in CallerMethod
    /\ connection[k2].call.method \notin CallerMethod \ {"none"}

MCInit ==
    \/ scenario = "backends" /\ Backends!ServerInit
    \/ scenario = "requests" /\ Requests!ServerInit

MCNext ==
    /\ UNCHANGED scenario
    /\ \/ scenario = "backends" /\ Backends!ServerNext
       \/ scenario = "requests" /\ Requests!ServerNext /\ OneEach'
    /\ Unlocked'

mcvars == <<vars, serverVars, scenario>>

\* FairServerSpec: none of the fair actions depends on the scenario.
MCSpec ==
    /\ MCInit /\ [][MCNext]_mcvars
    /\ \A k \in Connection : WF_mcvars(TaskStep(k) /\ UNCHANGED scenario)
    /\ WF_mcvars(QueueTick /\ UNCHANGED scenario)
    /\ WF_mcvars(RunNext /\ UNCHANGED scenario)
    /\ WF_mcvars(Time /\ UNCHANGED scenario)

\* Nobody waits for what will not come: every call queued for the coordinator
\* thread ends, and a local backend that the configuration dropped goes offline
\* although its agent keeps calling (EveryCallEnds, DisabledGoesOffline).
NobodyWaitsForever == EveryCallEnds /\ DisabledGoesOffline
===========================================================================
