---------------------------- MODULE AgentProofs ----------------------------
(***************************************************************************)
(* The local agent beside the coordinator, for any accounts, requests,     *)
(* clocks and leases, with calls lost or not and threads late or on time.  *)
(* The invariant has four parts: the daemon's tables (TypesAndRows), the   *)
(* types of the agent's own state, the count of work against approvals,    *)
(* and what is on screen.  Every step of the agent is a step of the        *)
(* coordinator as far as the daemon can tell, which preserves the first.   *)
(***************************************************************************)
EXTENDS LocalAgent, CoordinatorProofs

Working == {"handling", "presenting", "opening", "prompting", "fulfilling", "answering"}
Waiting == {"registering", "idle", "updating", "pulling"}

AccountsFound == [Address -> AccountState]

Job ==
    [request : RequestId \cup {0}, presentation_id : 0 .. MaxLeases, lease : 0 .. MaxLeases,
     locked : BOOLEAN, password : {"none", "right", "wrong", "new"},
     reason : AgentReason \cup {"none"}]

\* A job in hand is of a request of this wallet, and has a presentation id from
\* the moment it is to be shown.
JobOK(stage, job) ==
    /\ stage \in Working => job.request \in Owned(AgentWallet)
    /\ stage = "handling" => job.presentation_id # 0 \/ job.lease # 0
    /\ stage \in {"presenting", "opening", "prompting", "fulfilling"} => job.presentation_id # 0
    /\ stage = "answering" /\ job.reason = "none" => job.presentation_id # 0

MainState ==
    [stage : Working \cup Waiting \cup {"down"}, published : AccountsFound,
     next : AccountsFound, job : Job]

AgentTypeOK ==
    /\ agent \in MainState
    /\ JobOK(agent.stage, agent.job)
    /\ shown \in [lock_state : LockState, ids : SUBSET RequestId]
    /\ heartbeat \in [stage : {"off", "asleep", "sending", "orphaned"},
                      lock_state : LockState, ids : SUBSET RequestId, due : Nat]
    /\ directory \in [accounts : AccountsFound, file : BOOLEAN, changes : Nat]
    /\ done \in [RequestId -> Nat]
    /\ approvals \in [RequestId -> Nat]

\* An approval is spent by the work done for it: one is left while a request is
\* being worked on, and what is answered with a result has been done.
WorkOK ==
    /\ NothingDoneUnasked
    /\ At("fulfilling") => done[agent.job.request] < approvals[agent.job.request]
    /\ At("answering") /\ agent.job.reason = "none" => done[agent.job.request] >= 1

\* The requests a heartbeat of this agent names, now or when it is copied.
Named == shown.ids \cup heartbeat.ids

NamedAndLive == {r \in Named : ~is_terminal(requests[r].status)}

\* What is presented, or could come back to be when a heartbeat arrives late.
OnScreen == Resumable(AgentWallet) \cup NamedAndLive

\* Nothing but the job in hand is on screen; between jobs no heartbeat can bring
\* anything back.
ScreenOK ==
    /\ Named \subseteq Owned(AgentWallet)
    /\ agent.stage \in Working => OnScreen \subseteq {agent.job.request}
    /\ agent.stage \in Waiting => NamedAndLive = {}
    /\ At("down") => shown.ids = {}
    /\ heartbeat.stage = "off" => heartbeat.ids = {}
    /\ \A r, s \in OnScreen : r = s

AgentInv == TypesAndRows /\ AgentTypeOK /\ WorkOK /\ ScreenOK
----------------------------------------------------------------------------
(* What carries the invariant over most steps.                              *)

\* What the agent publishes is a snapshot of the registry's making.
LEMMA SnapshotIsLocal ==
    ASSUME NEW listed \in AccountsFound
    PROVE  SnapshotOf(listed) \in LocalSnapshots
<1> DEFINE s == SnapshotOf(listed)
           signable == {a \in Address : Signing(a, listed)}
<1>1. /\ s.backend_kind = "local_account_dir"
      /\ s.capabilities = IF signable # {} THEN WalletCapability
                          ELSE {"create_account", "import_account"} \cup
                               (IF \E a \in Address : listed[a] # "absent"
                                THEN {"get_public_key"} ELSE {})
      /\ s.lock_state = IF signable = {} THEN "unknown"
                        ELSE IF \E a \in signable : listed[a] = "unlocked" THEN "unlocked"
                        ELSE "locked"
      /\ s.accounts = [a \in Address |-> IF Signing(a, listed) THEN "signing" ELSE listed[a]]
  BY DEF SnapshotOf
<1>2. s.accounts \in [Address -> AccountView]
  BY <1>1 DEF AccountsFound, AccountState, AccountView, Signing
<1>3. s.lock_state \in LockState
  BY <1>1 DEF LockState
<1>4. s.capabilities \in {WalletCapability,
                          {"get_public_key", "create_account", "import_account"},
                          {"create_account", "import_account"}}
  BY <1>1
<1>5. s \in [backend_kind : {"local_account_dir"},
             capabilities : {WalletCapability,
                             {"get_public_key", "create_account", "import_account"},
                             {"create_account", "import_account"}},
             lock_state : LockState, accounts : [Address -> AccountView]]
  BY <1>1, <1>2, <1>3, <1>4, Zenon DEF SnapshotOf
<1>6. (\E a \in Address : s.accounts[a] = "signing") <=> signable # {}
  BY <1>1 DEF Signing, AccountsFound, AccountState
<1>7. "unlock" \in WalletCapability
  BY DEF WalletCapability
<1>8. (s.lock_state = "unknown") <=> signable = {}
  BY <1>1
<1>9. (s.capabilities = WalletCapability) <=> signable # {}
  BY <1>1, <1>7
<1>10. "get_public_key" \in s.capabilities => Exposed(s.accounts) # {}
  BY <1>1 DEF Exposed
<1> HIDE DEF s, signable
<1> QED
  BY <1>5, <1>6, <1>8, <1>9, <1>10 DEF LocalSnapshots, s

LEMMA ListedType ==
    ASSUME NEW found \in AccountsFound
    PROVE  Listed(found) \in AccountsFound /\ SnapshotOf(Listed(found)).lock_state \in LockState
<1>1. Listed(found) \in AccountsFound
  BY DEF Listed, AccountsFound, AccountState
<1> QED
  BY <1>1, SnapshotIsLocal DEF LocalSnapshots

\* What is on screen grows by what a command presents and nothing else.
LEMMA ScreenShrinks ==
    ASSUME TypesAndRows, [Next]_vars, Named \subseteq Owned(AgentWallet),
           NEW back \in SUBSET Owned(AgentWallet), NEW won, Effect(AgentWallet, back, won),
           Named' \subseteq Named \cup back
    PROVE  /\ OnScreen' \subseteq OnScreen \cup back
           /\ NamedAndLive' \subseteq NamedAndLive \cup back
           /\ Named' \subseteq Owned(AgentWallet)'
<1>1. Owned(AgentWallet) \subseteq DOMAIN requests
  BY DEF Owned
<1>2. NamedAndLive' \subseteq NamedAndLive \cup back
  BY <1>1, OldRows DEF NamedAndLive
<1>3. Named' \subseteq Owned(AgentWallet)'
  BY OldRows
<1> QED
  BY <1>2, <1>3 DEF OnScreen, Effect

\* Nothing was done and nothing approved in this step, and the agent did not
\* come to work on, or to have done, another request.
LEMMA WorkFrame ==
    ASSUME WorkOK, UNCHANGED <<done, approvals>>,
           NEW back, NEW won, Effect(AgentWallet, back, won), \A r \in won : done[r] >= 1,
           agent'.stage = "fulfilling" =>
               At("fulfilling") /\ agent'.job.request = agent.job.request,
           agent'.stage = "answering" /\ agent'.job.reason = "none" =>
               /\ At("answering") /\ agent.job.reason = "none"
               /\ agent'.job.request = agent.job.request
    PROVE  WorkOK'
<1>1. \A r \in RequestId :
         /\ done'[r] <= approvals'[r]
         /\ r \in DOMAIN requests' /\ requests'[r].status = "approved" => done'[r] >= 1
  BY DEF WorkOK, NothingDoneUnasked, Effect
<1> QED
  BY <1>1, Zenon DEF WorkOK, NothingDoneUnasked, At

\* What there is to show of a step that did, or approved, something.
LEMMA WorkShown ==
    ASSUME NEW r, agent'.job.request = r,
           \A x \in RequestId :
               /\ done'[x] <= approvals'[x]
               /\ x \in DOMAIN requests' /\ requests'[x].status = "approved" => done'[x] >= 1,
           agent'.stage = "fulfilling" => done'[r] < approvals'[r],
           agent'.stage = "answering" /\ agent'.job.reason = "none" => done'[r] >= 1
    PROVE  WorkOK'
BY DEF WorkOK, NothingDoneUnasked, At

LEMMA ConstantTypes ==
    /\ MaxLeases \in Nat /\ NoPresentation = 0 /\ PresentationId = 1 .. MaxLeases
    /\ AgentWallet \in WalletId
    /\ Quiet \in Job /\ NothingListed \in AccountsFound /\ Down \in MainState
    /\ Down.stage = "down"
<1>1. /\ MaxLeases \in Nat /\ NoPresentation = 0 /\ PresentationId = 1 .. MaxLeases
      /\ AgentWallet \in WalletId
  BY CoordinatorAssumption, AgentAssumption
<1>2. Quiet \in Job
  BY <1>1 DEF Quiet, Job
<1>3. NothingListed \in AccountsFound
  BY DEF NothingListed, AccountsFound, AccountState
<1> QED
  BY <1>1, <1>2, <1>3 DEF Down, MainState

LEMMA AgentInvInit == AgentInit => AgentInv
<1> SUFFICES ASSUME AgentInit PROVE AgentInv
  OBVIOUS
<1>1. /\ Init /\ agent = Down /\ shown = [lock_state |-> "unknown", ids |-> {}]
      /\ heartbeat = [stage |-> "off", lock_state |-> "unknown", ids |-> {}, due |-> 0]
      /\ directory \in [accounts : {[a \in Address |-> "locked"]}, file : BOOLEAN,
                        changes : {0}]
      /\ done = [r \in RequestId |-> 0] /\ approvals = [r \in RequestId |-> 0]
  BY Zenon DEF AgentInit, Asleep
<1>2. TypesAndRows /\ requests = <<>> /\ DOMAIN requests = {}
  BY <1>1, TypesAndRowsInit DEF Init
<1>3. AgentTypeOK
  <2>1. directory \in [accounts : AccountsFound, file : BOOLEAN, changes : Nat]
    BY <1>1 DEF AccountsFound, AccountState
  <2>2. JobOK(agent.stage, agent.job)
    BY <1>1, ConstantTypes, Zenon DEF JobOK, Working
  <2> QED
    BY <1>1, <2>1, <2>2, ConstantTypes DEF AgentTypeOK, LockState
<1>4. WorkOK
  BY <1>1, <1>2, ConstantTypes DEF WorkOK, NothingDoneUnasked, At
<1>5. ScreenOK
  BY <1>1, <1>2, ConstantTypes, Zenon
  DEF ScreenOK, OnScreen, NamedAndLive, Named, Resumable, Owned, Working, Waiting, At
<1> QED
  BY <1>2, <1>3, <1>4, <1>5 DEF AgentInv

\* A step outside the agent, or of another variable.
LEMMA AgentFrame ==
    ASSUME AgentInv, [Next]_vars, UNCHANGED <<agent, shown, heartbeat, done, approvals>>,
           NEW back \in SUBSET OnScreen, back \subseteq Owned(AgentWallet), Effect(AgentWallet, back, {}),
           directory' \in [accounts : AccountsFound, file : BOOLEAN, changes : Nat]
    PROVE  AgentTypeOK' /\ WorkOK' /\ ScreenOK'
<1>1. Owned(AgentWallet) \subseteq Owned(AgentWallet)'
  BY OldRows, Zenon DEF AgentInv
<1>2. AgentTypeOK'
  BY <1>1, Zenon DEF AgentInv, AgentTypeOK, JobOK
<1>3. WorkOK'
  <2>1. WorkOK /\ Effect(AgentWallet, back, {})
    BY DEF AgentInv
  <2>2. agent' = agent /\ UNCHANGED <<done, approvals>>
    OBVIOUS
  <2> QED
    BY <2>1, <2>2, WorkFrame DEF At
<1>4. Named' = Named
  BY DEF Named
<1>5. /\ OnScreen' \subseteq OnScreen
      /\ NamedAndLive' \subseteq NamedAndLive \cup back
      /\ Named' \subseteq Owned(AgentWallet)'
  BY <1>4, ScreenShrinks, Zenon DEF AgentInv, ScreenOK
<1>6. agent.stage \in Waiting => NamedAndLive' = {}
  BY OldRows, <1>4, Zenon DEF AgentInv, ScreenOK, NamedAndLive, Owned
<1>7. ScreenOK'
  BY <1>5, <1>6, Zenon DEF AgentInv, ScreenOK, At
<1> QED
  BY <1>2, <1>3, <1>7

\* The process ends: nothing comes on screen by it.
LEMMA ExitOK ==
    ASSUME AgentInv, [Next]_vars, Exit, UNCHANGED <<directory, done, approvals>>,
           NEW back \in SUBSET Owned(AgentWallet), NEW won, Effect(AgentWallet, back, won),
           \A r \in won : done[r] >= 1,
           \A r, s \in OnScreen \cup back : r = s
    PROVE  AgentTypeOK' /\ WorkOK' /\ ScreenOK'
<1> USE DEF AgentInv
<1>1. /\ agent' = Down /\ agent'.stage = "down" /\ agent' \in MainState
      /\ shown' = [lock_state |-> "unknown", ids |-> {}]
  BY ConstantTypes DEF Exit
<1>2. /\ heartbeat' \in [stage : {"off", "asleep", "sending", "orphaned"},
                         lock_state : LockState, ids : SUBSET RequestId, due : Nat]
      /\ heartbeat'.ids \subseteq heartbeat.ids
      /\ heartbeat'.stage = "off" => heartbeat'.ids = {}
  <2>1. CASE heartbeat.stage = "sending"
    <3>1. heartbeat' = [heartbeat EXCEPT !.stage = "orphaned"]
      BY <2>1 DEF Exit
    <3> QED
      BY <3>1 DEF AgentTypeOK
  <2>2. CASE heartbeat.stage # "sending"
    <3>1. heartbeat' = [stage |-> "off", lock_state |-> "unknown", ids |-> {}, due |-> 0]
      BY <2>2, Zenon DEF Exit, Asleep
    <3> QED
      BY <3>1, Zenon DEF LockState
  <2> QED
    BY <2>1, <2>2, Zenon
<1>3. AgentTypeOK'
  <2>1. JobOK(agent.stage, agent.job)'
    BY <1>1, Zenon DEF JobOK, Working
  <2> QED
    BY <1>1, <1>2, <2>1, Zenon DEF AgentTypeOK, LockState
<1>4. WorkOK'
  BY <1>1, WorkFrame, Zenon
<1>5. Named' \subseteq Named
  BY <1>1, <1>2, Zenon DEF Named
<1>6. OnScreen' \subseteq OnScreen \cup back /\ Named' \subseteq Owned(AgentWallet)'
  BY <1>5, ScreenShrinks, Zenon DEF ScreenOK
<1>7. ScreenOK'
  BY <1>1, <1>2, <1>6, Zenon DEF ScreenOK, At, Working, Waiting
<1> QED
  BY <1>3, <1>4, <1>7

\* A step of the main thread with the job in hand that asks the daemon nothing
\* and puts nothing on screen.
LEMMA LocalScreen ==
    ASSUME AgentInv, UNCHANGED <<vars, heartbeat>>,
           agent.stage \in Working, agent'.stage \in Working,
           agent'.job.request = agent.job.request, shown'.ids \subseteq shown.ids
    PROVE  ScreenOK' /\ [Next]_vars /\ Effect(AgentWallet, {}, {}) /\ Owned(AgentWallet)' = Owned(AgentWallet)
<1> USE DEF AgentInv
<1>1. UNCHANGED <<requests, now>>
  BY DEF vars
<1>2. Effect(AgentWallet, {}, {}) /\ Owned(AgentWallet)' = Owned(AgentWallet)
  BY <1>1, NoEffect, Zenon DEF Owned
<1>3. Named' \subseteq Named
  BY Zenon DEF Named
<1>4. OnScreen' \subseteq OnScreen /\ Named' \subseteq Owned(AgentWallet)'
  BY <1>2, <1>3, ScreenShrinks, Zenon DEF ScreenOK
<1> QED
  BY <1>2, <1>4, Zenon DEF ScreenOK, At, Working, Waiting

\* A step of the agent that answers for all parts of the invariant.
StepOK == [Next]_vars /\ AgentTypeOK' /\ WorkOK' /\ ScreenOK'
----------------------------------------------------------------------------
(* Start, registration and the account snapshot.                            *)

LEMMA StartAgentOK == ASSUME AgentInv, StartAgent PROVE StepOK
<1> USE DEF AgentInv
<1> DEFINE listed == Listed(directory.accounts)
<1>1. /\ agent' = [agent EXCEPT !.stage = "registering", !.next = listed]
      /\ shown' = [shown EXCEPT !.lock_state = SnapshotOf(listed).lock_state]
      /\ UNCHANGED <<vars, heartbeat, directory, done, approvals>>
      /\ At("down") /\ heartbeat.stage = "off"
  BY DEF StartAgent
<1>2. listed \in AccountsFound /\ SnapshotOf(listed).lock_state \in LockState
  BY ListedType DEF AgentTypeOK
<1> HIDE DEF listed
<1>3. /\ agent' \in MainState /\ agent'.stage = "registering"
      /\ shown' \in [lock_state : LockState, ids : SUBSET RequestId]
      /\ shown'.ids = shown.ids
  BY <1>1, <1>2, Zenon DEF AgentTypeOK, MainState, Waiting
<1>4. AgentTypeOK'
  <2>1. JobOK(agent.stage, agent.job)'
    BY <1>3 DEF JobOK, Working
  <2> QED
    BY <1>1, <1>3, <2>1, Zenon DEF AgentTypeOK
<1>5. Effect(AgentWallet, {}, {})
  BY <1>1, NoEffect DEF vars
<1>6. WorkOK'
  BY <1>1, <1>3, <1>5, WorkFrame
<1>7. Named = {} /\ Named' = {}
  BY <1>1, <1>3 DEF Named, ScreenOK
<1>8. OnScreen' \subseteq OnScreen
  BY <1>1, <1>5, <1>7, ScreenShrinks
<1>9. ScreenOK'
  BY <1>1, <1>3, <1>7, <1>8 DEF ScreenOK, At, Working, Waiting, Named, NamedAndLive
<1> QED
  BY <1>1, <1>4, <1>6, <1>9 DEF StepOK

\* Publishing a snapshot is a command of the coordinator's.
LEMMA PublishIsACommand ==
    ASSUME AgentInv,
           \/ RegisterBackend(AgentWallet, SnapshotOf(agent.next))
           \/ UpdateBackendAccounts(AgentWallet, SnapshotOf(agent.next)),
           UNCHANGED <<now, requestVars>>
    PROVE  Next /\ Effect(AgentWallet, {}, {})
<1>1. SnapshotOf(agent.next) \in SnapshotInput
  BY SnapshotIsLocal, AgentIsABackend DEF AgentInv, AgentTypeOK, MainState
<1>2. Next
  BY <1>1, ConstantTypes, Zenon DEF Next, BackendNext
<1> QED
  BY <1>2, NoEffect DEF requestVars

\* The snapshot is out, and the main thread goes on without a job in hand.
LEMMA PublishedOK ==
    ASSUME AgentInv, [Next]_vars, Effect(AgentWallet, {}, {}), UNCHANGED <<directory, done, approvals, shown>>,
           NEW stage \in {"idle", "pulling"}, agent' = Published(stage),
           agent.stage \in Waiting,
           \/ UNCHANGED heartbeat
           \/ heartbeat' = [Asleep EXCEPT !.due = now + HeartbeatInterval]
    PROVE  AgentTypeOK' /\ WorkOK' /\ ScreenOK'
<1> USE DEF AgentInv
<1>1. /\ agent' \in MainState /\ agent'.stage = stage
  BY ConstantTypes, Zenon DEF Published, AgentTypeOK, MainState, Waiting
<1>2. /\ heartbeat' \in [stage : {"off", "asleep", "sending", "orphaned"},
                         lock_state : LockState, ids : SUBSET RequestId, due : Nat]
      /\ heartbeat'.ids \subseteq heartbeat.ids
      /\ heartbeat'.stage = "off" => heartbeat'.ids = {}
  <2>1. CASE UNCHANGED heartbeat
    BY <2>1 DEF AgentTypeOK, ScreenOK
  <2>2. CASE heartbeat' = [Asleep EXCEPT !.due = now + HeartbeatInterval]
    <3>1. now + HeartbeatInterval \in Nat
      BY AgentAssumption DEF TypesAndRows, TypeOK, RegistryTypeOK
    <3> QED
      BY <2>2, <3>1 DEF Asleep, LockState
  <2> QED
    BY <2>1, <2>2
<1>3. AgentTypeOK'
  <2>1. JobOK(agent.stage, agent.job)'
    BY <1>1 DEF JobOK, Working
  <2> QED
    BY <1>1, <1>2, <2>1 DEF AgentTypeOK
<1>4. WorkOK'
  BY <1>1, WorkFrame
<1>5. Named' \subseteq Named
  BY <1>2 DEF Named
<1>6. /\ OnScreen' \subseteq OnScreen /\ NamedAndLive' \subseteq NamedAndLive
      /\ Named' \subseteq Owned(AgentWallet)'
  BY <1>5, ScreenShrinks, Zenon DEF ScreenOK
<1>7. ScreenOK'
  BY <1>1, <1>2, <1>6 DEF ScreenOK, At, Working, Waiting
<1> QED
  BY <1>3, <1>4, <1>7

LEMMA RegisterAgentOK == ASSUME AgentInv, RegisterAgent PROVE StepOK
<1> DEFINE Command == /\ RegisterBackend(AgentWallet, SnapshotOf(agent.next))
                      /\ UNCHANGED <<now, requestVars>>
<1>1. /\ At("registering") /\ UNCHANGED <<directory, done, approvals>>
      /\ \/ /\ Command
            /\ agent' = Published("idle") /\ UNCHANGED shown
            /\ heartbeat' = [Asleep EXCEPT !.due = now + HeartbeatInterval]
         \/ Command /\ Exit
         \/ UNCHANGED vars /\ Exit
  BY DEF RegisterAgent, Ask
<1>2. \A r, s \in OnScreen : r = s
  BY Zenon DEF AgentInv, ScreenOK
<1>3. CASE Command
  <2>1. Next /\ Effect(AgentWallet, {}, {})
    BY <1>3, PublishIsACommand
  <2>2. CASE Exit
    BY <1>1, <1>2, <2>1, <2>2, ExitOK DEF StepOK
  <2>3. CASE ~Exit
    <3>1. agent' = Published("idle") /\ UNCHANGED shown
          /\ heartbeat' = [Asleep EXCEPT !.due = now + HeartbeatInterval]
      BY <1>1, <2>3
    <3>2. agent.stage \in Waiting
      BY <1>1 DEF At, Waiting
    <3> QED
      BY <1>1, <2>1, <3>1, <3>2, PublishedOK DEF StepOK
  <2> QED
    BY <2>2, <2>3
<1>4. CASE ~Command
  <2>1. UNCHANGED vars /\ Exit
    BY <1>1, <1>4
  <2>2. Effect(AgentWallet, {}, {})
    BY <2>1, NoEffect DEF vars
  <2> QED
    BY <1>1, <1>2, <2>1, <2>2, ExitOK DEF StepOK
<1> QED
  BY <1>3, <1>4

LEMMA UpdateAccountsOK == ASSUME AgentInv, UpdateAccounts PROVE StepOK
<1> DEFINE Command == /\ UpdateBackendAccounts(AgentWallet, SnapshotOf(agent.next))
                      /\ UNCHANGED <<now, requestVars>>
<1>1. /\ At("updating") /\ UNCHANGED <<directory, done, approvals>>
      /\ \/ /\ Command
            /\ agent' = Published("pulling") /\ UNCHANGED <<shown, heartbeat>>
         \/ Command /\ Exit
         \/ UNCHANGED vars /\ Exit
  BY DEF UpdateAccounts, Ask
<1>2. \A r, s \in OnScreen : r = s
  BY DEF AgentInv, ScreenOK
<1>3. CASE Command
  <2>1. Next /\ Effect(AgentWallet, {}, {})
    BY <1>3, PublishIsACommand
  <2>2. CASE Exit
    BY <1>1, <1>2, <2>1, <2>2, ExitOK DEF StepOK
  <2>3. CASE ~Exit
    <3>1. agent' = Published("pulling") /\ UNCHANGED <<shown, heartbeat>>
      BY <1>1, <2>3
    <3>2. agent.stage \in Waiting
      BY <1>1 DEF At, Waiting
    <3> QED
      BY <1>1, <2>1, <3>1, <3>2, PublishedOK DEF StepOK
  <2> QED
    BY <2>2, <2>3
<1>4. CASE ~Command
  <2>1. UNCHANGED vars /\ Exit
    BY <1>1, <1>4
  <2>2. Effect(AgentWallet, {}, {})
    BY <2>1, NoEffect DEF vars
  <2> QED
    BY <1>1, <1>2, <2>1, <2>2, ExitOK DEF StepOK
<1> QED
  BY <1>3, <1>4

LEMMA SyncSnapshotOK == ASSUME AgentInv, SyncSnapshot PROVE StepOK
<1> USE DEF AgentInv
<1> DEFINE listed == Listed(directory.accounts)
<1>1. /\ At("idle") /\ UNCHANGED <<vars, heartbeat, directory, done, approvals>>
      /\ shown' = [shown EXCEPT !.lock_state = SnapshotOf(listed).lock_state]
      /\ \/ agent' = [agent EXCEPT !.stage = "pulling"]
         \/ agent' = [agent EXCEPT !.stage = "updating", !.next = listed]
  BY DEF SyncSnapshot, set_lock_state
<1>2. listed \in AccountsFound /\ SnapshotOf(listed).lock_state \in LockState
  BY ListedType DEF AgentTypeOK
<1> HIDE DEF listed
<1>3. /\ agent' \in MainState /\ agent'.stage \in {"pulling", "updating"}
      /\ shown' \in [lock_state : LockState, ids : SUBSET RequestId]
      /\ shown'.ids = shown.ids
  BY <1>1, <1>2, Zenon DEF AgentTypeOK, MainState, Waiting
<1>4. AgentTypeOK'
  <2>1. JobOK(agent.stage, agent.job)'
    BY <1>3 DEF JobOK, Working
  <2> QED
    BY <1>1, <1>3, <2>1 DEF AgentTypeOK
<1>5. Effect(AgentWallet, {}, {})
  BY <1>1, NoEffect DEF vars
<1>6. WorkOK'
  BY <1>1, <1>3, <1>5, WorkFrame
<1>7. Named' = Named
  BY <1>1, <1>3 DEF Named
<1>8. /\ OnScreen' \subseteq OnScreen /\ NamedAndLive' \subseteq NamedAndLive
      /\ Named' \subseteq Owned(AgentWallet)'
  BY <1>1, <1>5, <1>7, ScreenShrinks DEF ScreenOK
<1>9. ScreenOK'
  BY <1>1, <1>3, <1>8 DEF ScreenOK, At, Working, Waiting
<1> QED
  BY <1>1, <1>4, <1>6, <1>9 DEF StepOK
----------------------------------------------------------------------------
(* One request: the pull, the account and the presentation.                 *)

\* The main thread is back at the top of its loop.
LEMMA LoopOK ==
    ASSUME AgentInv, [Next]_vars, NEW won, Effect(AgentWallet, {}, won), \A r \in won : done[r] >= 1,
           Loop, UNCHANGED <<shown, heartbeat, directory, done, approvals>>,
           NamedAndLive' = {}
    PROVE  AgentTypeOK' /\ WorkOK' /\ ScreenOK'
<1> USE DEF AgentInv
<1>1. agent' \in MainState /\ agent'.stage = "idle"
  BY ConstantTypes, Zenon DEF Loop, AgentTypeOK, MainState, Waiting
<1>2. AgentTypeOK'
  <2>1. JobOK(agent.stage, agent.job)'
    BY <1>1, Zenon DEF JobOK, Working
  <2> QED
    BY <1>1, <2>1, Zenon DEF AgentTypeOK
<1>3. WorkOK'
  BY <1>1, WorkFrame, Zenon
<1>4. Named' = Named
  BY Zenon DEF Named
<1>5. OnScreen' \subseteq OnScreen /\ Named' \subseteq Owned(AgentWallet)'
  BY <1>4, ScreenShrinks, Zenon DEF ScreenOK
<1>6. ScreenOK'
  BY <1>1, <1>5, Zenon DEF ScreenOK, At, Working, Waiting
<1> QED
  BY <1>2, <1>3, <1>6

\* A request comes in; nothing else is on screen.
LEMMA DeliveredOK ==
    ASSUME AgentInv, [Next]_vars, Effect(AgentWallet, {}, {}), NEW r \in RequestId,
           r \in Owned(AgentWallet), OnScreen \subseteq {r},
           NEW p \in 0 .. MaxLeases, NEW lease \in 0 .. MaxLeases, p # 0 \/ lease # 0,
           agent' = Delivered(r, p, lease),
           UNCHANGED <<shown, heartbeat, directory, done, approvals>>
    PROVE  AgentTypeOK' /\ WorkOK' /\ ScreenOK'
<1> USE DEF AgentInv
<1> DEFINE job == [Quiet EXCEPT !.request = r, !.lease = lease, !.presentation_id = p]
<1>1. /\ job \in Job /\ job.request = r /\ job.presentation_id = p /\ job.lease = lease
  BY ConstantTypes, Zenon DEF Quiet, Job
<1>2. agent' = [agent EXCEPT !.stage = "handling", !.job = job]
  BY DEF Delivered
<1> HIDE DEF job
<1>3. agent' \in MainState /\ agent'.stage = "handling" /\ agent'.job = job
  BY <1>1, <1>2, Zenon DEF AgentTypeOK, MainState, Working
<1>4. AgentTypeOK'
  <2>1. r \in Owned(AgentWallet)'
    BY OldRows, Zenon
  <2>2. JobOK(agent.stage, agent.job)'
    BY <1>1, <1>3, <2>1, Zenon DEF JobOK
  <2> QED
    BY <1>3, <2>2, Zenon DEF AgentTypeOK
<1>5. WorkOK'
  BY <1>3, WorkFrame
<1>6. Named' = Named
  BY Zenon DEF Named
<1>7. OnScreen' \subseteq {r} /\ Named' \subseteq Owned(AgentWallet)'
  BY <1>6, ScreenShrinks, Zenon DEF ScreenOK
<1>8. ScreenOK'
  BY <1>1, <1>3, <1>7, Zenon DEF ScreenOK, At, Working, Waiting
<1> QED
  BY <1>4, <1>5, <1>8, Zenon

LEMMA PullNextRequestOK == ASSUME AgentInv, PullNextRequest PROVE StepOK
<1> USE DEF AgentInv
<1>1. /\ At("pulling") /\ agent.stage \in Waiting
      /\ UNCHANGED <<shown, heartbeat, directory, done, approvals>>
  BY Zenon DEF PullNextRequest, At, Waiting
<1>2. NamedAndLive = {} /\ Named \subseteq Owned(AgentWallet)
  BY <1>1, Zenon DEF ScreenOK
<1>3. ASSUME [Next]_vars, Effect(AgentWallet, {}, {}), Loop PROVE StepOK
  <2>1. Named' = Named
    BY <1>1 DEF Named
  <2>2. NamedAndLive' = {}
    BY <1>2, <1>3, <2>1, ScreenShrinks
  <2> QED
    BY <1>1, <1>3, <2>2, LoopOK DEF StepOK
<1>4. ASSUME NEW r \in RequestId, ResumeRequest(AgentWallet, r),
             agent' = Delivered(r, requests[r].presentation.id, 0) \/ Loop
      PROVE  StepOK
  <2>1. Next
    BY <1>4, ConstantTypes, Zenon DEF Next, BackendNext
  <2>2. Effect(AgentWallet, {}, {})
    BY <1>4, ResumeEffect, Zenon
  <2>3. r \in Resumable(AgentWallet) /\ r \in Owned(AgentWallet) /\ r \in OnScreen
    BY <1>4, Zenon DEF ResumeRequest, Oldest, Resumable, OnScreen
  <2>4. OnScreen \subseteq {r}
    BY <2>3, Zenon DEF ScreenOK
  <2>5. requests[r].presentation.id \in 1 .. MaxLeases
    BY <2>3, ConstantTypes, Zenon DEF Resumable, Owned, TypesAndRows, RowsOK, RowOK, Request
  <2>6. CASE agent' = Delivered(r, requests[r].presentation.id, 0)
    BY <1>1, <2>1, <2>2, <2>3, <2>4, <2>5, <2>6, ConstantTypes, DeliveredOK DEF StepOK
  <2> QED
    BY <1>3, <1>4, <2>1, <2>2, <2>6, Zenon
<1>5. ASSUME NEW r \in RequestId, ClaimRequest(AgentWallet, r),
             agent' = Delivered(r, NoPresentation, next_lease_id) \/ Loop
      PROVE  StepOK
  <2>1. Next
    BY <1>5, ConstantTypes, Zenon DEF Next, BackendNext
  <2>2. Effect(AgentWallet, {}, {})
    BY <1>5, ClaimEffect, Zenon
  <2>3. r \in Owned(AgentWallet) /\ Resumable(AgentWallet) = {} /\ next_lease_id <= MaxLeases
    BY <1>5, Zenon DEF ClaimRequest, Oldest, Claimable
  <2>4. OnScreen \subseteq {r}
    BY <1>2, <2>3 DEF OnScreen
  <2>5. next_lease_id \in 1 .. MaxLeases
    BY <2>3, ConstantTypes DEF TypesAndRows, TypeOK
  <2>6. CASE agent' = Delivered(r, NoPresentation, next_lease_id)
    BY <1>1, <2>1, <2>2, <2>3, <2>4, <2>5, <2>6, ConstantTypes, DeliveredOK DEF StepOK
  <2> QED
    BY <1>3, <1>5, <2>1, <2>2, <2>6, Zenon
<1>6. ASSUME UNCHANGED vars, Loop PROVE StepOK
  <2>1. Effect(AgentWallet, {}, {})
    BY <1>6, NoEffect, Zenon DEF vars
  <2> QED
    BY <1>3, <1>6, <2>1
<1> QED
  BY <1>4, <1>5, <1>6, Zenon DEF PullNextRequest

\* The job in hand as the main thread leaves it.
LEMMA LocalStep ==
    ASSUME AgentInv, UNCHANGED <<vars, heartbeat>>,
           directory' \in [accounts : AccountsFound, file : BOOLEAN, changes : Nat],
           agent.stage \in Working,
           NEW stage \in Working, NEW job \in Job,
           agent' = [agent EXCEPT !.stage = stage, !.job = job],
           job.request = agent.job.request,
           stage # "answering" \/ job.reason = "none" => job.presentation_id # 0,
           stage # "handling",
           shown' \in [lock_state : LockState, ids : SUBSET RequestId],
           shown'.ids \subseteq shown.ids,
           done' \in [RequestId -> Nat], approvals' \in [RequestId -> Nat]
    PROVE  /\ [Next]_vars /\ AgentTypeOK' /\ ScreenOK' /\ Effect(AgentWallet, {}, {})
           /\ agent'.stage = stage /\ agent'.job = job
<1> USE DEF AgentInv
<1>1. agent' \in MainState /\ agent'.stage = stage /\ agent'.job = job
  BY Zenon DEF AgentTypeOK, MainState
<1>2. ScreenOK' /\ [Next]_vars /\ Effect(AgentWallet, {}, {}) /\ Owned(AgentWallet)' = Owned(AgentWallet)
  BY <1>1, LocalScreen
<1>3. job.request \in Owned(AgentWallet)'
  BY <1>2 DEF AgentTypeOK, JobOK
<1>4. JobOK(agent.stage, agent.job)'
  BY <1>1, <1>3 DEF JobOK
<1> QED
  BY <1>1, <1>2, <1>4 DEF AgentTypeOK

LEMMA LoadAccountOK == ASSUME AgentInv, LoadAccount PROVE StepOK
<1> USE DEF AgentInv
<1> DEFINE reason == IF Row.kind \in MutationKind THEN "none"
                     ELSE load_signing_account_info(Row.account_address)
           locked == /\ Row.kind \notin MutationKind
                     /\ directory.accounts[Row.account_address] = "locked"
           id == IF agent.job.presentation_id = NoPresentation
                 THEN agent.job.lease ELSE agent.job.presentation_id
           refused == [agent.job EXCEPT !.reason = reason]
           accepted == [agent.job EXCEPT !.locked = locked, !.presentation_id = id]
<1>1. /\ agent.stage = "handling" /\ agent.stage \in Working
      /\ UNCHANGED <<vars, shown, heartbeat, directory, done, approvals>>
  BY DEF LoadAccount, At, Working
<1>2. reason \in {"none", "backend_unavailable", "unsupported_operation"}
  BY DEF load_signing_account_info
<1>3. agent.job \in Job /\ agent \in MainState
  BY Zenon DEF AgentTypeOK, MainState
<1>4. agent' = IF reason # "none"
               THEN [agent EXCEPT !.stage = "answering", !.job = refused]
               ELSE [agent EXCEPT !.stage = "presenting", !.job = accepted]
  BY <1>3, Zenon DEF LoadAccount, At, MainState
<1>5. id \in 0 .. MaxLeases /\ id # 0
  BY <1>1, <1>3, ConstantTypes, Zenon DEF AgentTypeOK, JobOK, Job
<1>6. locked \in BOOLEAN
  OBVIOUS
<1> HIDE DEF reason, locked, id
<1>7. /\ accepted \in Job /\ accepted.request = agent.job.request /\ accepted.presentation_id = id
  BY <1>3, <1>5, <1>6, Zenon DEF Job
<1>8. /\ refused \in Job /\ refused.request = agent.job.request /\ refused.reason = reason
  BY <1>2, <1>3 DEF Job, AgentReason
<1> HIDE DEF refused, accepted
<1>9. /\ shown' \in [lock_state : LockState, ids : SUBSET RequestId]
      /\ done' \in [RequestId -> Nat] /\ approvals' \in [RequestId -> Nat]
      /\ directory' \in [accounts : AccountsFound, file : BOOLEAN, changes : Nat]
  BY <1>1, Zenon DEF AgentTypeOK
<1>10. CASE reason # "none"
  <2>1. agent' = [agent EXCEPT !.stage = "answering", !.job = refused]
    BY <1>4, <1>10
  <2>2. /\ [Next]_vars /\ AgentTypeOK' /\ ScreenOK' /\ Effect(AgentWallet, {}, {})
        /\ agent'.stage = "answering" /\ agent'.job = refused
    BY <1>1, <1>8, <1>9, <1>10, <2>1, LocalStep, Zenon DEF Working
  <2>3. WorkOK'
    BY <1>1, <1>8, <1>10, <2>2, WorkFrame
  <2> QED
    BY <2>2, <2>3, Zenon DEF StepOK
<1>11. CASE reason = "none"
  <2>1. agent' = [agent EXCEPT !.stage = "presenting", !.job = accepted]
    BY <1>4, <1>11
  <2>2. /\ [Next]_vars /\ AgentTypeOK' /\ ScreenOK' /\ Effect(AgentWallet, {}, {})
        /\ agent'.stage = "presenting"
    BY <1>1, <1>5, <1>7, <1>9, <2>1, LocalStep, Zenon DEF Working
  <2>3. WorkOK'
    BY <1>1, <2>2, WorkFrame
  <2> QED
    BY <2>2, <2>3 DEF StepOK
<1> QED
  BY <1>10, <1>11

LEMMA RequestPresentedOK == ASSUME AgentInv, RequestPresented PROVE StepOK
<1> USE DEF AgentInv
<1> DEFINE r == agent.job.request
           Command == MarkRequestPresented(AgentWallet, r, agent.job.presentation_id,
                                           agent.job.lease)
<1>1. /\ agent.stage = "presenting" /\ UNCHANGED <<directory, done, approvals>>
      /\ \/ /\ Command
            /\ agent' = [agent EXCEPT !.stage = "opening"]
            /\ shown' = [shown EXCEPT !.ids = shown.ids \cup {r}]
            /\ UNCHANGED heartbeat
         \/ Command /\ Exit
         \/ UNCHANGED vars /\ Exit
  BY DEF RequestPresented, Ask, At, push_presented_request
<1>2. /\ agent.job \in Job /\ agent \in MainState
      /\ r \in Owned(AgentWallet) /\ agent.job.presentation_id # 0
      /\ OnScreen \subseteq {r}
  BY <1>1, Zenon DEF AgentTypeOK, MainState, JobOK, ScreenOK, Working
<1>3. r \in RequestId
  BY <1>2, Zenon DEF Owned, TypesAndRows, TypeOK
<1>4. CASE Command
  <2>1. /\ agent.job.presentation_id \in PresentationId
        /\ agent.job.lease \in 0 .. MaxLeases
    BY <1>2, ConstantTypes DEF Job
  <2>2. Next
    BY <1>3, <1>4, <2>1, ConstantTypes, Zenon DEF Next, BackendNext
  <2>3. Effect(AgentWallet, {r}, {})
    BY <1>4, PresentedEffect
  <2>4. CASE Exit
    BY <1>1, <1>2, <2>2, <2>3, <2>4, ExitOK DEF StepOK
  <2>5. CASE ~Exit
    <3>1. /\ agent' = [agent EXCEPT !.stage = "opening"]
          /\ shown' = [shown EXCEPT !.ids = shown.ids \cup {r}]
          /\ UNCHANGED heartbeat
      BY <1>1, <2>5
    <3>2. /\ agent' \in MainState /\ agent'.stage = "opening" /\ agent'.job = agent.job
          /\ shown' \in [lock_state : LockState, ids : SUBSET RequestId]
          /\ shown'.ids = shown.ids \cup {r}
      BY <1>2, <1>3, <3>1, Zenon DEF AgentTypeOK, MainState, Working
    <3>3. r \in Owned(AgentWallet)'
      BY <1>2, <2>2, OldRows, Zenon
    <3>4. AgentTypeOK'
      <4>1. JobOK(agent.stage, agent.job)'
        BY <1>2, <3>2, <3>3, Zenon DEF JobOK
      <4> QED
        BY <1>1, <3>1, <3>2, <4>1, Zenon DEF AgentTypeOK
    <3>5. WorkOK'
      BY <1>1, <2>3, <3>2, WorkFrame
    <3>6. Named' \subseteq Named \cup {r}
      BY <3>1, <3>2, Zenon DEF Named
    <3>7. OnScreen' \subseteq {r} /\ Named' \subseteq Owned(AgentWallet)'
      BY <1>2, <2>2, <2>3, <3>6, ScreenShrinks, Zenon DEF ScreenOK
    <3>8. ScreenOK'
      BY <3>1, <3>2, <3>7 DEF ScreenOK, At, Working, Waiting
    <3> QED
      BY <2>2, <3>4, <3>5, <3>8 DEF StepOK
  <2> QED
    BY <2>4, <2>5, Zenon
<1>5. CASE ~Command
  <2>1. UNCHANGED vars /\ Exit
    BY <1>1, <1>5
  <2>2. Effect(AgentWallet, {}, {})
    BY <2>1, NoEffect, Zenon DEF vars
  <2> QED
    BY <1>1, <1>2, <2>1, <2>2, ExitOK DEF StepOK
<1> QED
  BY <1>4, <1>5
----------------------------------------------------------------------------
(* The prompt, the work and the answer.                                     *)

\* The prompt ends, with work to do or with a reason to reject the request.
LEMMA DecidedStep ==
    ASSUME AgentInv, UNCHANGED <<vars, heartbeat, directory>>,
           agent.stage \in {"opening", "prompting"},
           NEW stage \in {"answering", "fulfilling"}, NEW reason \in AgentReason \cup {"none"},
           stage = "answering" => reason # "none",
           NEW password \in {"none", "right", "wrong", "new"},
           Decided(stage, reason, password),
           done' \in [RequestId -> Nat], approvals' \in [RequestId -> Nat]
    PROVE  /\ [Next]_vars /\ AgentTypeOK' /\ ScreenOK' /\ Effect(AgentWallet, {}, {})
           /\ agent'.stage = stage /\ agent'.job.request = agent.job.request
           /\ agent'.job.reason = reason
<1> USE DEF AgentInv
<1> DEFINE job == [agent.job EXCEPT !.reason = reason, !.password = password]
<1>1. /\ agent.job \in Job /\ agent \in MainState /\ agent.job.presentation_id # 0
      /\ agent.stage \in Working /\ stage \in Working
  BY Zenon DEF AgentTypeOK, MainState, JobOK, Working
<1>2. agent' = [agent EXCEPT !.stage = stage, !.job = job]
  BY <1>1, Zenon DEF Decided, MainState
<1>3. /\ job \in Job /\ job.request = agent.job.request /\ job.reason = reason
      /\ job.presentation_id # 0
  BY <1>1, Zenon DEF Job
<1>4. /\ shown' \in [lock_state : LockState, ids : SUBSET RequestId]
      /\ shown'.ids \subseteq shown.ids
  BY DEF Decided, pop_presented_request, AgentTypeOK
<1>5. directory' \in [accounts : AccountsFound, file : BOOLEAN, changes : Nat]
  BY Zenon DEF AgentTypeOK
<1> HIDE DEF job
<1> QED
  BY <1>1, <1>2, <1>3, <1>4, <1>5, LocalStep, Zenon

LEMMA OpenPromptOK == ASSUME AgentInv, OpenPrompt PROVE StepOK
<1> USE DEF AgentInv
<1>1. /\ agent.stage = "opening" /\ UNCHANGED <<vars, heartbeat, directory, done, approvals>>
      /\ done' \in [RequestId -> Nat] /\ approvals' \in [RequestId -> Nat]
  BY DEF OpenPrompt, At, AgentTypeOK
<1>2. PromptRefusal \in {"none", "unsupported_operation", "wallet_locked"}
  BY DEF PromptRefusal
<1>3. CASE PromptRefusal = "none"
  <2>1. agent' = [agent EXCEPT !.stage = "prompting"] /\ UNCHANGED shown
    BY <1>3 DEF OpenPrompt
  <2>2. /\ agent.job \in Job /\ agent \in MainState /\ agent.job.presentation_id # 0
        /\ agent.stage \in Working
    BY <1>1, Zenon DEF AgentTypeOK, MainState, JobOK, Working
  <2>3. agent' = [agent EXCEPT !.stage = "prompting", !.job = agent.job]
    BY <2>1, <2>2, Zenon DEF MainState
  <2>4. /\ shown' \in [lock_state : LockState, ids : SUBSET RequestId]
        /\ directory' \in [accounts : AccountsFound, file : BOOLEAN, changes : Nat]
    BY <1>1, <2>1 DEF AgentTypeOK
  <2>5. /\ [Next]_vars /\ AgentTypeOK' /\ ScreenOK' /\ Effect(AgentWallet, {}, {})
        /\ agent'.stage = "prompting"
    BY <1>1, <2>1, <2>2, <2>3, <2>4, LocalStep, Zenon DEF Working
  <2>6. WorkOK'
    BY <1>1, <2>5, WorkFrame
  <2> QED
    BY <2>5, <2>6 DEF StepOK
<1>4. CASE PromptRefusal # "none"
  <2>1. Decided("answering", PromptRefusal, "none")
    BY <1>4 DEF OpenPrompt
  <2>2. PromptRefusal \in AgentReason
    BY <1>2, <1>4 DEF AgentReason
  <2>3. /\ [Next]_vars /\ AgentTypeOK' /\ ScreenOK' /\ Effect(AgentWallet, {}, {})
        /\ agent'.stage = "answering" /\ agent'.job.reason # "none"
    BY <1>1, <1>4, <2>1, <2>2, DecidedStep, Zenon
  <2>4. WorkOK'
    BY <1>1, <2>3, WorkFrame
  <2> QED
    BY <2>3, <2>4, Zenon DEF StepOK
<1> QED
  BY <1>3, <1>4

LEMMA PromptFailsOK == ASSUME AgentInv, PromptFails PROVE StepOK
<1> USE DEF AgentInv
<1>1. /\ agent.stage = "prompting" /\ UNCHANGED <<vars, heartbeat, directory, done, approvals>>
      /\ done' \in [RequestId -> Nat] /\ approvals' \in [RequestId -> Nat]
  BY Zenon DEF PromptFails, At, AgentTypeOK
<1>2. PICK reason \in {"request_rejected", "backend_unavailable"} :
        Decided("answering", reason, "none")
  BY DEF PromptFails
<1>3. reason \in AgentReason /\ reason # "none"
  BY Zenon DEF AgentReason
<1>4. /\ [Next]_vars /\ AgentTypeOK' /\ ScreenOK' /\ Effect(AgentWallet, {}, {})
      /\ agent'.stage = "answering" /\ agent'.job.reason # "none"
  BY <1>1, <1>2, <1>3, DecidedStep, Zenon
<1>5. WorkOK'
  BY <1>1, <1>4, WorkFrame
<1> QED
  BY <1>4, <1>5, Zenon DEF StepOK

\* A yes leaves one approval more than there is work done.
LEMMA SaysYesOK ==
    ASSUME AgentInv, SaysYes,
           NEW stage \in {"answering", "fulfilling"}, NEW reason \in AgentReason \cup {"none"},
           stage = "answering" => reason # "none",
           NEW password \in {"none", "right", "wrong", "new"},
           Decided(stage, reason, password)
    PROVE  StepOK
<1> USE DEF AgentInv
<1> DEFINE r == agent.job.request
<1>1. /\ agent.stage = "prompting" /\ UNCHANGED <<vars, heartbeat, directory, done>>
      /\ approvals' = [approvals EXCEPT ![r] = approvals[r] + 1]
  BY Zenon DEF SaysYes, At
<1>2. r \in RequestId /\ approvals \in [RequestId -> Nat] /\ done \in [RequestId -> Nat]
  BY <1>1, Zenon DEF AgentTypeOK, JobOK, Working, Owned, TypesAndRows, TypeOK
<1>3. /\ done' \in [RequestId -> Nat] /\ approvals' \in [RequestId -> Nat]
      /\ approvals'[r] = approvals[r] + 1
      /\ \A x \in RequestId : approvals[x] <= approvals'[x]
  BY <1>1, <1>2
<1>4. /\ [Next]_vars /\ AgentTypeOK' /\ ScreenOK' /\ Effect(AgentWallet, {}, {})
      /\ agent'.stage = stage /\ agent'.job.request = r /\ agent'.job.reason = reason
  BY <1>1, <1>3, DecidedStep, Zenon
<1>5. \A x \in RequestId :
         /\ done'[x] <= approvals'[x]
         /\ x \in DOMAIN requests' /\ requests'[x].status = "approved" => done'[x] >= 1
  BY <1>1, <1>2, <1>3, <1>4 DEF WorkOK, NothingDoneUnasked, Effect
<1>6. done'[r] < approvals'[r]
  BY <1>1, <1>2, <1>3 DEF WorkOK, NothingDoneUnasked
<1>7. WorkOK'
  BY <1>1, <1>4, <1>5, <1>6, WorkShown, Zenon
<1> QED
  BY <1>4, <1>7, Zenon DEF StepOK

LEMMA PromptApprovedOK ==
    ASSUME AgentInv, PromptApproved \/ NewAccountApproved PROVE StepOK
<1>1. /\ SaysYes
      /\ \/ \E password \in {"none", "right", "wrong", "new"} :
               Decided("fulfilling", "none", password)
         \/ \E reason \in {"wallet_locked", "backend_policy_blocked"} :
               Decided("answering", reason, "none")
  BY Zenon DEF PromptApproved, NewAccountApproved, prompt_for_new_account_password
<1>2. {"wallet_locked", "backend_policy_blocked"} \subseteq AgentReason
  BY DEF AgentReason
<1> QED
  BY <1>1, <1>2, SaysYesOK

\* The work was done or not, which uses up the approval; a result is answered
\* only if it was.
LEMMA WorkedOK ==
    ASSUME AgentInv, agent.stage = "fulfilling", UNCHANGED <<vars, heartbeat, approvals>>,
           directory' \in [accounts : AccountsFound, file : BOOLEAN, changes : Nat],
           NEW reason \in AgentReason \cup {"none"}, Answer(reason),
           NEW worked \in BOOLEAN, reason = "none" => worked, WorkDone(worked)
    PROVE  StepOK
<1> USE DEF AgentInv
<1> DEFINE r == agent.job.request
           job == [agent.job EXCEPT !.reason = reason, !.password = "none"]
<1>1. /\ agent.job \in Job /\ agent \in MainState /\ agent.job.presentation_id # 0
      /\ agent.stage \in Working /\ r \in Owned(AgentWallet)
  BY Zenon DEF AgentTypeOK, MainState, JobOK, Working
<1>2. r \in RequestId /\ approvals \in [RequestId -> Nat] /\ done \in [RequestId -> Nat]
  BY <1>1, Zenon DEF AgentTypeOK, Owned, TypesAndRows, TypeOK
<1>3. /\ done' \in [RequestId -> Nat] /\ approvals' = approvals
      /\ done'[r] = IF worked THEN done[r] + 1 ELSE done[r]
      /\ \A x \in RequestId : x # r => done'[x] = done[x]
  BY <1>2 DEF WorkDone
<1>4. agent' = [agent EXCEPT !.stage = "answering", !.job = job]
  BY <1>1, Zenon DEF Answer, MainState
<1>5. /\ job \in Job /\ job.request = r /\ job.reason = reason /\ job.presentation_id # 0
  BY <1>1, Zenon DEF Job
<1>6. /\ shown' \in [lock_state : LockState, ids : SUBSET RequestId]
      /\ shown'.ids \subseteq shown.ids
  BY DEF Answer, pop_presented_request, AgentTypeOK
<1> HIDE DEF job
<1>7. /\ [Next]_vars /\ AgentTypeOK' /\ ScreenOK' /\ Effect(AgentWallet, {}, {})
      /\ agent'.stage = "answering" /\ agent'.job = job
  BY <1>1, <1>2, <1>3, <1>4, <1>5, <1>6, LocalStep, Zenon DEF Working
<1> HIDE DEF r
<1>8. done[r] < approvals[r]
  BY Zenon DEF WorkOK, At, r
<1>9. \A x \in RequestId :
         /\ done'[x] <= approvals'[x]
         /\ x \in DOMAIN requests' /\ requests'[x].status = "approved" => done'[x] >= 1
  <2> SUFFICES ASSUME NEW x \in RequestId
               PROVE  /\ done'[x] <= approvals'[x]
                      /\ x \in DOMAIN requests' /\ requests'[x].status = "approved" =>
                             done'[x] >= 1
    BY Zenon
  <2>1. done[x] <= approvals[x] /\ done[x] <= done'[x] /\ done'[x] <= approvals[x]
    BY <1>2, <1>3, <1>8 DEF WorkOK, NothingDoneUnasked
  <2>2. x \in DOMAIN requests' /\ requests'[x].status = "approved" => done[x] >= 1
    BY <1>7, Zenon DEF WorkOK, NothingDoneUnasked, Effect
  <2> QED
    BY <1>2, <1>3, <2>1, <2>2
<1>10. reason = "none" => done'[r] >= 1
  BY <1>2, <1>3
<1>11. WorkOK'
  BY <1>5, <1>7, <1>9, <1>10, WorkShown, Zenon
<1> QED
  BY <1>7, <1>11, Zenon DEF StepOK

LEMMA FulfillRequestOK == ASSUME AgentInv, FulfillRequest PROVE StepOK
<1> USE DEF AgentInv
<1> DEFINE address == Row.account_address
           reason == load_signing_account_info(address)
           Types == [accounts : AccountsFound, file : BOOLEAN, changes : Nat]
<1>1. agent.stage = "fulfilling" /\ UNCHANGED <<vars, heartbeat, approvals>>
  BY Zenon DEF FulfillRequest, At
<1>2. directory \in Types /\ done \in [RequestId -> Nat]
  BY Zenon DEF AgentTypeOK
<1>3. reason \in AgentReason \cup {"none"} /\ "wallet_locked" \in AgentReason
      /\ "none" \notin AgentReason
  BY DEF load_signing_account_info, AgentReason
<1>4. CASE reason # "none" \/ UnlockRefused(address)
  <2>1. /\ Answer(IF reason # "none" THEN reason ELSE "wallet_locked")
        /\ UNCHANGED <<directory, done>>
    BY <1>4, Zenon DEF FulfillRequest
  <2>2. WorkDone(FALSE)
    BY <1>2, <2>1, Zenon DEF WorkDone
  <2> HIDE DEF reason
  <2>3. CASE reason # "none"
    BY <1>1, <1>2, <1>3, <2>1, <2>2, <2>3, WorkedOK, Zenon
  <2>4. CASE reason = "none"
    BY <1>1, <1>2, <1>3, <2>1, <2>2, <2>4, WorkedOK, Zenon
  <2> QED
    BY <2>3, <2>4
<1>5. CASE ~(reason # "none" \/ UnlockRefused(address))
  <2> DEFINE outcomes == CASE Row.kind = "sign_transaction" -> sign_transaction
                           [] Row.kind = "sign_message"     -> sign_message
                           [] Row.kind = "export_account"   -> export_account
  <2>1. Row.kind \in {"sign_transaction", "sign_message", "export_account"}
    BY <1>1, Zenon DEF FulfillRequest, Row, AgentTypeOK, JobOK, Working, Owned, TypesAndRows, RowsOK,
                RowOK, Request, RequestKind, MutationKind
  <2>2. outcomes \subseteq AgentReason \cup {"none"}
    BY <2>1 DEF sign_transaction, sign_message, export_account, write_private_key_file,
                AgentReason
  <2>3. PICK outcome \in outcomes :
          /\ directory' = [directory EXCEPT
                !.accounts[address] = "unlocked",
                !.file = @ \/ (Row.kind = "export_account" /\ outcome = "none")]
          /\ Answer(outcome)
          /\ WorkDone(outcome = "none")
    BY <1>5, Zenon DEF FulfillRequest
  <2> HIDE DEF outcomes
  <2>4. directory' \in Types
    BY <1>2, <2>3, Zenon DEF AccountsFound, AccountState
  <2> QED
    BY <1>1, <2>2, <2>3, <2>4, WorkedOK, Zenon
<1> QED
  BY <1>4, <1>5

LEMMA CreateOrImportOK == ASSUME AgentInv, CreateOrImport PROVE StepOK
<1> USE DEF AgentInv
<1> DEFINE outcomes == IF Row.kind = "create_account" THEN create_account ELSE import_account
           Types == [accounts : AccountsFound, file : BOOLEAN, changes : Nat]
<1>1. agent.stage = "fulfilling" /\ UNCHANGED <<vars, heartbeat, approvals>>
  BY DEF CreateOrImport, At
<1>2. directory \in Types
  BY DEF AgentTypeOK
<1>3. PICK outcome \in outcomes :
        /\ \/ UNCHANGED directory
           \/ \E a \in {b \in Address : directory.accounts[b] = "absent"} :
                 directory' = [directory EXCEPT !.accounts[a] = "locked"]
        /\ Answer(outcome.reason)
        /\ WorkDone(outcome.made)
  BY Zenon DEF CreateOrImport
<1>4. /\ outcome.made \in BOOLEAN /\ outcome.reason \in AgentReason \cup {"none"}
      /\ outcome.reason = "none" => outcome.made
  <2>1. \/ outcome = [made |-> FALSE, reason |-> "backend_unavailable"]
        \/ outcome = [made |-> TRUE, reason |-> "backend_unavailable"]
        \/ outcome = [made |-> TRUE, reason |-> "none"]
        \/ outcome = [made |-> FALSE, reason |-> "backend_policy_blocked"]
    BY Zenon DEF create_account, import_account
  <2>2. outcome.reason \in AgentReason \cup {"none"}
    BY <2>1 DEF AgentReason
  <2>3. CASE outcome = [made |-> FALSE, reason |-> "backend_unavailable"]
    BY <2>2, <2>3, Zenon
  <2>4. CASE outcome = [made |-> TRUE, reason |-> "backend_unavailable"]
    BY <2>2, <2>4, Zenon
  <2>5. CASE outcome = [made |-> TRUE, reason |-> "none"]
    BY <2>2, <2>5, Zenon
  <2>6. CASE outcome = [made |-> FALSE, reason |-> "backend_policy_blocked"]
    BY <2>2, <2>6, Zenon
  <2> QED
    BY <2>1, <2>3, <2>4, <2>5, <2>6, Zenon
<1>5. directory' \in Types
  BY <1>2, <1>3 DEF AccountsFound, AccountState
<1> HIDE DEF outcomes
<1> QED
  BY <1>1, <1>3, <1>4, <1>5, WorkedOK

\* The two answers are commands of the coordinator.
LEMMA ResolveIsACommand ==
    ASSUME NEW r \in RequestId, NEW p \in PresentationId, NEW result \in ResultKind,
           ResolveRequest(AgentWallet, r, p, result)
    PROVE  Next
  BY ConstantTypes, Zenon DEF Next, BackendNext

LEMMA RejectIsACommand ==
    ASSUME NEW r \in RequestId, NEW p \in PresentationId \cup {NoPresentation},
           NEW reason \in ReasonInput, RejectRequest(AgentWallet, r, p, reason)
    PROVE  Next
  BY ConstantTypes, Zenon DEF Next, BackendNext

\* The process ends without having reached the daemon.
LEMMA DiedOK ==
    ASSUME AgentInv, UNCHANGED vars, Exit, UNCHANGED <<directory, done, approvals>>
    PROVE  StepOK
<1>1. Effect(AgentWallet, {}, {})
  BY NoEffect, Zenon DEF vars
<1>2. \A r, s \in OnScreen \cup {} : r = s
  BY Zenon DEF AgentInv, ScreenOK
<1>3. AgentTypeOK' /\ WorkOK' /\ ScreenOK'
  BY <1>1, <1>2, ExitOK
<1> QED
  BY <1>3 DEF StepOK

LEMMA AnswerRequestOK == ASSUME AgentInv, AnswerRequest PROVE StepOK
<1> USE DEF AgentInv
<1> DEFINE job == agent.job
           r == agent.job.request
           Resolves == ResolveRequest(AgentWallet, r, job.presentation_id,
                                      expected_result_kind(Row.kind))
           Rejects == RejectRequest(AgentWallet, r, job.presentation_id, job.reason)
           won == IF job.reason = "none" THEN {r} ELSE {}
<1>1. /\ agent.stage = "answering" /\ UNCHANGED <<directory, done, approvals>>
      /\ \/ /\ IF job.reason = "none" THEN Resolves ELSE Rejects
            /\ \/ Loop /\ UNCHANGED <<shown, heartbeat>>
               \/ Exit
         \/ UNCHANGED vars /\ Exit
  BY Zenon DEF AnswerRequest, Ask, At
<1>2. /\ job \in Job /\ r \in Owned(AgentWallet) /\ OnScreen \subseteq {r}
      /\ job.reason = "none" => job.presentation_id # 0
  BY <1>1, Zenon DEF AgentTypeOK, MainState, JobOK, ScreenOK, Working
<1>3. r \in RequestId /\ r \in DOMAIN requests /\ Row \in Request /\ Row = requests[r]
  BY <1>2, Zenon DEF Owned, Row, TypesAndRows, TypeOK, RowsOK, RowOK
<1>4. \A x \in won : done[x] >= 1
  BY <1>1, Zenon DEF WorkOK, At
<1>5. ASSUME IF job.reason = "none" THEN Resolves ELSE Rejects
      PROVE  Next /\ Effect(AgentWallet, {}, won) /\ is_terminal(requests'[r].status)
  <2>1. CASE job.reason = "none"
    <3>1. Resolves
      BY <1>5, <2>1, Zenon
    <3>2. job.presentation_id \in PresentationId
      <4>1. job.presentation_id \in 0 .. MaxLeases /\ job.presentation_id # 0
        BY <1>2, <2>1, Zenon DEF Job
      <4> QED
        BY <4>1, ConstantTypes
    <3>3. expected_result_kind(Row.kind) \in ResultKind
      <4>1. Row.kind \in RequestKind
        BY <1>3, Zenon DEF Request
      <4> QED
        BY <4>1, ExpectedResultType, Zenon
    <3>4. Next
      BY <1>3, <3>1, <3>2, <3>3, ResolveIsACommand, Zenon
    <3> QED
      BY <2>1, <3>1, <3>2, <3>3, <3>4, ResolveEffect, Zenon
  <2>2. CASE job.reason # "none"
    <3>1. /\ Rejects /\ job.presentation_id \in PresentationId \cup {NoPresentation}
          /\ job.reason \in ReasonInput /\ job.reason \in RejectReasonCode
      <4>1. job.reason \in AgentReason /\ job.presentation_id \in 0 .. MaxLeases
        BY <1>2, <2>2, Zenon DEF Job
      <4>2. 0 .. MaxLeases = PresentationId \cup {NoPresentation}
        BY ConstantTypes
      <4> QED
        BY <1>5, <2>2, <4>1, <4>2, AgentIsABackend, CoordinatorAssumption, Zenon
    <3>2. Next
      BY <1>3, <3>1, RejectIsACommand, Zenon
    <3>3. Effect(AgentWallet, {}, {}) /\ is_terminal(requests'[r].status)
      BY <3>1, RejectEffect, Zenon
    <3> QED
      BY <2>2, <3>2, <3>3, Zenon
  <2> QED
    BY <2>1, <2>2, Zenon
<1> HIDE DEF won, Resolves, Rejects
<1>6. CASE UNCHANGED vars /\ Exit
  BY <1>1, <1>6, DiedOK, Zenon
<1>7. CASE ~(UNCHANGED vars /\ Exit)
  <2>1. Next /\ Effect(AgentWallet, {}, won) /\ is_terminal(requests'[r].status)
    BY <1>1, <1>5, <1>7, Zenon
  <2>2. CASE Exit
    BY <1>1, <1>2, <1>4, <2>1, <2>2, ExitOK, Zenon DEF StepOK
  <2>3. CASE ~Exit
    <3>1. Loop /\ UNCHANGED <<shown, heartbeat>>
      BY <1>1, <1>7, <2>3, Zenon
    <3>2. Named' = Named
      BY <3>1, Zenon DEF Named
    <3>3. OnScreen' \subseteq OnScreen
      BY <2>1, <3>2, ScreenShrinks, Zenon DEF ScreenOK
    <3>4. NamedAndLive' = {}
      BY <1>2, <2>1, <3>3, Zenon DEF OnScreen, NamedAndLive
    <3> QED
      BY <1>1, <1>4, <2>1, <3>1, <3>4, LoopOK, Zenon DEF StepOK
  <2> QED
    BY <2>2, <2>3
<1> QED
  BY <1>6, <1>7, Zenon
----------------------------------------------------------------------------
(* The heartbeat thread, faults, and everybody else.                        *)

LEMMA CopyHeartbeatStateOK == ASSUME AgentInv, CopyHeartbeatState PROVE StepOK
<1> USE DEF AgentInv
<1>1. /\ UNCHANGED <<vars, agent, shown, directory, done, approvals>>
      /\ UNCHANGED <<requests, now>>
      /\ heartbeat' = [heartbeat EXCEPT !.stage = "sending",
                          !.lock_state = shown.lock_state, !.ids = shown.ids]
  BY DEF CopyHeartbeatState, vars
<1>2. Effect(AgentWallet, {}, {}) /\ [Next]_vars
  BY <1>1, NoEffect
<1>3. /\ heartbeat' \in [stage : {"off", "asleep", "sending", "orphaned"},
                         lock_state : LockState, ids : SUBSET RequestId, due : Nat]
      /\ heartbeat'.stage = "sending" /\ heartbeat'.ids = shown.ids
  BY <1>1, Zenon DEF AgentTypeOK
<1>4. AgentTypeOK'
  BY <1>1, <1>3, Zenon DEF AgentTypeOK, JobOK, Owned
<1>5. WorkOK'
  BY <1>1 DEF WorkOK, NothingDoneUnasked, At
<1>6. Named' \subseteq Named
  BY <1>1, <1>3, Zenon DEF Named
<1>7. /\ OnScreen' \subseteq OnScreen /\ NamedAndLive' \subseteq NamedAndLive
      /\ Named' \subseteq Owned(AgentWallet)'
  BY <1>2, <1>6, ScreenShrinks, Zenon DEF ScreenOK
<1>8. ScreenOK'
  BY <1>1, <1>3, <1>7 DEF ScreenOK, At
<1> QED
  BY <1>2, <1>4, <1>5, <1>8, Zenon DEF StepOK

\* A late heartbeat can bring back only what it names, which is on screen.
LEMMA SendHeartbeatOK == ASSUME AgentInv, SendHeartbeat PROVE StepOK
<1> USE DEF AgentInv
<1> DEFINE back == {r \in heartbeat.ids \cap DOMAIN requests :
                        requests[r].status = "pending_user_approval"}
<1>1. /\ UNCHANGED <<agent, shown, directory, done, approvals>>
      /\ \/ HeartbeatBackend(AgentWallet, heartbeat.lock_state, heartbeat.ids)
         \/ UNCHANGED vars
      /\ heartbeat' = IF heartbeat.stage = "sending"
                      THEN [Asleep EXCEPT !.due = now + HeartbeatInterval]
                      ELSE [Asleep EXCEPT !.stage = "off"]
  BY Zenon DEF SendHeartbeat
<1>2. back \subseteq NamedAndLive /\ back \subseteq Owned(AgentWallet)
  BY Zenon DEF NamedAndLive, Named, ScreenOK, is_terminal
<1>3. [Next]_vars /\ Effect(AgentWallet, back, {})
  <2>1. CASE HeartbeatBackend(AgentWallet, heartbeat.lock_state, heartbeat.ids)
    <3>1. heartbeat.lock_state \in LockState /\ heartbeat.ids \in SUBSET RequestId
      BY Zenon DEF AgentTypeOK
    <3>2. Next
      BY <2>1, <3>1, ConstantTypes, Zenon DEF Next, BackendNext
    <3> QED
      BY <2>1, <3>2, HeartbeatEffect, Zenon
  <2>2. CASE UNCHANGED vars
    BY <2>2, NoEffect, Zenon DEF vars, Effect
  <2> QED
    BY <1>1, <2>1, <2>2, Zenon
<1> HIDE DEF back
<1>4. /\ heartbeat' \in [stage : {"off", "asleep", "sending", "orphaned"},
                         lock_state : LockState, ids : SUBSET RequestId, due : Nat]
      /\ heartbeat'.ids = {}
  <2>1. now + HeartbeatInterval \in Nat
    BY AgentAssumption DEF TypesAndRows, TypeOK, RegistryTypeOK
  <2> QED
    BY <1>1, <2>1 DEF Asleep, LockState
<1>5. Owned(AgentWallet) \subseteq Owned(AgentWallet)'
  BY <1>3, OldRows, Zenon
<1>6. AgentTypeOK'
  BY <1>1, <1>4, <1>5, Zenon DEF AgentTypeOK, JobOK
<1>7. WorkOK'
  BY <1>1, <1>3, WorkFrame DEF At
<1>8. Named' \subseteq Named
  BY <1>1, <1>4, Zenon DEF Named
<1>9. /\ OnScreen' \subseteq OnScreen /\ NamedAndLive' \subseteq NamedAndLive
      /\ Named' \subseteq Owned(AgentWallet)'
  <2>1. /\ OnScreen' \subseteq OnScreen \cup back
        /\ NamedAndLive' \subseteq NamedAndLive \cup back
        /\ Named' \subseteq Owned(AgentWallet)'
    BY <1>2, <1>3, <1>8, ScreenShrinks, Zenon DEF ScreenOK
  <2>2. NamedAndLive \subseteq OnScreen
    BY Zenon DEF OnScreen
  <2> QED
    BY <1>2, <2>1, <2>2, Zenon
<1>10. ScreenOK'
  BY <1>1, <1>4, <1>9 DEF ScreenOK, At
<1> QED
  BY <1>3, <1>6, <1>7, <1>10, Zenon DEF StepOK

LEMMA AgentKilledOK == ASSUME AgentInv, AgentKilled PROVE StepOK
  BY DiedOK DEF AgentKilled

LEMMA DirectoryChangesOK == ASSUME AgentInv, DirectoryChanges PROVE StepOK
<1>1. UNCHANGED <<vars, agent, shown, heartbeat, done, approvals>>
  BY DEF DirectoryChanges
<1>2. directory' \in [accounts : AccountsFound, file : BOOLEAN, changes : Nat]
  <2>1. PICK a \in Address, state \in AccountState :
          directory' = [directory EXCEPT !.accounts[a] = state, !.changes = @ + 1]
    BY Zenon DEF DirectoryChanges
  <2>2. directory \in [accounts : AccountsFound, file : BOOLEAN, changes : Nat]
    BY Zenon DEF AgentInv, AgentTypeOK
  <2>3. directory' = [accounts |-> [directory.accounts EXCEPT ![a] = state],
                      file |-> directory.file, changes |-> directory.changes + 1]
    BY <2>1, <2>2, Zenon
  <2>4. [directory.accounts EXCEPT ![a] = state] \in AccountsFound
    BY <2>2 DEF AccountsFound
  <2> QED
    BY <2>2, <2>3, <2>4
<1>3. Effect(AgentWallet, {}, {})
  BY <1>1, NoEffect, Zenon DEF vars
<1> QED
  BY <1>1, <1>2, <1>3, AgentFrame, Zenon DEF StepOK

\* Callers, the maintenance timer and the clock never touch the agent.
LEMMA OthersOK == ASSUME AgentInv, CallerStep \/ DaemonStep \/ TimePasses PROVE StepOK
<1> USE DEF AgentInv
<1>1. UNCHANGED agentVars
  BY Zenon DEF CallerStep, DaemonStep, TimePasses
<1>2. Next /\ Effect(AgentWallet, {}, {})
  <2>1. CASE CallerStep
    <3>1. CASE \E call \in CreateCall, ttl \in TtlInput : CreateRequest(call, ttl)
      BY <3>1, CreateEffect, Zenon DEF Next, CallerNext
    <3>2. CASE \E r \in RequestId : CancelRequest(r)
      BY <3>2, CancelEffect, Zenon DEF Next, CallerNext
    <3> QED
      BY <2>1, <3>1, <3>2, Zenon DEF CallerStep
  <2>2. CASE DaemonStep
    BY <2>2, TickEffect, Zenon DEF DaemonStep, Next, DaemonNext
  <2>3. CASE TimePasses
    BY <2>3, ClockEffect, Zenon DEF TimePasses, Next, requestVars
  <2> QED
    BY <2>1, <2>2, <2>3, Zenon
<1>3. directory' \in [accounts : AccountsFound, file : BOOLEAN, changes : Nat]
  BY <1>1, Zenon DEF agentVars, AgentTypeOK
<1> QED
  BY <1>1, <1>2, <1>3, AgentFrame, Zenon DEF StepOK, agentVars
----------------------------------------------------------------------------
(* The invariant, and what follows from it.                                 *)

LEMMA AgentInvStep ==
    AgentInv /\ [AgentNext]_<<vars, agentVars>> => [Next]_vars /\ AgentInv'
<1> SUFFICES ASSUME AgentInv, [AgentNext]_<<vars, agentVars>>
             PROVE  [Next]_vars /\ AgentInv'
  OBVIOUS
<1>1. StepOK
  <2>1. CASE StartAgent
    BY <2>1, StartAgentOK
  <2>2. CASE MainThread
    BY <2>2, RegisterAgentOK, SyncSnapshotOK, UpdateAccountsOK, PullNextRequestOK,
       LoadAccountOK, RequestPresentedOK, OpenPromptOK, FulfillRequestOK, CreateOrImportOK,
       AnswerRequestOK
    DEF MainThread
  <2>3. CASE User
    BY <2>3, PromptFailsOK, PromptApprovedOK DEF User
  <2>4. CASE HeartbeatThread
    BY <2>4, CopyHeartbeatStateOK, SendHeartbeatOK DEF HeartbeatThread
  <2>5. CASE AgentKilled
    BY <2>5, AgentKilledOK
  <2>6. CASE DirectoryChanges
    BY <2>6, DirectoryChangesOK
  <2>7. CASE CallerStep \/ DaemonStep \/ TimePasses
    BY <2>7, OthersOK
  <2>8. CASE UNCHANGED <<vars, agentVars>>
    <3>1. Effect(AgentWallet, {}, {})
      BY <2>8, NoEffect, Zenon DEF vars
    <3>2. directory' \in [accounts : AccountsFound, file : BOOLEAN, changes : Nat]
      BY <2>8, Zenon DEF agentVars, AgentInv, AgentTypeOK
    <3> QED
      BY <2>8, <3>1, <3>2, AgentFrame, Zenon DEF StepOK, agentVars
  <2> QED
    BY <2>1, <2>2, <2>3, <2>4, <2>5, <2>6, <2>7, <2>8 DEF AgentNext
<1>2. TypesAndRows'
  BY <1>1, TypesAndRowsStep, Zenon DEF StepOK, AgentInv
<1> QED
  BY <1>1, <1>2, Zenon DEF StepOK, AgentInv

\* The agent is a backend the coordinator was specified for: beside it, whatever
\* it does and however it dies, the daemon's tables change only as the
\* coordinator's specification says, so the theorems about the coordinator hold
\* with this agent attached.
THEOREM AgentIsCoordinated == AgentSpec => Spec
<1>1. AgentInit => Init
  BY DEF AgentInit
<1> QED
  BY <1>1, AgentInvInit, AgentInvStep, PTL DEF AgentSpec, Spec

\* Nothing is done unasked: fulfil_request runs at most once per approval at the
\* terminal, and a request the daemon holds for approved was approved there and
\* worked on, with any calls lost, processes killed and presentations resumed.
THEOREM WorkCorrect == AgentSpec => []NothingDoneUnasked
<1>1. AgentInv => NothingDoneUnasked
  BY Zenon DEF AgentInv, WorkOK
<1> QED
  BY <1>1, AgentInvInit, AgentInvStep, PTL DEF AgentSpec

\* One prompt per wallet: at most one request of the agent's wallet has a live
\* presentation, although the heartbeat thread renews presentations from a copy
\* of the shared state and outlives its process with the last one.
THEOREM ScreenCorrect == AgentSpec => []OneLivePresentation
<1>1. AgentInv => OneLivePresentation
  BY Zenon DEF AgentInv, ScreenOK, OnScreen, OneLivePresentation
<1> QED
  BY <1>1, AgentInvInit, AgentInvStep, PTL DEF AgentSpec
============================================================================
