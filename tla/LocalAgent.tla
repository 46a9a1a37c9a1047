---------------------------- MODULE LocalAgent ----------------------------
(***************************************************************************)
(* The local account agent beside the coordinator it talks to.  The agent  *)
(* is a process with two threads: the main loop publishes the account      *)
(* directory, pulls a request, shows it at the terminal, does the work and *)
(* answers; the heartbeat thread names what is on screen.  They share the  *)
(* heartbeat state, which the second copies under a lock and sends after   *)
(* the lock is gone.  Every call to the daemon is one step; its answer may *)
(* be lost, with or without the daemon having run it, and an error of any  *)
(* call but the pull and the heartbeat ends the process, which whoever     *)
(* started it may start again.                                             *)
(***************************************************************************)
EXTENDS Coordinator

CONSTANTS
    AgentWallet,             \* the wallet this agent registers
    InvalidPayload,          \* payloads that do not decode or do not match
    ForcePayload,            \* export requests that may overwrite the file
    AllowReadOnlyAccounts,   \* allow_read_only_accounts
    HeartbeatInterval,
    MaxApprovals,            \* bound: how often a user says yes to a request
    MaxChanges,              \* bound: how often other programs change accounts
    Lossy,                   \* calls and answers get lost, processes are killed
    Punctual                 \* threads and daemon act within a clock unit

ASSUME AgentAssumption ==
    /\ AgentWallet \in WalletId
    /\ PresentationId = 1 .. MaxLeases /\ NoPresentation = 0
    /\ HeartbeatInterval \in Nat \ {0}
    /\ Lossy \in BOOLEAN /\ Punctual \in BOOLEAN /\ AllowReadOnlyAccounts \in BOOLEAN

VARIABLES
    agent,      \* the main thread
    shown,      \* HeartbeatState, shared by the threads
    heartbeat,  \* the heartbeat thread
    directory,  \* the account directory the agent manages
    done,       \* history: how often the work of a request was done
    approvals   \* history: how often the user approved it

agentVars == <<agent, shown, heartbeat, directory, done, approvals>>

AccountState == {"absent", "read_only", "locked", "unlocked"}

Signing(a, accounts_found) == accounts_found[a] \in {"locked", "unlocked"}

\* The accounts listed to the daemon.
Listed(accounts_found) ==
    [a \in Address |-> IF accounts_found[a] = "read_only" /\ ~AllowReadOnlyAccounts
                       THEN "absent" ELSE accounts_found[a]]

\* What the agent makes of the listed accounts; the account manager knows the
\* public key of each.
SnapshotOf(listed) ==
    LET signable == {a \in Address : Signing(a, listed)}
    IN  [backend_kind |-> "local_account_dir",
         capabilities |->
            IF signable # {} THEN WalletCapability
            ELSE {"create_account", "import_account"} \cup
                 (IF \E a \in Address : listed[a] # "absent"
                  THEN {"get_public_key"} ELSE {}),
         lock_state |->
            IF signable = {} THEN "unknown"
            ELSE IF \E a \in signable : listed[a] = "unlocked" THEN "unlocked"
            ELSE "locked",
         accounts |-> [a \in Address |-> IF Signing(a, listed) THEN "signing"
                                         ELSE listed[a]]]

\* The reasons the agent gives when it rejects a request.
AgentReason == {"request_rejected", "wallet_locked", "unsupported_operation",
                "invalid_transaction_payload", "invalid_message_payload",
                "backend_unavailable", "backend_policy_blocked"}

\* The agent is one of the backends the coordinator is made for.
ASSUME AgentIsABackend ==
    /\ LocalSnapshots \subseteq SnapshotInput
    /\ AgentReason \subseteq ReasonInput

Quiet == [request |-> 0, presentation_id |-> NoPresentation, lease |-> 0,
          locked |-> FALSE, password |-> "none", reason |-> "none"]

NothingListed == [a \in Address |-> "absent"]

Down == [stage |-> "down", published |-> NothingListed, next |-> NothingListed,
         job |-> Quiet]

Asleep == [stage |-> "asleep", lock_state |-> "unknown", ids |-> {}, due |-> 0]

AgentInit ==
    /\ Init
    /\ agent = Down
    /\ shown = [lock_state |-> "unknown", ids |-> {}]
    /\ heartbeat = [Asleep EXCEPT !.stage = "off"]
    /\ directory \in [accounts : {[a \in Address |-> "locked"]}, file : BOOLEAN,
                      changes : {0}]
    /\ done = [r \in RequestId |-> 0]
    /\ approvals = [r \in RequestId |-> 0]

At(stage) == agent.stage = stage
Row == requests[agent.job.request]
Capabilities == SnapshotOf(agent.published).capabilities

\* The process ends, its threads with it; a heartbeat already sent is not
\* taken back.
Exit ==
    /\ agent' = Down
    /\ shown' = [lock_state |-> "unknown", ids |-> {}]
    /\ heartbeat' = IF heartbeat.stage = "sending"
                    THEN [heartbeat EXCEPT !.stage = "orphaned"]
                    ELSE [Asleep EXCEPT !.stage = "off"]

\* A call of the main thread whose error ends the process: served and heard,
\* served and not heard, or not served, because it got lost or was refused.
Ask(Command, Heard) ==
    \/ Command /\ Heard
    \/ Lossy /\ Command /\ Exit
    \/ (Lossy \/ ~ENABLED Command) /\ UNCHANGED vars /\ Exit
---------------------------------------------------------------------------
(* Start, registration and the account snapshot.                           *)

\* A fresh process reads the accounts.
StartAgent ==
    /\ At("down")
    /\ heartbeat.stage = "off"
    /\ agent' = [agent EXCEPT !.stage = "registering", !.next = Listed(directory.accounts)]
    /\ shown' = [shown EXCEPT !.lock_state =
                    SnapshotOf(Listed(directory.accounts)).lock_state]
    /\ UNCHANGED <<vars, heartbeat, directory, done, approvals>>

Published(stage) == [agent EXCEPT !.stage = stage, !.published = agent.next,
                                  !.next = NothingListed]

RegisterAgent ==
    /\ At("registering")
    /\ Ask(/\ RegisterBackend(AgentWallet, SnapshotOf(agent.next))
           /\ UNCHANGED <<now, requestVars>>,
           /\ agent' = Published("idle")
           /\ heartbeat' = [Asleep EXCEPT !.due = now + HeartbeatInterval]
           /\ UNCHANGED shown)
    /\ UNCHANGED <<directory, done, approvals>>

\* Mutant: only registration sets it.
set_lock_state_Never(lock_state) == UNCHANGED shown

set_lock_state(lock_state) == shown' = [shown EXCEPT !.lock_state = lock_state]

\* The top of the loop reads the accounts again; an unchanged list is not sent.
SyncSnapshot ==
    /\ At("idle")
    /\ LET next == Listed(directory.accounts)
       IN  /\ set_lock_state(SnapshotOf(next).lock_state)
           /\ agent' = IF next = agent.published
                       THEN [agent EXCEPT !.stage = "pulling"]
                       ELSE [agent EXCEPT !.stage = "updating", !.next = next]
    /\ UNCHANGED <<vars, heartbeat, directory, done, approvals>>

UpdateAccounts ==
    /\ At("updating")
    /\ Ask(/\ UpdateBackendAccounts(AgentWallet, SnapshotOf(agent.next))
           /\ UNCHANGED <<now, requestVars>>,
           agent' = Published("pulling") /\ UNCHANGED <<shown, heartbeat>>)
    /\ UNCHANGED <<directory, done, approvals>>
---------------------------------------------------------------------------
(* One request.                                                            *)

Delivered(r, presentation_id, lease) ==
    [agent EXCEPT !.stage = "handling",
                  !.job = [Quiet EXCEPT !.request = r, !.lease = lease,
                                        !.presentation_id = presentation_id]]

\* Nothing to do, or an error: the loop sleeps and starts over.
Loop == agent' = [agent EXCEPT !.stage = "idle", !.job = Quiet]

PullNextRequest ==
    /\ At("pulling")
    /\ \/ \E r \in RequestId :
             /\ ResumeRequest(AgentWallet, r)
             /\ \/ agent' = Delivered(r, requests[r].presentation.id, 0)
                \/ Lossy /\ Loop
       \/ \E r \in RequestId :
             /\ ClaimRequest(AgentWallet, r)
             /\ \/ agent' = Delivered(r, NoPresentation, next_lease_id)
                \/ Lossy /\ Loop
       \/ /\ Lossy \/ (Resumable(AgentWallet) \cup Claimable(AgentWallet) = {})
          /\ UNCHANGED vars /\ Loop
    /\ UNCHANGED <<shown, heartbeat, directory, done, approvals>>

\* load_signing_account_info: the reason it refuses, or none.
load_signing_account_info(address) ==
    CASE directory.accounts[address] = "absent"    -> "backend_unavailable"
      [] directory.accounts[address] = "read_only" -> "unsupported_operation"
      [] OTHER                                     -> "none"

\* A request for an account that is gone, or cannot sign, is rejected without
\* being shown; a fresh one carries no presentation id then.
LoadAccount ==
    /\ At("handling")
    /\ LET reason == IF Row.kind \in MutationKind THEN "none"
                     ELSE load_signing_account_info(Row.account_address)
       IN  agent' =
             IF reason # "none"
             THEN [agent EXCEPT !.stage = "answering", !.job.reason = reason]
             ELSE [agent EXCEPT !.stage = "presenting",
                     !.job.locked = /\ Row.kind \notin MutationKind
                                    /\ directory.accounts[Row.account_address] = "locked",
                     !.job.presentation_id = IF @ = NoPresentation
                                             THEN agent.job.lease ELSE @]
    /\ UNCHANGED <<vars, shown, heartbeat, directory, done, approvals>>

\* Mutant: the heartbeat thread is not told.
push_presented_request_Forgotten(r) == UNCHANGED shown

push_presented_request(r) == shown' = [shown EXCEPT !.ids = @ \cup {r}]

pop_presented_request(r) == shown' = [shown EXCEPT !.ids = @ \ {r}]

\* request.presented is sent before anything is drawn.
RequestPresented ==
    /\ At("presenting")
    /\ Ask(MarkRequestPresented(AgentWallet, agent.job.request,
                                agent.job.presentation_id, agent.job.lease),
           /\ agent' = [agent EXCEPT !.stage = "opening"]
           /\ push_presented_request(agent.job.request)
           /\ UNCHANGED heartbeat)
    /\ UNCHANGED <<directory, done, approvals>>

ensure_local_unlock_capability(locked) == locked => "unlock" \in Capabilities

\* Why the prompt refuses before it draws anything, or none.
PromptRefusal ==
    CASE Row.kind \in {"create_account", "import_account", "export_account"}
         /\ Row.kind \notin Capabilities                     -> "unsupported_operation"
      [] ~ensure_local_unlock_capability(agent.job.locked)   -> "wallet_locked"
      [] OTHER                                               -> "none"

\* The prompt has ended with a reason to reject, or with the work to be done.
Decided(stage, reason, password) ==
    /\ agent' = [agent EXCEPT !.stage = stage, !.job.reason = reason,
                              !.job.password = password]
    /\ IF stage = "answering" THEN pop_presented_request(agent.job.request)
       ELSE UNCHANGED shown

\* Mutant: a resumed presentation counts as approved already.
OpenPrompt_TrustsResumed ==
    /\ At("opening")
    /\ IF agent.job.lease = 0
       THEN Decided("fulfilling", "none", "new")
       ELSE agent' = [agent EXCEPT !.stage = "prompting"] /\ UNCHANGED shown
    /\ UNCHANGED <<vars, heartbeat, directory, done, approvals>>

OpenPrompt ==
    /\ At("opening")
    /\ IF PromptRefusal = "none"
       THEN agent' = [agent EXCEPT !.stage = "prompting"] /\ UNCHANGED shown
       ELSE Decided("answering", PromptRefusal, "none")
    /\ UNCHANGED <<vars, heartbeat, directory, done, approvals>>

\* The user says no, or the terminal fails.
PromptFails ==
    /\ At("prompting")
    /\ \E reason \in {"request_rejected", "backend_unavailable"} :
          Decided("answering", reason, "none")
    /\ UNCHANGED <<vars, heartbeat, directory, done, approvals>>

NeedsPassword == agent.job.locked \/ Row.kind = "export_account"

\* The user says yes ...
SaysYes ==
    /\ At("prompting")
    /\ approvals[agent.job.request] < MaxApprovals
    /\ approvals' = [approvals EXCEPT ![agent.job.request] = @ + 1]
    /\ UNCHANGED <<vars, heartbeat, directory, done>>

\* ... and, where one is needed, types the account's password, or nothing.
PromptApproved ==
    /\ SaysYes
    /\ Row.kind \notin MutationKind
    /\ IF NeedsPassword
       THEN \/ \E password \in {"right", "wrong"} : Decided("fulfilling", "none", password)
            \/ Decided("answering", "wallet_locked", "none")
       ELSE Decided("fulfilling", "none", "none")

\* ... or a password for the account to be, twice, or nothing.
prompt_for_new_account_password ==
    \/ Decided("fulfilling", "none", "new")
    \/ Decided("answering", "backend_policy_blocked", "none")

NewAccountApproved ==
    /\ SaysYes
    /\ Row.kind \in MutationKind
    /\ prompt_for_new_account_password

Answer(reason) ==
    /\ agent' = [agent EXCEPT !.stage = "answering", !.job.reason = reason,
                              !.job.password = "none"]
    /\ pop_presented_request(agent.job.request)

WorkDone(yes) == done' = [done EXCEPT ![agent.job.request] = IF yes THEN @ + 1 ELSE @]

RequestPayload == Row.payload_hash[2]

\* Each of the following gives the reasons the work may be refused for; none:
\* it is done.
sign_transaction ==
    IF RequestPayload \in InvalidPayload THEN {"invalid_transaction_payload"}
    ELSE {"none", "backend_unavailable"}

sign_message ==
    IF RequestPayload \in InvalidPayload THEN {"invalid_message_payload"}
    ELSE {"none", "backend_unavailable"}

\* A file already there stops an export that does not ask to overwrite it; a
\* file that appears while the new one is being written does, too.
write_private_key_file ==
    IF directory.file /\ RequestPayload \notin ForcePayload
    THEN {"backend_policy_blocked"}
    ELSE {"none", "backend_unavailable"}

export_account ==
    IF agent.job.password # "right" THEN {"wallet_locked"} ELSE write_private_key_file

\* fulfill_request looks at the account again: it may have been locked since.
UnlockRefused(address) ==
    /\ directory.accounts[address] = "locked"
    /\ agent.job.password # "right" \/ ~ensure_local_unlock_capability(TRUE)

\* What the user approved is carried out on the account as it is now: unlock,
\* then sign or export.
FulfillRequest ==
    /\ At("fulfilling") /\ Row.kind \notin MutationKind
    /\ LET address == Row.account_address
           reason == load_signing_account_info(address)
       IN  IF reason # "none" \/ UnlockRefused(address)
           THEN /\ Answer(IF reason # "none" THEN reason ELSE "wallet_locked")
                /\ UNCHANGED <<directory, done>>
           ELSE \E outcome \in CASE Row.kind = "sign_transaction" -> sign_transaction
                                 [] Row.kind = "sign_message"     -> sign_message
                                 [] Row.kind = "export_account"   -> export_account :
                   /\ directory' = [directory EXCEPT
                         !.accounts[address] = "unlocked",
                         !.file = @ \/ (Row.kind = "export_account" /\ outcome = "none")]
                   /\ Answer(outcome)
                   /\ WorkDone(outcome = "none")
    /\ UNCHANGED <<vars, heartbeat, approvals>>

\* Whether there is a new account, and the reason to reject the request: the
\* account may be there and the agent fail to read it back.
create_account ==
    {[made |-> FALSE, reason |-> "backend_unavailable"],
     [made |-> TRUE, reason |-> "backend_unavailable"],
     [made |-> TRUE, reason |-> "none"]}

\* The key file may be unreadable, not a key, or the key of another address.
import_account ==
    IF RequestPayload \in InvalidPayload
    THEN {[made |-> FALSE, reason |-> "backend_policy_blocked"],
          [made |-> FALSE, reason |-> "backend_unavailable"]}
    ELSE create_account

\* The new account may be outside the modelled addresses.
CreateOrImport ==
    /\ At("fulfilling") /\ Row.kind \in MutationKind
    /\ \E outcome \in IF Row.kind = "create_account" THEN create_account ELSE import_account :
          /\ \/ UNCHANGED directory
             \/ /\ outcome.made
                /\ \E a \in {b \in Address : directory.accounts[b] = "absent"} :
                      directory' = [directory EXCEPT !.accounts[a] = "locked"]
          /\ Answer(outcome.reason)
          /\ WorkDone(outcome.made)
    /\ UNCHANGED <<vars, heartbeat, approvals>>

\* The answer, with the request already off the list of what is shown.
AnswerRequest ==
    /\ At("answering")
    /\ LET job == agent.job
       IN  Ask(IF job.reason = "none"
               THEN ResolveRequest(AgentWallet, job.request, job.presentation_id,
                                   expected_result_kind(Row.kind))
               ELSE RejectRequest(AgentWallet, job.request, job.presentation_id, job.reason),
               Loop /\ UNCHANGED <<shown, heartbeat>>)
    /\ UNCHANGED <<directory, done, approvals>>
---------------------------------------------------------------------------
(* The heartbeat thread, faults, and the world outside.                    *)

\* The shared state is copied under its lock ...
CopyHeartbeatState ==
    /\ heartbeat.stage = "asleep"
    /\ now >= heartbeat.due \/ now = MaxTime
    /\ heartbeat' = [heartbeat EXCEPT !.stage = "sending",
                        !.lock_state = shown.lock_state, !.ids = shown.ids]
    /\ UNCHANGED <<vars, agent, shown, directory, done, approvals>>

\* ... and sent without it; an error is only logged.
SendHeartbeat ==
    /\ heartbeat.stage \in {"sending", "orphaned"}
    /\ \/ HeartbeatBackend(AgentWallet, heartbeat.lock_state, heartbeat.ids)
       \/ Lossy /\ UNCHANGED vars
    /\ heartbeat' = IF heartbeat.stage = "sending"
                    THEN [Asleep EXCEPT !.due = now + HeartbeatInterval]
                    ELSE [Asleep EXCEPT !.stage = "off"]
    /\ UNCHANGED <<agent, shown, directory, done, approvals>>

AgentKilled ==
    /\ Lossy /\ ~At("down")
    /\ Exit
    /\ UNCHANGED <<vars, directory, done, approvals>>

\* The unlock cache runs out, or another program unlocks, removes or replaces
\* an account.
DirectoryChanges ==
    /\ directory.changes < MaxChanges
    /\ \E a \in Address : \E state \in AccountState \ {directory.accounts[a]} :
          directory' = [directory EXCEPT !.accounts[a] = state, !.changes = @ + 1]
    /\ UNCHANGED <<vars, agent, shown, heartbeat, done, approvals>>

\* With Punctual the heartbeat is never late and nothing of the agent's but
\* the prompt and the sleep takes a clock unit.
TimePasses ==
    /\ Punctual => /\ heartbeat.stage = "asleep" => now < heartbeat.due
                   /\ heartbeat.stage \notin {"sending", "orphaned"}
                   /\ agent.stage \in {"down", "idle", "prompting"}
    /\ AdvanceClock
    /\ UNCHANGED <<registryVars, requestVars, agentVars>>

CallerStep ==
    /\ \/ \E call \in CreateCall, ttl \in TtlInput : CreateRequest(call, ttl)
       \/ \E r \in RequestId : CancelRequest(r)
    /\ UNCHANGED agentVars

DaemonStep == TickMaintenance /\ UNCHANGED agentVars

MainThread ==
    \/ RegisterAgent \/ SyncSnapshot \/ UpdateAccounts \/ PullNextRequest
    \/ LoadAccount \/ RequestPresented \/ OpenPrompt
    \/ FulfillRequest \/ CreateOrImport \/ AnswerRequest

User == PromptFails \/ PromptApproved \/ NewAccountApproved

HeartbeatThread == CopyHeartbeatState \/ SendHeartbeat

AgentNext ==
    \/ StartAgent \/ MainThread \/ User \/ HeartbeatThread
    \/ AgentKilled \/ DirectoryChanges
    \/ CallerStep \/ DaemonStep \/ TimePasses

AgentSpec == AgentInit /\ [][AgentNext]_<<vars, agentVars>>

\* Both threads run, the user answers in the end, the daemon's timer fires and
\* time goes by; a process that has ended is started again.
FairAgentSpec ==
    /\ AgentSpec
    /\ WF_<<vars, agentVars>>(StartAgent)
    /\ WF_<<vars, agentVars>>(MainThread)
    /\ WF_<<vars, agentVars>>(User)
    /\ WF_<<vars, agentVars>>(HeartbeatThread)
    /\ WF_<<vars, agentVars>>(DaemonStep)
    /\ WF_<<vars, agentVars>>(TimePasses)
---------------------------------------------------------------------------
(* Properties.                                                             *)

\* A prompt on screen is worth answering: as long as the heartbeats are on time
\* and shorter than the presentation lease, the request it shows is still
\* pending under the same presentation, or the caller or its TTL has ended it.
\* A heartbeat copied before the request was pushed, the maintenance timer and
\* a new snapshot come in between.
PromptStaysCurrent ==
    At("prompting") =>
        \/ is_terminal(Row.status)
        \/ /\ Row.status = "pending_user_approval"
           /\ Row.presentation.id = agent.job.presentation_id
           /\ Row.presentation.expires_at > now

InHand(r) == agent.job.request = r /\ At("answering")

\* With punctual threads and no lost calls the work of a request is done at most
\* once, and once done it was delivered, unless the caller's cancellation or
\* the TTL came first, or the new account could not be read back.
WorkedOnce ==
    \A r \in RequestId :
        /\ done[r] <= 1
        /\ done[r] = 1 =>
              \/ InHand(r)
              \/ requests[r].status \in {"approved", "cancelled", "expired"}
              \/ /\ requests[r].status = "failed"
                 /\ requests[r].kind \in MutationKind

\* Nothing is done unasked: each piece of work has its own approval, and a
\* request the daemon holds for approved was approved and worked, however many
\* calls got lost, processes died and presentations were resumed.
NothingDoneUnasked ==
    \A r \in RequestId :
        /\ done[r] <= approvals[r]
        /\ r \in DOMAIN requests /\ requests[r].status = "approved" => done[r] >= 1

\* One prompt per wallet: of all requests of the agent's wallet at most one has
\* a presentation that is still live (a pull resumes before it claims), across
\* restarts of the agent and the heartbeats a dead agent left behind.
OneLivePresentation ==
    \A r, s \in Resumable(AgentWallet) : r = s

\* The daemon's view of the wallet's lock converges: when nothing changes the
\* accounts any more, heartbeats and snapshots agree for good with the
\* directory, although a heartbeat may overtake the snapshot it was older than.
LockStateCatchesUp ==
    <>[](At("down") \/ instances[AgentWallet].lock_state =
                          SnapshotOf(Listed(directory.accounts)).lock_state)

\* Documented: "a backend must still pull on startup, reconnect, and after
\* finishing work".  An answer the daemon refuses, because the request was
\* cancelled or has expired on screen, ends the process instead.
PullsAfterWork == [][At("answering") => agent'.stage # "down"]_agent

\* Documented: request.presented is to "confirm that the local approval surface
\* is actually open and usable".  The agent sends it first and opens the
\* prompt, or refuses to, afterwards.
PresentedIsOpen == [][At("opening") => agent'.stage # "answering"]_agent
===========================================================================
