---------------------------- MODULE NativeHost ----------------------------
(***************************************************************************)
(* The native messaging host between a browser extension and the daemon.   *)
(* Its main thread reads a message, makes the daemon call it stands for,   *)
(* notes the outcome in the notification state and writes the answer.  Its *)
(* polling thread asks the daemon whether there is work and what became of *)
(* the requests on screen, and sends the extension hints.  The threads     *)
(* share the notification state under a lock that neither holds during a   *)
(* call to the daemon.  The extension is external: it pulls on connect, on *)
(* a hint and after finishing a request, as the messaging contract asks.   *)
(* Time stands still here: what expiry and lapsing leases do is the        *)
(* coordinator's own model.                                                *)
(***************************************************************************)
EXTENDS Coordinator

CONSTANTS HostWallet,      \* the extension's wallet_instance_id
          MaxConnections   \* bound: how often the extension connects

ASSUME HostAssumption ==
    /\ HostWallet \in WalletId
    /\ PresentationId = 1 .. MaxLeases /\ NoPresentation = 0
    /\ MaxConnections \in Nat
    /\ "available" \notin RequestId   \* a hint of work is not one of a request

VARIABLES
    extension,  \* what the extension is doing
    main,       \* the main thread: the message in hand and its answer
    state,      \* NotificationState
    poller,     \* the polling thread
    hints       \* notifications written and not yet read

hostVars == <<extension, main, state, poller, hints>>

NoShow == [request |-> 0, presentation_id |-> NoPresentation, lease |-> 0]
Reading == [stage |-> "reading", message |-> "none", answer |-> "none", show |-> NoShow]
NewState == [tracked |-> FALSE, last_available_notified |-> FALSE, active_requests |-> {}]
Sleeping == [stage |-> "asleep", available |-> FALSE, todo |-> {}, status |-> "none",
             request |-> 0]

\* A browser extension with one unlocked account per address.
ExtensionSnapshot ==
    [backend_kind |-> "starmask_extension", capabilities |-> ExtensionCapabilities,
     lock_state |-> "unlocked", accounts |-> [a \in Address |-> "signing"]]

\* The extension is one of the backends the daemon was specified for.
ASSUME HostIsABackend ==
    /\ ExtensionSnapshot \in SnapshotInput
    /\ "request_rejected" \in ReasonInput

HostInit ==
    /\ Init
    /\ extension = [stage |-> "offline", wants |-> FALSE, show |-> NoShow, connections |-> 0]
    /\ main = Reading
    /\ state = NewState
    /\ poller = Sleeping
    /\ hints = {}
---------------------------------------------------------------------------
(* The extension.                                                          *)

\* A message to the host; the extension waits for the answer to each.
Send(message, show) ==
    /\ main = Reading
    /\ main' = [Reading EXCEPT !.message = message, !.show = show]
    /\ extension' = [extension EXCEPT !.stage = "waiting", !.wants = FALSE, !.show = show]

\* The browser starts a host process and the extension registers.
Connect ==
    /\ extension.stage = "offline"
    /\ extension.connections < MaxConnections
    /\ main' = [Reading EXCEPT !.message = "register"]
    /\ extension' = [extension EXCEPT !.stage = "waiting", !.connections = @ + 1]
    /\ UNCHANGED <<vars, state, poller, hints>>

Pull ==
    /\ extension.stage = "idle" /\ extension.wants
    /\ Send("pull", NoShow)
    /\ UNCHANGED <<vars, state, poller, hints>>

Heartbeat ==
    /\ extension.stage \in {"idle", "showing"}
    /\ main = Reading
    /\ main' = [Reading EXCEPT !.message = "heartbeat", !.show = extension.show]
    /\ UNCHANGED <<vars, extension, state, poller, hints>>

\* The user decides.
Answer ==
    /\ extension.stage = "showing"
    /\ \E message \in {"resolve", "reject"} : Send(message, extension.show)
    /\ UNCHANGED <<vars, state, poller, hints>>

\* A hint of work is followed when there is nothing else to do; a cancelled
\* request is taken off the screen.
ReadHint ==
    /\ extension.stage \in {"idle", "showing"} /\ main = Reading
    /\ \E hint \in hints :
          /\ hints' = hints \ {hint}
          /\ extension' =
               IF hint = "available"
               THEN [extension EXCEPT !.wants = (@ \/ extension.stage = "idle")]
               ELSE IF extension.stage = "showing" /\ extension.show.request = hint
               THEN [extension EXCEPT !.stage = "idle", !.wants = TRUE, !.show = NoShow]
               ELSE extension
    /\ UNCHANGED <<vars, main, state, poller>>

\* The browser closes the pipe and the host process ends.
Disconnect ==
    /\ extension.stage # "offline"
    /\ extension.connections < MaxConnections
    /\ extension' = [extension EXCEPT !.stage = "offline", !.wants = FALSE, !.show = NoShow]
    /\ main' = Reading /\ state' = NewState /\ poller' = Sleeping /\ hints' = {}
    /\ UNCHANGED vars
---------------------------------------------------------------------------
(* The main thread.                                                        *)

Served(answer) == main' = [main EXCEPT !.stage = "observing", !.answer = answer]

Shown(r, presentation_id, lease) ==
    [request |-> r, presentation_id |-> presentation_id, lease |-> lease]

\* A call the daemon takes is acknowledged, one it refuses is an error.
Forward(Command) ==
    \/ Command /\ Served("ack")
    \/ ~ENABLED Command /\ UNCHANGED vars /\ Served("error")

ServePull ==
    \/ \E r \in RequestId :
          /\ ResumeRequest(HostWallet, r)
          /\ main' = [main EXCEPT !.stage = "observing", !.answer = "resume",
                                  !.show = Shown(r, requests[r].presentation.id, 0)]
    \/ \E r \in RequestId :
          /\ ClaimRequest(HostWallet, r)
          /\ main' = [main EXCEPT !.stage = "observing", !.answer = "next",
                                  !.show = Shown(r, next_lease_id, next_lease_id)]
    \/ /\ Resumable(HostWallet) \cup Claimable(HostWallet) = {}
       /\ UNCHANGED vars /\ Served("none")

\* handle_request: the daemon call a message stands for.
handle_request ==
    /\ main.stage = "reading" /\ main.message # "none"
    /\ LET show == main.show
       IN  CASE main.message = "register" ->
                  Forward(/\ RegisterBackend(HostWallet, ExtensionSnapshot)
                          /\ UNCHANGED <<now, requestVars>>)
             [] main.message = "heartbeat" ->
                  Forward(HeartbeatBackend(HostWallet, "keep", {show.request} \ {0}))
             [] main.message = "pull" -> ServePull
             [] main.message = "presented" ->
                  Forward(MarkRequestPresented(HostWallet, show.request,
                                               show.presentation_id, show.lease))
             [] main.message = "resolve" ->
                  Forward(ResolveRequest(HostWallet, show.request, show.presentation_id,
                                         expected_result_kind(requests[show.request].kind)))
             [] main.message = "reject" ->
                  Forward(RejectRequest(HostWallet, show.request, show.presentation_id,
                                        "request_rejected"))
    /\ UNCHANGED <<extension, state, poller, hints>>

\* Mutants: presented requests are not tracked; resumed ones are not.
observe_ResumedOnly(message, answer, r) ==
    [tracked |-> TRUE,
     last_available_notified |-> message # "pull" /\ state.last_available_notified,
     active_requests |-> IF answer = "resume" THEN state.active_requests \cup {r}
                         ELSE state.active_requests]

observe_PresentedOnly(message, answer, r) ==
    [tracked |-> TRUE,
     last_available_notified |-> message # "pull" /\ state.last_available_notified,
     active_requests |->
        IF message = "presented" /\ answer = "ack" THEN state.active_requests \cup {r}
        ELSE IF message \in {"resolve", "reject"} /\ answer = "ack"
        THEN state.active_requests \ {r} ELSE state.active_requests]

\* What a message and its answer do to the notification state.
observe(message, answer, r) ==
    [tracked |-> \/ state.tracked
                 \/ message \in {"heartbeat", "pull"}
                 \/ message = "register" /\ answer = "ack",
     last_available_notified |-> message # "pull" /\ state.last_available_notified,
     active_requests |->
        IF answer = "resume" \/ (message = "presented" /\ answer = "ack")
        THEN state.active_requests \cup {r}
        ELSE IF message \in {"resolve", "reject"} /\ answer = "ack"
        THEN state.active_requests \ {r}
        ELSE state.active_requests]

Observe ==
    /\ main.stage = "observing"
    /\ state' = observe(main.message, main.answer, main.show.request)
    /\ main' = [main EXCEPT !.stage = "replying"]
    /\ UNCHANGED <<vars, extension, poller, hints>>

\* The answer is written, and the extension acts on it: it presents what it
\* claimed, shows what it presented or resumed, and pulls once it is idle.
Reply ==
    /\ main.stage = "replying"
    /\ LET message == main.message
           Idle(wants) == [extension EXCEPT !.stage = "idle", !.wants = wants, !.show = NoShow]
           Showing == [extension EXCEPT !.stage = "showing", !.show = main.show]
       IN  IF main.answer = "next"
           THEN /\ main' = [Reading EXCEPT !.message = "presented", !.show = main.show]
                /\ UNCHANGED extension
           ELSE /\ main' = Reading
                /\ extension' =
                     CASE message = "heartbeat"                        -> extension
                       [] message = "pull" /\ main.answer = "resume"   -> Showing
                       [] message = "pull" /\ main.answer = "none"     -> Idle(FALSE)
                       [] message = "presented" /\ main.answer = "ack" -> Showing
                       [] OTHER                                        -> Idle(TRUE)
    /\ UNCHANGED <<vars, state, poller, hints>>
---------------------------------------------------------------------------
(* The polling thread.                                                     *)

PollerAt(stage) == poller.stage = stage /\ extension.stage # "offline"

\* poll_available: the tracked wallets are copied under the lock ...
CopyWallets ==
    /\ PollerAt("asleep")
    /\ poller' = [Sleeping EXCEPT !.stage = IF state.tracked THEN "ask" ELSE "copy"]
    /\ UNCHANGED <<vars, extension, main, state, hints>>

\* ... the daemon is asked without it ...
AskAvailable ==
    /\ PollerAt("ask")
    /\ poller' = [Sleeping EXCEPT !.stage = "apply",
                                  !.available = request_has_available(HostWallet)]
    /\ UNCHANGED <<vars, extension, main, state, hints>>

\* ... and its answer, which may be out of date, is applied under it.
ApplyAvailable ==
    /\ PollerAt("apply")
    /\ LET announce == poller.available /\ ~state.last_available_notified
       IN  /\ hints' = IF announce THEN hints \cup {"available"} ELSE hints
           /\ state' = [state EXCEPT !.last_available_notified =
                                        announce \/ (@ /\ poller.available)]
    /\ poller' = [Sleeping EXCEPT !.stage = "copy"]
    /\ UNCHANGED <<vars, extension, main>>

\* poll_active_requests does the same for each request on screen.
CopyActive ==
    /\ PollerAt("copy")
    /\ poller' = [Sleeping EXCEPT !.todo = state.active_requests,
                     !.stage = IF state.active_requests = {} THEN "asleep" ELSE "status"]
    /\ UNCHANGED <<vars, extension, main, state, hints>>

AskStatus ==
    /\ PollerAt("status")
    /\ \E r \in poller.todo :
          poller' = [poller EXCEPT !.stage = "settle", !.request = r,
                                   !.status = requests[r].status]
    /\ UNCHANGED <<vars, extension, main, state, hints>>

ApplyStatus ==
    /\ PollerAt("settle")
    /\ LET r == poller.request
           todo == poller.todo \ {r}
       IN  /\ hints' = IF poller.status = "cancelled" THEN hints \cup {r} ELSE hints
           /\ state' = IF is_terminal(poller.status)
                       THEN [state EXCEPT !.active_requests = @ \ {r}] ELSE state
           /\ poller' = [Sleeping EXCEPT !.todo = todo,
                            !.stage = IF todo = {} THEN "asleep" ELSE "status"]
    /\ UNCHANGED <<vars, extension, main>>

\* A call of the poller fails: it is skipped until the next round.
PollFails ==
    /\ \/ /\ PollerAt("ask")
          /\ poller' = [Sleeping EXCEPT !.stage = "copy"]
       \/ /\ PollerAt("status")
          /\ \E r \in poller.todo :
                poller' = [Sleeping EXCEPT !.todo = poller.todo \ {r},
                              !.stage = IF poller.todo = {r} THEN "asleep" ELSE "status"]
    /\ UNCHANGED <<vars, extension, main, state, hints>>
---------------------------------------------------------------------------
CallerStep ==
    /\ \/ \E call \in CreateCall, ttl \in TtlInput : CreateRequest(call, ttl)
       \/ \E r \in RequestId : CancelRequest(r)
    /\ UNCHANGED hostVars

ExtensionStep == Connect \/ Pull \/ ReadHint
MainStep == handle_request \/ Observe \/ Reply
PollerStep == CopyWallets \/ AskAvailable \/ ApplyAvailable \/ CopyActive \/ AskStatus
              \/ ApplyStatus

HostNext ==
    \/ ExtensionStep \/ Heartbeat \/ Answer \/ Disconnect
    \/ MainStep \/ PollerStep \/ PollFails \/ CallerStep

HostSpec == HostInit /\ [][HostNext]_<<vars, hostVars>>

\* Both threads run, the extension pulls when it should and reads what it is
\* sent (between heartbeats, whose pace is its own); the user may take for ever.
\* The poller's calls do not fail for ever: it asks again every second.
FairHostSpec ==
    /\ HostSpec
    /\ WF_<<vars, hostVars>>(Connect)
    /\ SF_<<vars, hostVars>>(Pull)
    /\ SF_<<vars, hostVars>>(ReadHint)
    /\ WF_<<vars, hostVars>>(MainStep)
    /\ WF_<<vars, hostVars>>(PollerStep)
    /\ SF_<<vars, hostVars>>(AskAvailable)
    /\ SF_<<vars, hostVars>>(AskStatus)
---------------------------------------------------------------------------
(* Properties.                                                             *)

\* The notifier never loses sight of a request on screen: while the main thread
\* is between messages, what the extension shows is tracked until it is final,
\* and until a cancellation of it has been written (observe and the poller
\* insert and remove under separate locks, each after a call to the daemon).
ShownIsTracked ==
    extension.stage = "showing" /\ main = Reading =>
        LET r == extension.show.request
        IN  \/ r \in state.active_requests
            \/ /\ is_terminal(requests[r].status)
               /\ requests[r].status = "cancelled" => r \in hints

Settled == extension.stage # "showing"

\* Work is not overlooked: a request that waits for the extension is claimed or
\* cancelled in the end, unless the extension is busy with another one.  The
\* poll may act on an answer older than the last pull, and a hint is not
\* repeated while last_available_notified is set.
WorkIsSeen ==
    \A r \in RequestId :
        []<>(\/ r \notin DOMAIN requests
             \/ requests[r].status # "created"
             \/ ~Settled)

\* A cancelled request leaves the screen although the user never answers.
CancelledIsAnnounced ==
    \A r \in RequestId :
        extension.stage = "showing" /\ extension.show.request = r
            /\ requests[r].status = "cancelled"
        ~> ~(extension.stage = "showing" /\ extension.show.request = r)
===========================================================================
