---------------------------- MODULE HostProofs ----------------------------
(***************************************************************************)
(* The native messaging host beside the coordinator, for any requests and  *)
(* any number of connections.  What the extension shows was tracked before *)
(* its answer was written; it stays tracked until the poller has applied a *)
(* final status, which the daemon never takes back.                        *)
(***************************************************************************)
EXTENDS NativeHost, CoordinatorProofs

Show == [request : RequestId \cup {0}, presentation_id : 0 .. MaxLeases, lease : 0 .. MaxLeases]

Message == {"none", "register", "heartbeat", "pull", "presented", "resolve", "reject"}

HostTypeOK ==
    /\ extension \in [stage : {"offline", "waiting", "idle", "showing"}, wants : BOOLEAN,
                      show : Show, connections : Nat]
    /\ main \in [stage : {"reading", "observing", "replying"}, message : Message,
                 answer : {"none", "ack", "error", "resume", "next"}, show : Show]
    /\ state \in [tracked : BOOLEAN, last_available_notified : BOOLEAN,
                  active_requests : SUBSET RequestId]
    /\ poller \in [stage : {"asleep", "ask", "apply", "copy", "status", "settle"},
                   available : BOOLEAN, todo : SUBSET RequestId,
                   status : RequestStatus \cup {"none"}, request : RequestId \cup {0}]

\* A request the daemon knows, with a presentation id.
ShowOK(show) == show.request \in DOMAIN requests /\ show.presentation_id # 0

\* The notifier follows the request or has told what became of it.
Followed(r) ==
    \/ r \in state.active_requests
    \/ /\ is_terminal(requests[r].status)
       /\ requests[r].status = "cancelled" => r \in hints

\* The answer in hand puts its request on screen.
Shows == main.answer = "resume" \/ (main.message = "presented" /\ main.answer = "ack")

ExtensionOK ==
    /\ extension.stage = "showing" =>
          ShowOK(extension.show) /\ Followed(extension.show.request)
    /\ extension.stage \in {"idle", "showing"} => main.message \in {"none", "heartbeat"}

MainOK ==
    /\ main.answer \in {"resume", "next"} => main.message = "pull" /\ ShowOK(main.show)
    /\ main.message \in {"presented", "resolve", "reject"} => ShowOK(main.show)
    /\ main.stage = "replying" /\ Shows => Followed(main.show.request)

\* A final status the poller has read is still the status.
PollerOK ==
    /\ state.active_requests \cup poller.todo \subseteq DOMAIN requests
    /\ poller.stage = "settle" =>
          /\ poller.request \in DOMAIN requests
          /\ is_terminal(poller.status) => requests[poller.request].status = poller.status

HostInv == TypesAndRows /\ HostTypeOK /\ ExtensionOK /\ MainOK /\ PollerOK

HostStepOK == [Next]_vars /\ HostTypeOK' /\ ExtensionOK' /\ MainOK' /\ PollerOK'
----------------------------------------------------------------------------
LEMMA HostConstants ==
    /\ MaxLeases \in Nat /\ NoPresentation = 0 /\ PresentationId = 1 .. MaxLeases
    /\ HostWallet \in WalletId /\ NoShow \in Show /\ "none" \notin RequestStatus
<1>1. /\ MaxLeases \in Nat /\ NoPresentation = 0 /\ PresentationId = 1 .. MaxLeases
      /\ HostWallet \in WalletId
  BY CoordinatorAssumption, HostAssumption
<1> QED
  BY <1>1 DEF NoShow, Show, RequestStatus

\* What a step of the daemon leaves of the host's knowledge.
LEMMA DaemonKeeps ==
    ASSUME HostInv, [Next]_vars
    PROVE  /\ \A show : ShowOK(show) => ShowOK(show)'
           /\ \A r \in DOMAIN requests :
                 /\ Followed(r)
                 /\ state.active_requests \subseteq state'.active_requests /\ hints \subseteq hints'
                 => Followed(r)'
           /\ UNCHANGED <<state, poller>> => PollerOK'
<1>1. /\ DOMAIN requests \subseteq DOMAIN requests'
      /\ \A r \in DOMAIN requests :
            is_terminal(requests[r].status) => requests'[r].status = requests[r].status
  BY OldRows DEF HostInv
<1>2. \A show : ShowOK(show) => ShowOK(show)'
  BY <1>1 DEF ShowOK
<1>3. ASSUME NEW r \in DOMAIN requests, Followed(r),
             state.active_requests \subseteq state'.active_requests, hints \subseteq hints'
      PROVE  Followed(r)'
  BY <1>1, <1>3 DEF Followed
<1>4. UNCHANGED <<state, poller>> => PollerOK'
  BY <1>1 DEF HostInv, PollerOK
<1> QED
  BY <1>2, <1>3, <1>4

\* Steps that leave the daemon and the notification state alone.
LEMMA QuietStep ==
    ASSUME HostInv, UNCHANGED <<vars, state, poller>>, hints' = hints,
           ExtensionOK', MainOK',
           extension' \in [stage : {"offline", "waiting", "idle", "showing"}, wants : BOOLEAN,
                           show : Show, connections : Nat],
           main' \in [stage : {"reading", "observing", "replying"}, message : Message,
                      answer : {"none", "ack", "error", "resume", "next"}, show : Show]
    PROVE  HostStepOK
<1>1. HostTypeOK'
  BY DEF HostInv, HostTypeOK
<1>2. PollerOK'
  BY DaemonKeeps
<1> QED
  BY <1>1, <1>2 DEF HostStepOK
----------------------------------------------------------------------------
(* The extension.                                                           *)

LEMMA ConnectOK == ASSUME HostInv, Connect PROVE HostStepOK
<1>1. /\ UNCHANGED <<vars, state, poller, hints>>
      /\ main' = [stage |-> "reading", message |-> "register", answer |-> "none",
                  show |-> NoShow]
      /\ extension' = [extension EXCEPT !.stage = "waiting",
                                        !.connections = extension.connections + 1]
  BY DEF Connect, Reading
<1>2. /\ extension' \in [stage : {"offline", "waiting", "idle", "showing"}, wants : BOOLEAN,
                         show : Show, connections : Nat]
      /\ extension'.stage = "waiting"
  <2>1. /\ extension \in [stage : {"offline", "waiting", "idle", "showing"}, wants : BOOLEAN,
                          show : Show, connections : Nat]
        /\ extension.connections + 1 \in Nat
    BY DEF HostInv, HostTypeOK
  <2> QED
    BY <1>1, <2>1, Zenon
<1>3. main' \in [stage : {"reading", "observing", "replying"}, message : Message,
                 answer : {"none", "ack", "error", "resume", "next"}, show : Show]
  BY <1>1, HostConstants DEF Message
<1>4. ExtensionOK' /\ MainOK'
  BY <1>1, <1>2 DEF ExtensionOK, MainOK, Shows
<1> QED
  BY <1>1, <1>2, <1>3, <1>4, QuietStep

\* A message with a request to it says which.
LEMMA SendOK ==
    ASSUME HostInv, UNCHANGED <<vars, state, poller, hints>>,
           NEW message \in {"pull", "resolve", "reject"}, NEW show \in Show, Send(message, show),
           message # "pull" => ShowOK(show)
    PROVE  HostStepOK
<1>1. /\ main' = [stage |-> "reading", message |-> message, answer |-> "none", show |-> show]
      /\ extension' = [extension EXCEPT !.stage = "waiting", !.wants = FALSE, !.show = show]
  BY Zenon DEF Send, Reading
<1>2. /\ extension' \in [stage : {"offline", "waiting", "idle", "showing"}, wants : BOOLEAN,
                         show : Show, connections : Nat]
      /\ extension'.stage = "waiting"
  BY <1>1, Zenon DEF HostInv, HostTypeOK
<1>3. main' \in [stage : {"reading", "observing", "replying"}, message : Message,
                 answer : {"none", "ack", "error", "resume", "next"}, show : Show]
  BY <1>1 DEF Message
<1>4. message # "pull" => ShowOK(main.show)'
  BY <1>1 DEF ShowOK, vars
<1>5. ExtensionOK' /\ MainOK'
  BY <1>1, <1>2, <1>4 DEF ExtensionOK, MainOK, Shows
<1> QED
  BY <1>2, <1>3, <1>5, QuietStep

LEMMA PullOK == ASSUME HostInv, Pull PROVE HostStepOK
  BY SendOK, HostConstants DEF Pull

LEMMA AnswerOK == ASSUME HostInv, Answer PROVE HostStepOK
<1>1. extension.stage = "showing" /\ UNCHANGED <<vars, state, poller, hints>>
  BY DEF Answer
<1>2. PICK message \in {"resolve", "reject"} : Send(message, extension.show)
  BY DEF Answer
<1>3. extension.show \in Show /\ ShowOK(extension.show)
  BY <1>1 DEF HostInv, HostTypeOK, ExtensionOK
<1> QED
  BY <1>1, <1>2, <1>3, SendOK

LEMMA HeartbeatOK == ASSUME HostInv, Heartbeat PROVE HostStepOK
<1>1. /\ UNCHANGED <<vars, extension, state, poller, hints>>
      /\ main' = [stage |-> "reading", message |-> "heartbeat", answer |-> "none",
                  show |-> extension.show]
  BY Zenon DEF Heartbeat, Reading
<1>2. extension.show \in Show
  BY DEF HostInv, HostTypeOK
<1>3. main' \in [stage : {"reading", "observing", "replying"}, message : Message,
                 answer : {"none", "ack", "error", "resume", "next"}, show : Show]
  BY <1>1, <1>2 DEF Message
<1>4. MainOK'
  BY <1>1 DEF MainOK, Shows
<1>5. ExtensionOK'
  BY <1>1, Zenon DEF HostInv, ExtensionOK, ShowOK, Followed, vars
<1> QED
  BY <1>1, <1>3, <1>4, <1>5, QuietStep, Zenon DEF HostInv, HostTypeOK

\* The hint of the request on screen is read only to take it off the screen.
LEMMA ReadHintOK == ASSUME HostInv, ReadHint PROVE HostStepOK
<1> USE DEF HostInv
<1>1. /\ UNCHANGED <<vars, main, state, poller>> /\ main = Reading
      /\ extension.stage \in {"idle", "showing"}
  BY DEF ReadHint
<1>2. PICK hint \in hints :
        /\ hints' = hints \ {hint}
        /\ extension' =
             IF hint = "available"
             THEN [extension EXCEPT !.wants = (extension.wants \/ extension.stage = "idle")]
             ELSE IF extension.stage = "showing" /\ extension.show.request = hint
             THEN [extension EXCEPT !.stage = "idle", !.wants = TRUE, !.show = NoShow]
             ELSE extension
  BY DEF ReadHint
<1>3. /\ extension' \in [stage : {"offline", "waiting", "idle", "showing"}, wants : BOOLEAN,
                         show : Show, connections : Nat]
      /\ extension'.stage = "showing" =>
            /\ extension.stage = "showing" /\ extension'.show = extension.show
            /\ hint = "available" \/ hint # extension.show.request
  <2>1. (extension.wants \/ extension.stage = "idle") \in BOOLEAN
    OBVIOUS
  <2> QED
    BY <1>2, <2>1, HostConstants, Zenon DEF HostTypeOK
<1>4. HostTypeOK' /\ PollerOK'
  BY <1>1, <1>3 DEF HostTypeOK, PollerOK, vars
<1>5. MainOK'
  BY <1>1 DEF MainOK, Shows, Reading
<1>6. ExtensionOK'
  <2>1. main'.message = "none"
    BY <1>1 DEF Reading
  <2>2. ASSUME extension'.stage = "showing"
        PROVE  ShowOK(extension.show)' /\ Followed(extension.show.request)'
    <3>1. extension.show.request \in RequestId /\ hint # extension.show.request
      BY <1>3, <2>2, HostAssumption DEF ExtensionOK, ShowOK, TypesAndRows, TypeOK
    <3> QED
      BY <1>1, <1>2, <1>3, <2>2, <3>1, Zenon DEF ExtensionOK, ShowOK, Followed, vars
  <2> QED
    BY <2>1, <2>2 DEF ExtensionOK
<1> QED
  BY <1>1, <1>4, <1>5, <1>6 DEF HostStepOK

LEMMA DisconnectOK == ASSUME HostInv, Disconnect PROVE HostStepOK
<1>1. /\ UNCHANGED vars /\ hints' = {}
      /\ extension' = [extension EXCEPT !.stage = "offline", !.wants = FALSE, !.show = NoShow]
      /\ main' = [stage |-> "reading", message |-> "none", answer |-> "none", show |-> NoShow]
      /\ state' = [tracked |-> FALSE, last_available_notified |-> FALSE,
                   active_requests |-> {}]
      /\ poller' = [stage |-> "asleep", available |-> FALSE, todo |-> {}, status |-> "none",
                    request |-> 0]
  BY DEF Disconnect, Reading, NewState, Sleeping
<1>2. HostTypeOK' /\ extension'.stage = "offline"
  BY <1>1, HostConstants, Zenon DEF HostInv, HostTypeOK, Message
<1>3. ExtensionOK' /\ MainOK' /\ PollerOK'
  BY <1>1, <1>2 DEF ExtensionOK, MainOK, PollerOK, Shows
<1> QED
  BY <1>1, <1>2, <1>3 DEF HostStepOK
----------------------------------------------------------------------------
(* The main thread.                                                         *)

\* A call to the daemon was served or refused; nobody was told yet.
LEMMA ServedOK ==
    ASSUME HostInv, [Next]_vars, UNCHANGED <<extension, state, poller, hints>>,
           main' \in [stage : {"observing"}, message : {main.message},
                      answer : {"none", "ack", "error", "resume", "next"}, show : Show],
           main'.answer \in {"resume", "next"} => main.message = "pull" /\ ShowOK(main.show)',
           main.message # "pull" => main'.show = main.show
    PROVE  HostStepOK
<1> USE DEF HostInv
<1>1. HostTypeOK'
  BY DEF HostTypeOK
<1>2. PollerOK'
  BY DaemonKeeps
<1>3. main'.stage = "observing" /\ main'.message = main.message
  OBVIOUS
<1>4. ExtensionOK'
  <2>1. ASSUME extension.stage = "showing"
        PROVE  ShowOK(extension.show)' /\ Followed(extension.show.request)'
    <3>1. /\ ShowOK(extension.show) /\ Followed(extension.show.request)
          /\ extension.show.request \in DOMAIN requests
      BY <2>1, Zenon DEF ExtensionOK, ShowOK
    <3>2. DOMAIN requests \subseteq DOMAIN requests'
      BY OldRows, Zenon
    <3>3. Followed(extension.show.request)'
      <4>1. \A r \in DOMAIN requests : is_terminal(requests[r].status) =>
                                          requests'[r].status = requests[r].status
        BY OldRows, Zenon
      <4> QED
        BY <3>1, <4>1, Zenon DEF Followed
    <3> QED
      BY <3>1, <3>2, <3>3 DEF ShowOK
  <2> QED
    BY <1>3, <2>1 DEF ExtensionOK
<1>5. MainOK'
  <2>1. DOMAIN requests \subseteq DOMAIN requests'
    BY OldRows
  <2>2. main.message \in {"presented", "resolve", "reject"} => ShowOK(main.show)'
    BY <2>1 DEF MainOK, ShowOK
  <2> QED
    BY <1>3, <2>2 DEF MainOK
<1> QED
  BY <1>1, <1>2, <1>4, <1>5 DEF HostStepOK

\* The commands of the messages are commands of the coordinator.
LEMMA ForwardedOK ==
    ASSUME HostInv, UNCHANGED <<extension, state, poller, hints>>,
           [Next]_vars, Served("ack") \/ Served("error")
    PROVE  HostStepOK
<1>1. /\ main' \in [stage : {"observing"}, message : {main.message},
                    answer : {"none", "ack", "error", "resume", "next"}, show : Show]
      /\ main'.answer \in {"ack", "error"} /\ main'.show = main.show
  BY Zenon DEF Served, HostInv, HostTypeOK
<1> QED
  BY <1>1, ServedOK

LEMMA ServePullOK ==
    ASSUME HostInv, UNCHANGED <<extension, state, poller, hints>>, main.message = "pull",
           ServePull
    PROVE  HostStepOK
<1> USE DEF HostInv
<1> DEFINE Mains == [stage : {"observing"}, message : {main.message},
                     answer : {"none", "ack", "error", "resume", "next"}, show : Show]
<1>1. ASSUME NEW r \in RequestId, ResumeRequest(HostWallet, r),
             main' = [main EXCEPT !.stage = "observing", !.answer = "resume",
                                  !.show = Shown(r, requests[r].presentation.id, 0)]
      PROVE  HostStepOK
  <2>1. Next
    BY <1>1, HostConstants DEF Next, BackendNext
  <2>2. r \in DOMAIN requests /\ requests[r].status = "pending_user_approval"
        /\ requests[r].presentation.id # NoPresentation /\ requests[r] \in Request
    BY <1>1 DEF ResumeRequest, Oldest, Resumable, Owned, TypesAndRows, RowsOK, RowOK
  <2>3. requests[r].presentation.id \in 1 .. MaxLeases
    BY <2>2, HostConstants, Zenon DEF Request
  <2>4. Shown(r, requests[r].presentation.id, 0) \in Show
    BY <2>3, HostConstants DEF Shown, Show
  <2>5. /\ main' \in Mains
        /\ main'.show = Shown(r, requests[r].presentation.id, 0)
    BY <1>1, <2>4, Zenon DEF HostTypeOK
  <2>6. ShowOK(main.show)'
    <3>1. r \in DOMAIN requests'
      BY <2>1, <2>2, OldRows, Zenon
    <3> QED
      BY <2>3, <2>5, <3>1 DEF Shown, ShowOK
  <2> QED
    BY <2>1, <2>5, <2>6, ServedOK
<1>2. ASSUME NEW r \in RequestId, ClaimRequest(HostWallet, r),
             main' = [main EXCEPT !.stage = "observing", !.answer = "next",
                                  !.show = Shown(r, next_lease_id, next_lease_id)]
      PROVE  HostStepOK
  <2>1. Next
    BY <1>2, HostConstants DEF Next, BackendNext
  <2>2. r \in DOMAIN requests /\ next_lease_id <= MaxLeases
    BY <1>2 DEF ClaimRequest, Oldest, Claimable, Owned
  <2>3. next_lease_id \in 1 .. MaxLeases
    BY <2>2, HostConstants DEF TypesAndRows, TypeOK
  <2>4. Shown(r, next_lease_id, next_lease_id) \in Show
    BY <2>3, HostConstants DEF Shown, Show
  <2>5. /\ main' \in Mains
        /\ main'.show = Shown(r, next_lease_id, next_lease_id)
    BY <1>2, <2>4, Zenon DEF HostTypeOK
  <2>6. ShowOK(main.show)'
    <3>1. r \in DOMAIN requests'
      BY <2>1, <2>2, OldRows, Zenon
    <3> QED
      BY <2>3, <2>5, <3>1 DEF Shown, ShowOK
  <2> QED
    BY <2>1, <2>5, <2>6, ServedOK
<1>3. ASSUME UNCHANGED vars, Served("none")
      PROVE  HostStepOK
  <2>1. main' \in Mains /\ main'.answer = "none"
    BY <1>3, Zenon DEF Served, HostTypeOK
  <2> QED
    BY <1>3, <2>1, ServedOK
<1> QED
  BY <1>1, <1>2, <1>3, Zenon DEF ServePull

LEMMA HandleRequestOK == ASSUME HostInv, handle_request PROVE HostStepOK
<1> USE DEF HostInv
<1> DEFINE show == main.show
<1>1. /\ UNCHANGED <<extension, state, poller, hints>>
      /\ main.message \in Message \ {"none"} /\ show \in Show
  BY DEF handle_request, HostTypeOK
<1>2. CASE main.message = "pull"
  BY <1>1, <1>2, ServePullOK DEF handle_request
<1>3. CASE main.message = "register"
  <2> DEFINE Command == /\ RegisterBackend(HostWallet, ExtensionSnapshot)
                        /\ UNCHANGED <<now, requestVars>>
  <2>1. Forward(Command)
    BY <1>3, Zenon DEF handle_request
  <2>2. (Command \/ UNCHANGED vars) /\ (Served("ack") \/ Served("error"))
    BY <2>1 DEF Forward
  <2>3. Command => Next
    BY HostIsABackend, HostConstants DEF Next, BackendNext
  <2> QED
    BY <1>1, <2>2, <2>3, ForwardedOK
<1>4. CASE main.message = "heartbeat"
  <2> DEFINE Command == HeartbeatBackend(HostWallet, "keep", {show.request} \ {0})
  <2>1. Forward(Command)
    BY <1>4 DEF handle_request
  <2>2. (Command \/ UNCHANGED vars) /\ (Served("ack") \/ Served("error"))
    BY <2>1, Zenon DEF Forward
  <2>3. {show.request} \ {0} \in SUBSET RequestId
    BY <1>1 DEF Show
  <2>4. Command => Next
    BY <2>3, HostConstants, Zenon DEF Next, BackendNext
  <2> QED
    BY <1>1, <2>2, <2>4, ForwardedOK, Zenon
<1>5. CASE main.message \in {"presented", "resolve", "reject"}
  <2>1. /\ show.request \in DOMAIN requests /\ show.request \in RequestId
        /\ show.presentation_id \in PresentationId
        /\ show.presentation_id \in PresentationId \cup {NoPresentation}
        /\ show.lease \in 0 .. MaxLeases
    BY <1>1, <1>5, HostConstants DEF MainOK, ShowOK, Show, TypesAndRows, TypeOK
  <2>2. CASE main.message = "presented"
    <3> DEFINE Command == MarkRequestPresented(HostWallet, show.request,
                                               show.presentation_id, show.lease)
    <3>1. Forward(Command)
      BY <2>2 DEF handle_request
    <3>2. (Command \/ UNCHANGED vars) /\ (Served("ack") \/ Served("error"))
      BY <3>1 DEF Forward
    <3>3. Command => Next
      BY <2>1, HostConstants, Zenon DEF Next, BackendNext
    <3> QED
      BY <1>1, <3>2, <3>3, ForwardedOK
  <2>3. CASE main.message = "resolve"
    <3> DEFINE result == expected_result_kind(requests[show.request].kind)
               Command == ResolveRequest(HostWallet, show.request, show.presentation_id, result)
    <3>1. Forward(Command)
      BY <2>3 DEF handle_request
    <3>2. (Command \/ UNCHANGED vars) /\ (Served("ack") \/ Served("error"))
      BY <3>1, Zenon DEF Forward
    <3>3. result \in ResultKind
      BY <2>1, ExpectedResultType, Zenon DEF TypesAndRows, RowsOK, RowOK, Request
    <3>4. Command => Next
      BY <2>1, <3>3, HostConstants, Zenon DEF Next, BackendNext
    <3> QED
      BY <1>1, <3>2, <3>4, ForwardedOK, Zenon
  <2>4. CASE main.message = "reject"
    <3> DEFINE Command == RejectRequest(HostWallet, show.request, show.presentation_id,
                                        "request_rejected")
    <3>1. Forward(Command)
      BY <2>4 DEF handle_request
    <3>2. (Command \/ UNCHANGED vars) /\ (Served("ack") \/ Served("error"))
      BY <3>1 DEF Forward
    <3>3. Command => Next
      BY <2>1, HostIsABackend, HostConstants, Zenon DEF Next, BackendNext
    <3> QED
      BY <1>1, <3>2, <3>3, ForwardedOK
  <2> QED
    BY <1>5, <2>2, <2>3, <2>4
<1> QED
  BY <1>1, <1>2, <1>3, <1>4, <1>5 DEF Message

\* What is to be shown is tracked before the answer is written.
LEMMA ObserveOK == ASSUME HostInv, Observe PROVE HostStepOK
<1> USE DEF HostInv
<1> DEFINE r == main.show.request
<1>1. /\ main.stage = "observing" /\ UNCHANGED <<vars, extension, poller, hints>>
      /\ main' = [main EXCEPT !.stage = "replying"]
      /\ state' = observe(main.message, main.answer, r)
      /\ UNCHANGED requests
  BY DEF Observe, vars
<1>2. /\ state'.active_requests =
           IF Shows THEN state.active_requests \cup {r}
           ELSE IF main.message \in {"resolve", "reject"} /\ main.answer = "ack"
           THEN state.active_requests \ {r}
           ELSE state.active_requests
      /\ DOMAIN state' = {"tracked", "last_available_notified", "active_requests"}
      /\ state' = [tracked |-> state'.tracked,
                   last_available_notified |-> state'.last_available_notified,
                   active_requests |-> state'.active_requests]
  BY <1>1 DEF observe, Shows
<1>3. state'.tracked \in BOOLEAN /\ state'.last_available_notified \in BOOLEAN
  <2>1. state' = observe(main.message, main.answer, r)
    BY <1>1
  <2> QED
    BY <2>1, Zenon DEF observe
<1>4. Shows => r \in DOMAIN requests
  BY DEF MainOK, Shows, ShowOK
<1>5. DOMAIN requests \subseteq RequestId
  BY DEF TypesAndRows, TypeOK
<1>6. /\ state'.active_requests \in SUBSET RequestId
      /\ state'.active_requests \subseteq DOMAIN requests
  BY <1>2, <1>4, <1>5 DEF PollerOK, HostTypeOK
<1>7. /\ main' \in [stage : {"reading", "observing", "replying"}, message : Message,
                    answer : {"none", "ack", "error", "resume", "next"}, show : Show]
      /\ main'.message = main.message /\ main'.answer = main.answer /\ main'.show = main.show
  BY <1>1 DEF HostTypeOK
<1>8. HostTypeOK'
  BY <1>1, <1>2, <1>3, <1>6, <1>7 DEF HostTypeOK
<1>9. PollerOK'
  BY <1>1, <1>6 DEF PollerOK
<1>10. MainOK'
  <2>1. Shows' => Followed(main.show.request)'
    BY <1>2, <1>7, Zenon DEF Shows, Followed
  <2> QED
    BY <1>1, <1>7, <2>1 DEF MainOK, ShowOK
<1>11. ExtensionOK'
  <2>1. CASE extension.stage \in {"idle", "showing"}
    <3>1. state.active_requests \subseteq state'.active_requests
      BY <1>2, <2>1 DEF ExtensionOK
    <3> QED
      BY <1>1, <1>7, <3>1, Zenon DEF ExtensionOK, ShowOK, Followed
  <2>2. CASE extension.stage \notin {"idle", "showing"}
    BY <1>1, <2>2 DEF ExtensionOK
  <2> QED
    BY <2>1, <2>2
<1> QED
  BY <1>1, <1>8, <1>9, <1>10, <1>11 DEF HostStepOK

LEMMA ReplyOK == ASSUME HostInv, Reply PROVE HostStepOK
<1> USE DEF HostInv
<1> DEFINE Extensions == [stage : {"offline", "waiting", "idle", "showing"}, wants : BOOLEAN,
                          show : Show, connections : Nat]
           Mains == [stage : {"reading", "observing", "replying"}, message : Message,
                     answer : {"none", "ack", "error", "resume", "next"}, show : Show]
           Idle(wants) == [extension EXCEPT !.stage = "idle", !.wants = wants, !.show = NoShow]
           Showing == [extension EXCEPT !.stage = "showing", !.show = main.show]
<1>1. /\ main.stage = "replying" /\ UNCHANGED <<vars, state, poller, hints>>
      /\ UNCHANGED requests
  BY DEF Reply, vars
<1>2. extension \in Extensions /\ main \in Mains
  BY DEF HostTypeOK
<1>3. CASE main.answer = "next"
  <2>1. /\ main' = [stage |-> "reading", message |-> "presented", answer |-> "none",
                    show |-> main.show]
        /\ UNCHANGED extension
    BY <1>3, Zenon DEF Reply, Reading
  <2>2. main' \in Mains
    BY <1>2, <2>1, Zenon DEF Message
  <2>3. MainOK'
    BY <1>1, <1>3, <2>1, Zenon DEF MainOK, ShowOK, Shows
  <2>4. ExtensionOK'
    BY <1>3, <2>1, Zenon DEF ExtensionOK, MainOK
  <2> QED
    BY <1>1, <1>2, <2>1, <2>2, <2>3, <2>4, QuietStep, Zenon
<1>4. CASE main.answer # "next"
  <2>1. /\ main' = [stage |-> "reading", message |-> "none", answer |-> "none",
                    show |-> NoShow]
        /\ \/ extension' = extension
           \/ Shows /\ extension' = Showing
           \/ extension' = Idle(TRUE) \/ extension' = Idle(FALSE)
    BY <1>4 DEF Reply, Reading, Shows
  <2>2. main' \in Mains
    BY <2>1, HostConstants DEF Message
  <2>3. MainOK'
    BY <2>1 DEF MainOK, Shows
  <2>4. ASSUME extension' = extension PROVE HostStepOK
    <3>1. ExtensionOK'
      BY <1>1, <2>1, <2>4 DEF ExtensionOK, ShowOK, Followed
    <3> QED
      BY <1>1, <1>2, <2>2, <2>3, <2>4, <3>1, QuietStep, Zenon
  <2>5. ASSUME Shows, extension' = Showing PROVE HostStepOK
    <3>1. extension' \in Extensions /\ extension'.show = main.show
      BY <1>2, <2>5, Zenon
    <3>2. ShowOK(main.show) /\ Followed(main.show.request)
      BY <1>1, <2>5 DEF MainOK, Shows
    <3>3. ExtensionOK'
      BY <1>1, <2>1, <3>1, <3>2, Zenon DEF ExtensionOK, ShowOK, Followed
    <3> QED
      BY <1>1, <2>2, <2>3, <3>1, <3>3, QuietStep
  <2>6. ASSUME extension' = Idle(TRUE) \/ extension' = Idle(FALSE) PROVE HostStepOK
    <3>1. extension' \in Extensions /\ extension'.stage = "idle"
      BY <1>2, <2>6, HostConstants, Zenon
    <3>2. ExtensionOK'
      BY <2>1, <3>1 DEF ExtensionOK
    <3> QED
      BY <1>1, <2>2, <2>3, <3>1, <3>2, QuietStep
  <2> QED
    BY <2>1, <2>4, <2>5, <2>6
<1> QED
  BY <1>3, <1>4
----------------------------------------------------------------------------
(* The polling thread.                                                      *)

\* The poller goes on without touching what it shares.
LEMMA PollerMoves ==
    ASSUME HostInv, UNCHANGED <<vars, extension, main, state, hints>>, PollerOK',
           poller' \in [stage : {"asleep", "ask", "apply", "copy", "status", "settle"},
                        available : BOOLEAN, todo : SUBSET RequestId,
                        status : RequestStatus \cup {"none"}, request : RequestId \cup {0}]
    PROVE  HostStepOK
<1>1. HostTypeOK'
  BY DEF HostInv, HostTypeOK
<1>2. ExtensionOK' /\ MainOK'
  BY Zenon DEF HostInv, ExtensionOK, MainOK, ShowOK, Followed, Shows, vars
<1> QED
  BY <1>1, <1>2 DEF HostStepOK

Pollers ==
    [stage : {"asleep", "ask", "apply", "copy", "status", "settle"}, available : BOOLEAN,
     todo : SUBSET RequestId, status : RequestStatus \cup {"none"},
     request : RequestId \cup {0}]

\* A poller with nothing in hand but requests still to ask for.
Rested(stage, todo) ==
    [stage |-> stage, available |-> FALSE, todo |-> todo, status |-> "none", request |-> 0]

LEMMA RestedPoller ==
    ASSUME NEW stage \in {"asleep", "ask", "copy", "status"}, NEW todo \in SUBSET RequestId
    PROVE  /\ Rested(stage, todo) \in Pollers
           /\ Rested(stage, todo).stage = stage /\ Rested(stage, todo).todo = todo
  BY DEF Rested, Pollers

LEMMA CopyWalletsOK == ASSUME HostInv, CopyWallets PROVE HostStepOK
<1>1. /\ UNCHANGED <<vars, extension, main, state, hints>> /\ UNCHANGED requests
      /\ \/ poller' = Rested("ask", {})
         \/ poller' = Rested("copy", {})
  BY Zenon DEF CopyWallets, Sleeping, Rested, vars
<1>2. poller' \in Pollers /\ poller'.stage \in {"ask", "copy"} /\ poller'.todo = {}
  BY <1>1, RestedPoller
<1>3. PollerOK'
  BY <1>1, <1>2, Zenon DEF HostInv, PollerOK
<1> QED
  BY <1>1, <1>2, <1>3, PollerMoves DEF Pollers

LEMMA AskAvailableOK == ASSUME HostInv, AskAvailable PROVE HostStepOK
<1>1. /\ UNCHANGED <<vars, extension, main, state, hints>> /\ UNCHANGED requests
      /\ poller' = [stage |-> "apply", available |-> request_has_available(HostWallet),
                    todo |-> {}, status |-> "none", request |-> 0]
  BY Zenon DEF AskAvailable, Sleeping, vars
<1>2. request_has_available(HostWallet) \in BOOLEAN
  BY DEF request_has_available
<1>3. poller' \in Pollers /\ poller'.stage = "apply" /\ poller'.todo = {}
  BY <1>1, <1>2, Zenon DEF Pollers
<1>4. PollerOK'
  BY <1>1, <1>3, Zenon DEF HostInv, PollerOK
<1> QED
  BY <1>1, <1>3, <1>4, PollerMoves, Zenon DEF Pollers

LEMMA CopyActiveOK == ASSUME HostInv, CopyActive PROVE HostStepOK
<1>1. /\ UNCHANGED <<vars, extension, main, state, hints>> /\ UNCHANGED requests
      /\ \/ poller' = Rested("asleep", state.active_requests)
         \/ poller' = Rested("status", state.active_requests)
  BY Zenon DEF CopyActive, Sleeping, Rested, vars
<1>2. /\ poller' \in Pollers /\ poller'.stage \in {"asleep", "status"}
      /\ poller'.todo = state.active_requests
  BY <1>1, RestedPoller DEF HostInv, HostTypeOK
<1>3. PollerOK'
  BY <1>1, <1>2, Zenon DEF HostInv, PollerOK
<1> QED
  BY <1>1, <1>2, <1>3, PollerMoves, Zenon DEF Pollers

LEMMA AskStatusOK == ASSUME HostInv, AskStatus PROVE HostStepOK
<1>1. UNCHANGED <<vars, extension, main, state, hints>> /\ UNCHANGED requests
  BY DEF AskStatus, vars
<1>2. PICK r \in poller.todo :
        poller' = [poller EXCEPT !.stage = "settle", !.request = r,
                                 !.status = requests[r].status]
  BY Zenon DEF AskStatus
<1>3. /\ poller \in Pollers /\ r \in DOMAIN requests /\ r \in RequestId
      /\ requests[r].status \in RequestStatus
  BY Zenon DEF HostInv, HostTypeOK, Pollers, PollerOK, TypesAndRows, RowsOK, RowOK, Request
<1>4. /\ poller' \in Pollers /\ poller'.todo = poller.todo
      /\ poller'.request = r /\ poller'.status = requests[r].status
  BY <1>2, <1>3, Zenon DEF Pollers
<1>5. PollerOK'
  BY <1>1, <1>3, <1>4, Zenon DEF HostInv, PollerOK
<1> QED
  BY <1>1, <1>4, <1>5, PollerMoves, Zenon DEF Pollers

LEMMA PollFailsOK == ASSUME HostInv, PollFails PROVE HostStepOK
<1>1. UNCHANGED <<vars, extension, main, state, hints>> /\ UNCHANGED requests
  BY Zenon DEF PollFails, vars
<1>2. PICK todo \in SUBSET poller.todo, stage \in {"asleep", "copy", "status"} :
        poller' = Rested(stage, todo)
  BY Zenon DEF PollFails, Sleeping, Rested
<1>3. todo \in SUBSET RequestId
  BY DEF HostInv, HostTypeOK
<1>4. poller' \in Pollers /\ poller'.stage = stage /\ poller'.todo = todo
  BY <1>2, <1>3, RestedPoller
<1>5. PollerOK'
  BY <1>1, <1>4, Zenon DEF HostInv, PollerOK
<1> QED
  BY <1>1, <1>4, <1>5, PollerMoves, Zenon DEF Pollers

LEMMA ApplyAvailableOK == ASSUME HostInv, ApplyAvailable PROVE HostStepOK
<1> USE DEF HostInv
<1> DEFINE announce == poller.available /\ ~state.last_available_notified
           flag == announce \/ (state.last_available_notified /\ poller.available)
<1>1. /\ UNCHANGED <<vars, extension, main>> /\ UNCHANGED requests
      /\ hints \subseteq hints'
      /\ poller' = Rested("copy", {})
      /\ state' = [state EXCEPT !.last_available_notified = flag]
  BY Zenon DEF ApplyAvailable, Sleeping, Rested, vars
<1>2. flag \in BOOLEAN
  OBVIOUS
<1> HIDE DEF flag
<1>3. /\ state' \in [tracked : BOOLEAN, last_available_notified : BOOLEAN,
                     active_requests : SUBSET RequestId]
      /\ state'.active_requests = state.active_requests
  BY <1>1, <1>2 DEF HostTypeOK
<1>4. poller' \in Pollers /\ poller'.stage = "copy" /\ poller'.todo = {}
  BY <1>1, RestedPoller
<1>5. HostTypeOK'
  BY <1>1, <1>3, <1>4, Zenon DEF HostTypeOK, Pollers
<1>6. PollerOK'
  BY <1>1, <1>3, <1>4 DEF PollerOK
<1>7. ExtensionOK' /\ MainOK'
  BY <1>1, <1>3, Zenon DEF ExtensionOK, MainOK, ShowOK, Followed, Shows
<1> QED
  BY <1>1, <1>5, <1>6, <1>7 DEF HostStepOK

\* A request is no longer tracked once its final status is known, and the
\* extension is told of a cancellation in the same step.
LEMMA ApplyStatusOK == ASSUME HostInv, ApplyStatus PROVE HostStepOK
<1> USE DEF HostInv
<1> DEFINE q == poller.request
           todo == poller.todo \ {q}
<1>1. /\ UNCHANGED <<vars, extension, main>> /\ UNCHANGED requests /\ poller.stage = "settle"
      /\ hints' = IF poller.status = "cancelled" THEN hints \cup {q} ELSE hints
      /\ state' = IF is_terminal(poller.status)
                  THEN [state EXCEPT !.active_requests = state.active_requests \ {q}]
                  ELSE state
      /\ \/ poller' = Rested("asleep", todo)
         \/ poller' = Rested("status", todo)
  BY Zenon DEF ApplyStatus, PollerAt, Sleeping, Rested, vars
<1>2. /\ state' \in [tracked : BOOLEAN, last_available_notified : BOOLEAN,
                     active_requests : SUBSET RequestId]
      /\ state'.active_requests = IF is_terminal(poller.status)
                                  THEN state.active_requests \ {q} ELSE state.active_requests
  BY <1>1 DEF HostTypeOK
<1>3. /\ poller' \in Pollers /\ poller'.stage \in {"asleep", "status"}
      /\ poller'.todo = todo
  <2>1. todo \in SUBSET RequestId
    BY DEF HostTypeOK
  <2> HIDE DEF todo
  <2> QED
    BY <1>1, <2>1, RestedPoller
<1>4. HostTypeOK'
  BY <1>1, <1>2, <1>3 DEF HostTypeOK, Pollers
<1>5. PollerOK'
  BY <1>1, <1>2, <1>3 DEF PollerOK
<1>6. ASSUME NEW r, Followed(r)
      PROVE  \/ r \in state'.active_requests
             \/ /\ is_terminal(requests'[r].status)
                /\ requests'[r].status = "cancelled" => r \in hints'
  BY <1>1, <1>2, <1>6 DEF Followed, PollerOK
<1>7. ExtensionOK' /\ MainOK'
  <2>1. extension.stage = "showing" => Followed(extension.show.request)'
    BY <1>1, <1>6, Zenon DEF ExtensionOK, Followed
  <2>2. main.stage = "replying" /\ Shows => Followed(main.show.request)'
    BY <1>1, <1>6, Zenon DEF MainOK, Followed
  <2> QED
    BY <1>1, <2>1, <2>2 DEF ExtensionOK, MainOK, ShowOK, Shows
<1> QED
  BY <1>1, <1>4, <1>5, <1>7 DEF HostStepOK
----------------------------------------------------------------------------
(* Callers, the invariant, and what follows from it.                        *)

LEMMA HostFrame ==
    ASSUME HostInv, [Next]_vars, UNCHANGED hostVars
    PROVE  HostStepOK
<1> USE DEF HostInv, hostVars
<1>1. /\ DOMAIN requests \subseteq DOMAIN requests'
      /\ \A r \in DOMAIN requests :
            is_terminal(requests[r].status) => requests'[r].status = requests[r].status
  BY OldRows, Zenon
<1>2. HostTypeOK' /\ PollerOK'
  BY <1>1, DaemonKeeps DEF HostTypeOK
<1>3. ExtensionOK'
  BY <1>1, Zenon DEF ExtensionOK, ShowOK, Followed
<1>4. MainOK'
  BY <1>1, Zenon DEF MainOK, ShowOK, Shows, Followed
<1> QED
  BY <1>2, <1>3, <1>4 DEF HostStepOK

LEMMA CallerStepOK == ASSUME HostInv, CallerStep PROVE HostStepOK
<1>1. Next /\ UNCHANGED hostVars
  BY DEF CallerStep, Next, CallerNext
<1> QED
  BY <1>1, HostFrame

LEMMA HostInvInit == HostInit => HostInv
<1> SUFFICES ASSUME HostInit PROVE HostInv
  OBVIOUS
<1>1. /\ Init /\ hints = {}
      /\ extension = [stage |-> "offline", wants |-> FALSE, show |-> NoShow, connections |-> 0]
      /\ main = [stage |-> "reading", message |-> "none", answer |-> "none", show |-> NoShow]
      /\ state = [tracked |-> FALSE, last_available_notified |-> FALSE,
                  active_requests |-> {}]
      /\ poller = [stage |-> "asleep", available |-> FALSE, todo |-> {}, status |-> "none",
                   request |-> 0]
  BY Zenon DEF HostInit, Reading, NewState, Sleeping
<1>2. HostTypeOK
  BY <1>1, HostConstants, Zenon DEF HostTypeOK, Message
<1>3. ExtensionOK /\ MainOK /\ PollerOK
  BY <1>1, Zenon DEF ExtensionOK, MainOK, PollerOK, Shows
<1> QED
  BY <1>1, <1>2, <1>3, TypesAndRowsInit, Zenon DEF HostInv

LEMMA HostInvStep == HostInv /\ [HostNext]_<<vars, hostVars>> => [Next]_vars /\ HostInv'
<1> SUFFICES ASSUME HostInv, [HostNext]_<<vars, hostVars>> PROVE [Next]_vars /\ HostInv'
  OBVIOUS
<1>1. HostStepOK
  <2>1. CASE ExtensionStep \/ Heartbeat \/ Answer \/ Disconnect
    BY <2>1, ConnectOK, PullOK, ReadHintOK, HeartbeatOK, AnswerOK, DisconnectOK
    DEF ExtensionStep
  <2>2. CASE MainStep
    BY <2>2, HandleRequestOK, ObserveOK, ReplyOK DEF MainStep
  <2>3. CASE PollerStep \/ PollFails
    BY <2>3, CopyWalletsOK, AskAvailableOK, ApplyAvailableOK, CopyActiveOK, AskStatusOK,
       ApplyStatusOK, PollFailsOK
    DEF PollerStep
  <2>4. CASE CallerStep
    BY <2>4, CallerStepOK
  <2>5. CASE UNCHANGED <<vars, hostVars>>
    BY <2>5, HostFrame
  <2> QED
    BY <2>1, <2>2, <2>3, <2>4, <2>5 DEF HostNext
<1>2. TypesAndRows'
  BY <1>1, TypesAndRowsStep DEF HostStepOK, HostInv
<1> QED
  BY <1>1, <1>2 DEF HostStepOK, HostInv

\* An extension behind the native host is a backend the coordinator was
\* specified for: whatever messages it sends, the daemon's tables change only as
\* the coordinator's specification says.
THEOREM HostIsCoordinated == HostSpec => Spec
<1>1. HostInit => Init
  BY Zenon DEF HostInit
<1> QED
  BY <1>1, HostInvInit, HostInvStep, PTL DEF HostSpec, Spec

\* The notifier never loses sight of a request on screen, although handle_message
\* and the polling thread insert and remove under separate locks, each after a
\* call to the daemon made without the lock.
THEOREM NotifierCorrect == HostSpec => []ShownIsTracked
<1>1. HostInv => ShownIsTracked
  BY Zenon DEF HostInv, ExtensionOK, Followed, ShownIsTracked
<1> QED
  BY <1>1, HostInvInit, HostInvStep, PTL DEF HostSpec
============================================================================
