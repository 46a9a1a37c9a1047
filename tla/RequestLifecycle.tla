------------------------- MODULE RequestLifecycle -------------------------
(***************************************************************************)
(* What the request runtime promises its callers, with leases, clocks,     *)
(* queues and crashes left out: a book of accepted requests, each with the *)
(* wallet it is for, moving along the status graph until it is terminal,   *)
(* with a result that is there from the approval until it is evicted.      *)
(* Any number of requests may move in one step (one maintenance tick       *)
(* sweeps them all).                                                       *)
(***************************************************************************)
EXTENDS RequestTypes

CONSTANTS RequestId, WalletId

VARIABLE book   \* a function from the accepted request ids to entries

Entry == [kind   : RequestKind,
          owner  : WalletId,
          phase  : RequestStatus,
          result : ResultKind \cup {"none"}]

Init == book = [r \in {} |-> {}]

Accepted(entry) ==
    /\ entry \in Entry
    /\ entry.phase = "created"
    /\ entry.result = "none"

\* One request, one step: it moves along the status graph and has the result
\* its kind calls for exactly when the move is to approved ...
Moves(entry, next) ==
    /\ can_transition_to(entry.phase, next.phase)
    /\ next.result = IF next.phase = "approved"
                     THEN expected_result_kind(entry.kind)
                     ELSE "none"

\* ... or it loses the result of its approval.
Evicted(entry, next) ==
    /\ entry.phase = "approved" /\ next.phase = "approved"
    /\ entry.result # "none" /\ next.result = "none"

Step(entry, next) ==
    \/ next = entry
    \/ /\ next.kind = entry.kind
       /\ next.owner = entry.owner
       /\ Moves(entry, next) \/ Evicted(entry, next)

Next ==
    /\ DOMAIN book \subseteq DOMAIN book'
    /\ DOMAIN book' \subseteq RequestId
    /\ \A r \in DOMAIN book' :
          IF r \in DOMAIN book THEN Step(book[r], book'[r]) ELSE Accepted(book'[r])

Spec == Init /\ [][Next]_book

\* Every accepted request reaches a terminal status.
Termination ==
    \A r \in RequestId :
        r \in DOMAIN book ~> r \in DOMAIN book /\ is_terminal(book[r].phase)
===========================================================================
