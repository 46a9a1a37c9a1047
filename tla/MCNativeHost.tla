--------------------------- MODULE MCNativeHost ---------------------------
(* The native host beside the daemon for TLC: an extension that reconnects,  *)
(* and one connection for as long as it is useful.                           *)
EXTENDS NativeHost

CONSTANTS w1, r1, r2, c1, c2

VARIABLE scenario

Presentations == 1 .. MaxLeases
ExtensionOnly == {ExtensionSnapshot}

Reconnecting == INSTANCE NativeHost WITH MaxConnections <- 2
Lasting == INSTANCE NativeHost WITH MaxConnections <- 1

\* Requests are interchangeable, and so are the ids callers give them.
InOrder ==
    /\ r2 \in DOMAIN requests => r1 \in DOMAIN requests
    /\ \A r \in DOMAIN requests : requests[r].client_request_id = IF r = r1 THEN c1 ELSE c2

MCInit == HostInit /\ scenario \in {"reconnecting", "lasting"}

MCNext ==
    /\ UNCHANGED scenario
    /\ \/ scenario = "reconnecting" /\ Reconnecting!HostNext
       \/ scenario = "lasting" /\ Lasting!HostNext
    /\ InOrder'

mcvars == <<vars, hostVars, scenario>>

Lasts(A) == scenario = "lasting" /\ UNCHANGED scenario /\ A

\* FairHostSpec, for the connection that lasts.
MCSpec ==
    /\ MCInit /\ [][MCNext]_mcvars
    /\ WF_mcvars(Lasts(Lasting!Connect))
    /\ SF_mcvars(Lasts(Lasting!Pull))
    /\ SF_mcvars(Lasts(Lasting!ReadHint))
    /\ WF_mcvars(Lasts(Lasting!MainStep))
    /\ WF_mcvars(Lasts(Lasting!PollerStep))
    /\ SF_mcvars(Lasts(Lasting!AskAvailable))
    /\ SF_mcvars(Lasts(Lasting!AskStatus))

\* While a connection lasts and both threads of the native host go on, the
\* extension learns of everything: it sees the work that waits for it, a hint
\* lost between poll and pull being made up for, and the poller announces the
\* cancellation of a request it shows (WorkIsSeen, CancelledIsAnnounced).
LastingHostTells == scenario = "lasting" => WorkIsSeen /\ CancelledIsAnnounced
===========================================================================
