--------------------------- MODULE MCLocalAgent ---------------------------
(* The local agent beside the daemon, in three scenarios for TLC: everything *)
(* on time, everything that can get lost, and an account directory that      *)
(* settles.                                                                  *)
EXTENDS LocalAgent

CONSTANTS w1, r1, r2, c1, c2

VARIABLE scenario

Leases(n) == 1 .. n
BaseLeases == Leases(MaxLeases)

\* Requests of every kind, threads and daemon on time, no call lost.
Timely ==
    INSTANCE LocalAgent WITH
        PresentationId <- Leases(2), MaxLeases <- 2, MaxTime <- 4, TtlInput <- {3},
        MaxApprovals <- 2, MaxChanges <- 1, Lossy <- FALSE, Punctual <- TRUE

\* Two requests, calls and answers lost, the agent killed and started again, and
\* a user who says yes twice, to one of them or to both.
Faulty ==
    INSTANCE LocalAgent WITH
        PresentationId <- Leases(2), MaxLeases <- 2, MaxTime <- 3, TtlInput <- {2},
        MaxApprovals <- 2, MaxChanges <- 0, Lossy <- TRUE, Punctual <- TRUE

\* One request while other programs change the accounts.
Settling ==
    INSTANCE LocalAgent WITH
        PresentationId <- Leases(1), MaxLeases <- 1, MaxTime <- 3, TtlInput <- {2},
        MaxApprovals <- 1, MaxChanges <- 2, Lossy <- FALSE, Punctual <- FALSE

OneRequest == r2 \notin DOMAIN requests
TwoApprovals == approvals[r1] + approvals[r2] <= 2
OnlyKind(kind) ==
    \A r \in DOMAIN requests : requests[r].payload_hash = <<kind, "good">>

\* Requests are interchangeable, and so are the ids callers give them.
InOrder ==
    /\ r2 \in DOMAIN requests => r1 \in DOMAIN requests
    /\ \A r \in DOMAIN requests : requests[r].client_request_id = IF r = r1 THEN c1 ELSE c2

MCInit == AgentInit /\ scenario \in {"timely", "faulty", "settling"}

MCNext ==
    /\ UNCHANGED scenario
    /\ \/ scenario = "timely" /\ Timely!AgentNext /\ OneRequest'
       \/ /\ scenario = "faulty" /\ Faulty!AgentNext
          /\ OnlyKind("create_account")' /\ TwoApprovals'
       \/ scenario = "settling" /\ Settling!AgentNext /\ OneRequest' /\ OnlyKind("sign_message")'
    /\ InOrder'

mcvars == <<vars, agentVars, scenario>>

Settles(A) == scenario = "settling" /\ UNCHANGED scenario /\ A

\* FairAgentSpec, for the directory that settles.
MCSpec ==
    /\ MCInit /\ [][MCNext]_mcvars
    /\ WF_mcvars(Settles(Settling!StartAgent))
    /\ WF_mcvars(Settles(Settling!MainThread))
    /\ WF_mcvars(Settles(Settling!User))
    /\ WF_mcvars(Settles(Settling!HeartbeatThread))
    /\ WF_mcvars(Settles(Settling!DaemonStep))
    /\ WF_mcvars(Settles(Settling!TimePasses))

\* While the threads are on time and no call is lost, the request behind an open
\* prompt still belongs to this agent, and the agent carries a request out at
\* most once and delivers what it did (PromptStaysCurrent, WorkedOnce).
TimelyWorkCounts == scenario = "timely" => PromptStaysCurrent /\ WorkedOnce

\* Once the account directory settles, the lock state the daemon knows becomes
\* that of the directory (LockStateCatchesUp).
SettledLockCatchesUp == scenario = "settling" => LockStateCatchesUp
===========================================================================
