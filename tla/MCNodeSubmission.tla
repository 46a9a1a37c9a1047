------------------------- MODULE MCNodeSubmission -------------------------
(* Small instances of the node's transaction tools for TLC.  Each scenario   *)
(* looks at one difficulty with bounds of its own; the constants of the cfg   *)
(* hold for all of them where a scenario does not say otherwise.              *)
EXTENDS NodeSubmission

CONSTANTS c1, c2

VARIABLE scenario

Context(genesis) == [chain_id |-> "dev", network |-> "dev", genesis_hash |-> genesis]

OneChain == {Context("g1")}
\* The same network started afresh: only the genesis tells the chains apart.
TwoChains == {Context("g1"), Context("g2")}

PinNetwork == [chain_id |-> "dev", network |-> "dev", genesis_hash |-> Unpinned,
               require_genesis_hash_match |-> TRUE]

\* A transaction built elsewhere that stays valid for long.
LongLived == {[payload |-> "pay", chain_id |-> "dev", sequence_number |-> 0,
               expiration |-> 9]}

\* Time runs past the retention of an unknown outcome, and callers ask for
\* transactions that outlive it.
Resend ==
    INSTANCE NodeSubmission WITH
        ChainContext <- OneChain, ExternalTxn <- {}, Operation <- {"prepare", "submit"},
        ChainStatusCacheTtl <- 9, ExpirationInput <- {9}, ConfirmationInput <- {Omitted},
        KeyInput <- {TRUE}, BlockingInput <- {FALSE}, LastStart <- 4, MaxTime <- 4,
        MaxHead <- 0, MaxSwitches <- 0

\* The endpoint becomes another node, or loses methods, under the calls.
Identity ==
    INSTANCE NodeSubmission WITH
        ChainContext <- TwoChains, ExternalTxn <- {}, Operation <- {"prepare", "submit"},
        ChainStatusCacheTtl <- 1, ExpirationInput <- {Omitted}, ConfirmationInput <- {Omitted},
        KeyInput <- {TRUE, FALSE}, BlockingInput <- {FALSE}, LastStart <- 1, MaxTime <- 1,
        MaxHead <- 0, MaxSwitches <- 2

\* Blocks come while a transaction is submitted and watched.
Depth ==
    INSTANCE NodeSubmission WITH
        ChainContext <- OneChain, ExternalTxn <- LongLived,
        Operation <- {"simulate", "submit", "watch"},
        ChainStatusCacheTtl <- 1, ExpirationInput <- {Omitted}, ConfirmationInput <- {2},
        KeyInput <- {FALSE}, BlockingInput <- {TRUE, FALSE}, LastStart <- 1, MaxTime <- 2,
        MaxHead <- 2, MaxSwitches <- 0

mcvars == <<vars, scenario>>

MCInit ==
    \/ scenario = "resend" /\ Resend!Init
    \/ scenario = "identity" /\ Identity!Init
    \/ scenario = "depth" /\ Depth!Init

MCNext ==
    /\ UNCHANGED scenario
    /\ \/ scenario = "resend" /\ Resend!Next
       \/ scenario = "identity" /\ Identity!Next
       \/ scenario = "depth" /\ Depth!Next

\* FairSpec, in the scenario that ends in watches.
MCSpec ==
    /\ MCInit /\ [][MCNext]_mcvars
    /\ \A c \in Call :
          WF_mcvars(scenario = "depth" /\ UNCHANGED scenario /\ Depth!CallProgress(c))
    /\ WF_mcvars(scenario = "depth" /\ UNCHANGED scenario /\ Depth!AdvanceClock)

\* Every call of the node's tools returns; a watch stops at its deadline even if
\* the transaction never appears (CallsReturn).
WatchingCallsReturn == scenario = "depth" => CallsReturn
===========================================================================
