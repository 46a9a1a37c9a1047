----------------------------- MODULE MCNodeRpc -----------------------------
(***************************************************************************)
(* The node tool's RPC layer for TLC.  A behaviour is one of operations    *)
(* that use no cache, one at a time, under every profile; of two cached    *)
(* operations at once; or of the startup probe.                            *)
(***************************************************************************)
EXTENDS NodeRpc, NodeProbe

CONSTANTS c1, c2

VARIABLE scenario

probe == <<mode, stage, group, candidate, found, refused, ever>>

MCUncached == Operation \ Cached
MCOutcome == Outcome
MCTtl == [which \in Caches |-> 1]
MCCapacity == [which \in Caches |-> IF which = "chain_info" THEN 8 ELSE 1]

\* An endpoint that may lack methods of the operations with several fallbacks.
Fallback ==
    INSTANCE NodeRpc WITH
        Optional <- {"txpool.submit_hex_transaction2", "txpool.submit_hex_transaction",
                     "state.get_account_state", "state.list_resource", "state2.list_resource"}

\* The abi cache holds one entry, of two that are asked for.
Shared ==
    INSTANCE NodeRpc WITH
        VmProfile <- {"vm2_only"}, Op <- {"chain_info", "resolve_module_abi"},
        Exchange <- {o \in Outcome : o.kind = "unreachable" \/ o.content = "full"},
        Key <- {"k1", "k2"}, Optional <- {}, MaxChanges <- 0, MaxTime <- 4

\* Nothing is probed.
ProbeRests ==
    /\ mode = "read_only" /\ stage = "probing" /\ group = 1 /\ candidate = 1
    /\ found = {} /\ refused = FALSE /\ ever = {}

MCInit ==
    \/ scenario = "fallback" /\ Fallback!Init /\ ProbeRests
    \/ scenario = "shared" /\ Shared!Init /\ ProbeRests
    \/ /\ scenario = "startup" /\ ProbeInit
       /\ now = 0 /\ client = [c \in Client |-> Idle] /\ cache = [which \in Caches |-> <<>>]

MCNext ==
    /\ UNCHANGED scenario
    /\ \/ scenario = "fallback" /\ Fallback!Next /\ client'[c2] = Idle /\ UNCHANGED probe
       \/ scenario = "shared" /\ Shared!Next /\ UNCHANGED probe
       \/ scenario = "startup" /\ ProbeNext /\ UNCHANGED <<now, client, cache>>

MCSpec == MCInit /\ [][MCNext]_<<vars, probe, scenario>>
=============================================================================
