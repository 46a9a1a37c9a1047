------------------------- MODULE MCCoordinatorUse -------------------------
(* The coordinator under three kinds of use, each with its own bounds.        *)
EXTENDS MCCoordinator

VARIABLE scenario

\* A wallet of either kind and an extension, which re-register and lose accounts.
Owners ==
    INSTANCE Coordinator WITH
        RequestId <- {r1}, PresentationId <- {"p1"}, Label <- {}, SnapshotInput <- AnyBackend,
        ReasonInput <- {"wallet_locked"}, TtlInput <- {1}, WalletOfflineAfter <- 1,
        MaxTime <- 2, MaxLeases <- 1

\* One client_request_id, retried with other payloads and kinds.
Retries ==
    INSTANCE Coordinator WITH
        SnapshotInput <- LocalComesAndGoes,
        ReasonInput <- {"request_rejected"}, TtlInput <- {1}, WalletOfflineAfter <- 2,
        MaxTime <- 3, MaxLeases <- 1

\* One request, renewed as long as it may be.
Endings ==
    INSTANCE Coordinator WITH
        RequestId <- {r1}, Label <- {}, SnapshotInput <- OneLocal,
        ReasonInput <- {"request_rejected"}, TtlInput <- {2, 3}, WalletOfflineAfter <- 3,
        MaxTime <- 5, MaxLeases <- 3

Asked(kinds, payloads) ==
    \A ack \in acknowledged : ack.call.kind \in kinds /\ ack.call.payload \in payloads
NoneLocked == \A w \in WalletId : instances[w].lock_state # "locked"
SecondWalletAway == ~Registered(w2)

SecondIsExtension == instances[w2].backend_kind # "local_account_dir"

MCInit == Init /\ scenario \in {"owners", "retries", "endings"}

MCNext ==
    /\ UNCHANGED scenario
    /\ \/ /\ scenario = "owners" /\ Owners!Next
          /\ NoneLocked' /\ SecondIsExtension'
          /\ Asked({"sign_message", "create_account"}, {"pay1"})'
       \/ /\ scenario = "retries" /\ Retries!Next
          /\ SecondWalletAway'
          /\ Asked({"sign_message", "sign_transaction"}, Payload)'
       \/ /\ scenario = "endings" /\ Endings!Next
          /\ SecondWalletAway'
          /\ Asked({"sign_message"}, {"pay1"})'

mcvars == <<vars, scenario>>

\* FairSpec, where the clock runs past every lifetime.
MCSpec ==
    /\ MCInit /\ [][MCNext]_mcvars
    /\ WF_mcvars(scenario = "endings" /\ UNCHANGED scenario /\ Endings!TickMaintenance)
    /\ WF_mcvars(scenario = "endings" /\ UNCHANGED scenario /\ Endings!AdvanceClock
                    /\ UNCHANGED <<registryVars, requestVars>>)

\* Every request the coordinator accepted ends, however often its leases are
\* renewed, if tick_maintenance goes on and time passes.
RequestsTerminate == scenario = "endings" => EveryRequestTerminates
============================================================================
