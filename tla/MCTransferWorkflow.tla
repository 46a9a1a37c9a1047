------------------------ MODULE MCTransferWorkflow ------------------------
(* Small instances of the transfer runs for TLC: runs that crash, on one or *)
(* two state files; a state file with room for one record; and runs that     *)
(* are left to end.                                                          *)
EXTENDS TransferWorkflow

CONSTANTS r1, r2, file, other

VARIABLE scenario

MCToken == CanonicalStc
MCWithin == {<<t, t>> : t \in MCToken}

Crashing ==
    INSTANCE TransferWorkflow WITH
        MaxPreparedRecords <- 3, MaxUnresolvedRecords <- 3, MaxAborts <- 1,
        LastStart <- 1, MaxTime <- 2

Full ==
    INSTANCE TransferWorkflow WITH
        MaxPreparedRecords <- 1, MaxUnresolvedRecords <- 1, MaxAborts <- 0,
        LastStart <- 1, MaxTime <- 2

Ending ==
    INSTANCE TransferWorkflow WITH
        MaxPreparedRecords <- 3, MaxUnresolvedRecords <- 3, MaxAborts <- 0,
        LastStart <- 0, MaxTime <- 1

OneFile == \A r \in Run : runs[r].path # other

\* The runs are interchangeable.
InOrder == runs[r2].stage # "idle" => runs[r1].stage # "idle"

MCInit == Init /\ scenario \in {"crashing", "full", "ending"}

MCNext ==
    /\ UNCHANGED scenario
    /\ \/ scenario = "crashing" /\ Crashing!Next
       \/ scenario = "full" /\ Full!Next /\ OneFile'
       \/ scenario = "ending" /\ Ending!Next /\ OneFile'
    /\ InOrder'

mcvars == <<vars, scenario>>

Ends(A) == scenario = "ending" /\ UNCHANGED scenario /\ A

\* FairSpec, for the runs that are left to end.
MCSpec ==
    /\ MCInit /\ [][MCNext]_mcvars
    /\ WF_mcvars(Ends(Ending!Tick))
    /\ \A r \in Run : WF_mcvars(Ends(Ending!RunStep(r)))
    /\ \A id \in 0 .. 1 : WF_mcvars(Ends(id \in DOMAIN requests /\ Ending!Expire(id)))

\* Every transfer run ends, whatever the user, the wallet and the chain do or
\* fail to do (EveryRunEnds).
FairRunsEnd == scenario = "ending" => EveryRunEnds
===========================================================================
