----------------------------- MODULE MCPlugin -----------------------------
(* The plugin's processes for TLC.  A behaviour is either one of commands    *)
(* that start and stop the wallet runtime, or one of scripts that ask a      *)
(* wallet for accounts; the other part stays as it was.                      *)
EXTENDS WalletRuntime, AccountScripts

CONSTANTS s1, s2, w1, w2

VARIABLE part

CommandLine(kind, wallet, id, hint, name, timeout) ==
    [kind |-> kind, wallet |-> wallet, id |-> id, hint |-> hint, name |-> name,
     timeout |-> timeout]

\* Create runs with a key of their own, a shared key, or the default one.
Create ==
    INSTANCE AccountScripts WITH
        Wallet <- {w1}, RuntimeWallet <- w1, Unsteady <- {}, Refusal <- {},
        Arguments <- {CommandLine("create_account", w1, "k", "h", "n", Omitted),
                      CommandLine("create_account", Omitted, Omitted, "h", "m", 1)},
        Ttl <- 1, ResultRetention <- 1, RenameTimeout <- 1, LastStart <- 1, MaxTime <- 1

\* One key with two payloads, and runs that give up at once.
Conflict ==
    INSTANCE AccountScripts WITH
        Wallet <- {w1}, RuntimeWallet <- w1, Unsteady <- {}, Refusal <- {"rejected"},
        Arguments <- {CommandLine("create_account", w1, "k", "h", "n", 0),
                      CommandLine("create_account", w1, "k", "other", Omitted, 1)},
        Ttl <- 1, ResultRetention <- 1, RenameTimeout <- 1, LastStart <- 1, MaxTime <- 1

\* All three commands, while the runtime's wallet comes and goes: the values the
\* constants have themselves.
AllCommands ==
    {CommandLine("import_account", Omitted, Omitted, "h", Omitted, 1),
     CommandLine("export_account", w2, Omitted, "h", Omitted, 1),
     CommandLine("create_account", Omitted, Omitted, "h", Omitted, Omitted)}

\* Runs without a timeout of their own, left to end.
Patient ==
    INSTANCE AccountScripts WITH
        Wallet <- {w1}, RuntimeWallet <- w1, Unsteady <- {w1}, Refusal <- {"rejected"},
        Arguments <- {CommandLine("create_account", w1, "k", "h", "n", Omitted),
                      CommandLine("import_account", w1, Omitted, "h", Omitted, 1)},
        Ttl <- 1, ResultRetention <- 1, RenameTimeout <- 1, LastStart <- 0, MaxTime <- 1

ASSUME Create!ScriptAssumption /\ Conflict!ScriptAssumption /\ Patient!ScriptAssumption

MCInit ==
    /\ Init
    /\ \/ part \in {"runtime", "create"} /\ Create!ScriptInit
       \/ part = "conflict" /\ Conflict!ScriptInit
       \/ part = "commands" /\ ScriptInit
       \/ part = "patient" /\ Patient!ScriptInit

\* The scripts are interchangeable.
InOrder == scripts[s2].stage # "new" => scripts[s1].stage # "new"

MCNext ==
    /\ UNCHANGED part
    /\ \/ part = "runtime" /\ Next /\ UNCHANGED scriptVars
       \/ /\ \/ part = "create" /\ Create!ScriptNext /\ now' <= 2
             \/ part = "conflict" /\ Conflict!ScriptNext
             \/ part = "commands" /\ ScriptNext
             \/ part = "patient" /\ Patient!ScriptNext
          /\ InOrder'
          /\ UNCHANGED vars

mcvars == <<vars, scriptVars, part>>

Waiting(A) == part = "patient" /\ UNCHANGED <<vars, part>> /\ A

\* FairSpec of both modules; of the scripts' parts, for the patient ones.
MCSpec ==
    /\ MCInit /\ [][MCNext]_mcvars
    /\ \A c \in Command : WF_mcvars(part = "runtime" /\ Step(c) /\ UNCHANGED <<scriptVars, part>>)
    /\ \A s \in Script : WF_mcvars(Waiting(Patient!ScriptStep(s)))
    /\ WF_mcvars(Waiting(Patient!Maintenance))
    /\ WF_mcvars(Waiting(Patient!AdvanceClock))
---------------------------------------------------------------------------
\* Nothing of the plugin hangs: every script ends, even if no wallet acts and no
\* timeout was given, and a supervised process that ends takes the other with it,
\* unless the supervisor is killed (ScriptsEnd, DieTogether).
PluginProcessesEnd ==
    /\ part = "patient" => ScriptsEnd
    /\ part = "runtime" => DieTogether
===========================================================================
