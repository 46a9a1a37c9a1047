--------------------------- MODULE WalletRuntime ---------------------------
(***************************************************************************)
(* wallet_runtime.py: `up` starts starmaskd and local-account-agent for    *)
(* one runtime directory and supervises them, `up --replace` first stops   *)
(* the runtime the files name, `down` only stops it.                       *)
(*                                                                         *)
(* A command is an invocation of the script; its processes carry its name. *)
(* A process that ended stays visible to kill(pid, 0) until its supervisor *)
(* waits for it, so stopping one may time out and go on.  Pid numbers are  *)
(* not reused.                                                             *)
(***************************************************************************)
EXTENDS Naturals, Sequences, FiniteSets

CONSTANTS
    Command,               \* invocations
    Nobody,
    MaxKills, MaxCrashes,  \* bounds: supervisors killed, processes that die
    Overlap                \* may a command start while another is at work?

ASSUME RuntimeAssumption ==
    /\ Nobody \notin Command
    /\ {MaxKills, MaxCrashes} \subseteq Nat
    /\ Overlap \in BOOLEAN

VARIABLES
    cmd,     \* what each command is doing
    proc,    \* <<program, command>> -> "none", "running", "ended", "gone"
    bound,   \* commands whose starmaskd has bound its socket
    files,   \* which command wrote each file of the runtime directory
    kills, crashes

vars == <<cmd, proc, bound, files, kills, crashes>>

Program == {"starmaskd", "agent"}
File == {"socket", "starmaskd_pid", "agent_pid", "metadata"}
Process == Program \X Command

\* The order in which stop_runtime, and the finally block, remove the files.
StopOrder == <<"socket", "starmaskd_pid", "agent_pid", "metadata">>
FinallyOrder == <<"starmaskd_pid", "agent_pid", "metadata", "socket">>

At(c, stage) == cmd[c].stage = stage
Goto(c, stage) == cmd' = [cmd EXCEPT ![c].stage = stage]
Guarded == {"wait", "spawn_agent", "starmaskd_pid", "agent_pid", "metadata", "supervise"}
Over == {"exited", "killed"}

running(p) == proc[p] = "running"

\* kill(pid, 0) on what a pid file names.
pid_is_running(program, c) ==
    c # Nobody /\ proc[<<program, c>>] \in {"running", "ended"}

\* A process ends; without its supervisor, init waits for it.
Ended(p) == IF cmd[p[2]].stage \in Over THEN "gone" ELSE "ended"
---------------------------------------------------------------------------
(* Starting a command.                                                     *)

Start(c) ==
    /\ At(c, "idle")
    /\ Overlap \/ \A d \in Command : cmd[d].stage \in {"idle", "supervise"} \cup Over
    /\ \E kind \in {"up", "replace", "down"} :
           cmd' = [cmd EXCEPT ![c].kind = kind,
                              ![c].stage = IF kind = "up" THEN "check" ELSE "status"]
    /\ UNCHANGED <<proc, bound, files, kills, crashes>>

\* up: a runtime whose processes run is left alone.
Check(c) ==
    /\ At(c, "check")
    /\ IF \/ pid_is_running("starmaskd", files["starmaskd_pid"])
          \/ pid_is_running("agent", files["agent_pid"])
       THEN Goto(c, "exited")
       ELSE Goto(c, "spawn")
    /\ UNCHANGED <<proc, bound, files, kills, crashes>>

\* stop_runtime: load_status.
ReadStatus(c) ==
    /\ At(c, "status")
    /\ cmd' = [cmd EXCEPT ![c].stage = "stop_agent",
                          ![c].seen = [starmaskd |-> files["starmaskd_pid"],
                                       agent |-> files["agent_pid"]]]
    /\ UNCHANGED <<proc, bound, files, kills, crashes>>

\* Mutant: SIGTERM is sent and nobody waits for its effect.
terminate_pid_NoWait(program, c) ==
    proc' = proc

\* SIGTERM, then SIGKILL: a process that still runs ends.
terminate_pid(program, c) ==
    LET p == <<program, c>>
    IN  proc' = IF c # Nobody /\ running(p) THEN [proc EXCEPT ![p] = Ended(p)] ELSE proc

StopAgent(c) ==
    /\ At(c, "stop_agent")
    /\ terminate_pid("agent", cmd[c].seen.agent)
    /\ Goto(c, "stop_starmaskd")
    /\ UNCHANGED <<bound, files, kills, crashes>>

StopStarmaskd(c) ==
    /\ At(c, "stop_starmaskd")
    /\ terminate_pid("starmaskd", cmd[c].seen.starmaskd)
    /\ cmd' = [cmd EXCEPT ![c].stage = "remove", ![c].removed = 0]
    /\ UNCHANGED <<bound, files, kills, crashes>>

\* One file at a time, whoever wrote it.
RemoveNext(c, order, after) ==
    LET n == cmd[c].removed + 1
    IN  /\ files' = [files EXCEPT ![order[n]] = Nobody]
        /\ cmd' = [cmd EXCEPT ![c].stage = IF n = Len(order) THEN after ELSE cmd[c].stage,
                              ![c].removed = n % Len(order)]

RemoveFiles(c) ==
    /\ At(c, "remove")
    /\ RemoveNext(c, StopOrder, IF cmd[c].kind = "down" THEN "exited" ELSE "spawn")
    /\ UNCHANGED <<proc, bound, kills, crashes>>
---------------------------------------------------------------------------
(* The two processes.                                                      *)

\* Any socket file is removed, the configuration written, starmaskd started;
\* a program that cannot be started raises before the try block.
SpawnStarmaskd(c) ==
    /\ At(c, "spawn")
    /\ files' = [files EXCEPT !["socket"] = Nobody]
    /\ \/ /\ proc' = [proc EXCEPT ![<<"starmaskd", c>>] = "running"]
          /\ Goto(c, "wait")
       \/ Goto(c, "exited") /\ UNCHANGED proc
    /\ UNCHANGED <<bound, kills, crashes>>

\* run_unix_server: an existing socket file is replaced.
BindSocket(c) ==
    /\ running(<<"starmaskd", c>>)
    /\ c \notin bound
    /\ bound' = bound \cup {c}
    /\ files' = [files EXCEPT !["socket"] = c]
    /\ UNCHANGED <<cmd, proc, kills, crashes>>

socket_reachable ==
    files["socket"] # Nobody /\ running(<<"starmaskd", files["socket"]>>)

\* wait_for_socket; a starmaskd that ended, or ten seconds, raise.
WaitForSocket(c) ==
    /\ At(c, "wait")
    /\ \/ socket_reachable /\ Goto(c, "spawn_agent")
       \/ ~socket_reachable /\ Goto(c, "finally_agent")
    /\ UNCHANGED <<proc, bound, files, kills, crashes>>

SpawnAgent(c) ==
    /\ At(c, "spawn_agent")
    /\ \/ /\ proc' = [proc EXCEPT ![<<"agent", c>>] = "running"]
          /\ Goto(c, "starmaskd_pid")
       \/ Goto(c, "finally_agent") /\ UNCHANGED proc
    /\ UNCHANGED <<bound, files, kills, crashes>>

\* The pid files and wallet-runtime.json are written.
WriteFile(c) ==
    /\ cmd[c].stage \in {"starmaskd_pid", "agent_pid", "metadata"}
    /\ files' = [files EXCEPT ![cmd[c].stage] = c]
    /\ Goto(c, CASE At(c, "starmaskd_pid") -> "agent_pid"
                 [] At(c, "agent_pid")     -> "metadata"
                 [] At(c, "metadata")      -> "supervise")
    /\ UNCHANGED <<proc, bound, kills, crashes>>
---------------------------------------------------------------------------
(* Supervision, and the end of it.                                         *)

\* Mutant: only the daemon is watched.
Supervise_DaemonOnly(c) ==
    /\ At(c, "supervise")
    /\ ~running(<<"starmaskd", c>>)
    /\ Goto(c, "finally_agent")
    /\ UNCHANGED <<proc, bound, files, kills, crashes>>

\* Either process ending ends the loop.
Supervise(c) ==
    /\ At(c, "supervise")
    /\ \E program \in Program : ~running(<<program, c>>)
    /\ Goto(c, "finally_agent")
    /\ UNCHANGED <<proc, bound, files, kills, crashes>>

\* Ctrl-C, and any exception, inside the try block.
Interrupt(c) ==
    /\ cmd[c].stage \in Guarded
    /\ Goto(c, "finally_agent")
    /\ UNCHANGED <<proc, bound, files, kills, crashes>>

\* Mutant: an agent is stopped only while the daemon runs.
FinallyAgent_WithDaemon(c) ==
    /\ At(c, "finally_agent")
    /\ proc' = IF ~running(<<"starmaskd", c>>) THEN proc
               ELSE [proc EXCEPT ![<<"agent", c>>] = IF @ = "none" THEN @ ELSE "gone"]
    /\ Goto(c, "finally_starmaskd")
    /\ UNCHANGED <<bound, files, kills, crashes>>

\* finally: the agent is stopped and waited for, if there is one.
FinallyAgent(c) ==
    /\ At(c, "finally_agent")
    /\ proc' = [proc EXCEPT ![<<"agent", c>>] = IF @ = "none" THEN @ ELSE "gone"]
    /\ Goto(c, "finally_starmaskd")
    /\ UNCHANGED <<bound, files, kills, crashes>>

FinallyStarmaskd(c) ==
    /\ At(c, "finally_starmaskd")
    /\ proc' = [proc EXCEPT ![<<"starmaskd", c>>] = "gone"]
    /\ cmd' = [cmd EXCEPT ![c].stage = "cleanup", ![c].removed = 0]
    /\ UNCHANGED <<bound, files, kills, crashes>>

Cleanup(c) ==
    /\ At(c, "cleanup")
    /\ RemoveNext(c, FinallyOrder, "exited")
    /\ UNCHANGED <<proc, bound, kills, crashes>>

\* The script ends without its finally block (SIGTERM, SIGKILL, hangup).
Kill(c) ==
    /\ cmd[c].stage \notin {"idle"} \cup Over
    /\ kills < MaxKills
    /\ kills' = kills + 1
    /\ Goto(c, "killed")
    /\ proc' = [p \in Process |-> IF p[2] = c /\ proc[p] = "ended" THEN "gone" ELSE proc[p]]
    /\ UNCHANGED <<bound, files, crashes>>

\* A process ends by itself.
Crash(p) ==
    /\ running(p)
    /\ crashes < MaxCrashes
    /\ crashes' = crashes + 1
    /\ proc' = [proc EXCEPT ![p] = Ended(p)]
    /\ UNCHANGED <<cmd, bound, files, kills>>
---------------------------------------------------------------------------
Init ==
    /\ cmd = [c \in Command |-> [stage |-> "idle", kind |-> "none", removed |-> 0,
                                 seen |-> [starmaskd |-> Nobody, agent |-> Nobody]]]
    /\ proc = [p \in Process |-> "none"]
    /\ bound = {}
    /\ files = [f \in File |-> Nobody]
    /\ kills = 0
    /\ crashes = 0

\* What a command does by itself.
Step(c) ==
    \/ Check(c) \/ ReadStatus(c) \/ StopAgent(c) \/ StopStarmaskd(c) \/ RemoveFiles(c)
    \/ SpawnStarmaskd(c) \/ WaitForSocket(c) \/ SpawnAgent(c) \/ WriteFile(c)
    \/ Supervise(c) \/ FinallyAgent(c) \/ FinallyStarmaskd(c) \/ Cleanup(c)

Next ==
    \/ \E c \in Command : Start(c) \/ Step(c) \/ BindSocket(c) \/ Interrupt(c) \/ Kill(c)
    \/ \E p \in Process : Crash(p)

Spec == Init /\ [][Next]_vars

\* A script that is not killed goes on.
FairSpec == Spec /\ \A c \in Command : WF_vars(Step(c))
---------------------------------------------------------------------------
\* No process outlives a supervisor that ended by itself or was interrupted at
\* any point of its try block: the finally block stops whichever were started.
NoOrphans ==
    \A c \in Command : At(c, "exited") =>
        \A program \in Program : ~running(<<program, c>>)

\* Once stop_runtime removes files, what they named when it began has ended,
\* even when the supervisor does not react and the wait times out: a runtime
\* never becomes invisible to `status` and `down` by being stopped halfway.
StoppedBeforeForgotten ==
    \A c \in Command : At(c, "remove") \/ (cmd[c].kind \in {"down", "replace"} /\ At(c, "spawn")) =>
        \A program \in Program :
            cmd[c].seen[program] # Nobody => ~running(<<program, cmd[c].seen[program]>>)

\* A supervised process that ends takes the other with it, unless the
\* supervisor itself is killed.
DieTogether ==
    \A c \in Command :
        (At(c, "supervise") /\ \E program \in Program : ~running(<<program, c>>))
            ~> (At(c, "killed") \/ \A program \in Program : ~running(<<program, c>>))

\* A runtime under supervision can be found: its pid files and metadata name it
\* (docs/architecture/runtime-supervision-tui.md:251).
RunningIsRediscoverable ==
    \A c \in Command :
        At(c, "supervise") /\ (\A program \in Program : running(<<program, c>>)) =>
            \A f \in {"starmaskd_pid", "agent_pid", "metadata"} : files[f] = c
=============================================================================
