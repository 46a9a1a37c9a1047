--------------------------- MODULE RuntimeProofs ---------------------------
(***************************************************************************)
(* What the supervisor script promises about the processes it starts and   *)
(* stops, for any number of overlapping commands, kills and crashes; and   *)
(* what the scripts that ask for accounts promise about what they report,  *)
(* for any number of scripts and wallets.                                  *)
(***************************************************************************)
EXTENDS WalletRuntime, AccountScripts, TLAPS

Stage == {"idle", "check", "status", "stop_agent", "stop_starmaskd", "remove", "spawn",
          "wait", "spawn_agent", "starmaskd_pid", "agent_pid", "metadata", "supervise",
          "finally_agent", "finally_starmaskd", "cleanup", "exited", "killed"}
Seen == [starmaskd : Command \cup {Nobody}, agent : Command \cup {Nobody}]

\* The range of every variable.
CmdRow == [stage : Stage, kind : {"none", "up", "replace", "down"}, removed : 0 .. 3,
           seen : Seen]
CmdTypeOK == cmd \in [Command -> CmdRow]
RuntimeTypeOK ==
    /\ CmdTypeOK
    /\ proc \in [Process -> {"none", "running", "ended", "gone"}]
    /\ bound \subseteq Command
    /\ files \in [File -> Command \cup {Nobody}]
    /\ kills \in Nat /\ crashes \in Nat

\* The processes of a command.
Daemon(c) == proc[<<"starmaskd", c>>]
Agent(c) == proc[<<"agent", c>>]

BeforeStarmaskd == {"idle", "check", "status", "stop_agent", "stop_starmaskd", "remove", "spawn"}
BeforeAgent == BeforeStarmaskd \cup {"wait", "spawn_agent"}
Naming == {"starmaskd_pid", "agent_pid", "metadata"}
Started == {"wait", "spawn_agent", "supervise", "finally_agent", "finally_starmaskd"}

\* Where a command stands tells which of its processes exist.
StageTells ==
    \A c \in Command :
        /\ cmd[c].stage \in BeforeStarmaskd => Daemon(c) = "none"
        /\ cmd[c].stage \in BeforeAgent => Agent(c) = "none"
        /\ cmd[c].stage \in Naming \cup Started => Daemon(c) # "none"
        /\ cmd[c].stage \in Naming => Agent(c) # "none"
        /\ cmd[c].stage \in {"finally_starmaskd", "cleanup", "exited"} => Agent(c) # "running"
        /\ cmd[c].stage \in {"cleanup", "exited"} => Daemon(c) # "running"

\* A pid is named, in a file or in what stop_runtime read, only once its
\* process has been started; so no process that was named starts later.
NamedWasStarted ==
    /\ files["starmaskd_pid"] # Nobody => Daemon(files["starmaskd_pid"]) # "none"
    /\ files["agent_pid"] # Nobody => Agent(files["agent_pid"]) # "none"
    /\ \A c \in Command :
          /\ cmd[c].seen.starmaskd # Nobody => Daemon(cmd[c].seen.starmaskd) # "none"
          /\ cmd[c].seen.agent # Nobody => Agent(cmd[c].seen.agent) # "none"

\* What stop_runtime has dealt with has ended.
AgentStopped(c) == cmd[c].seen.agent # Nobody => Agent(cmd[c].seen.agent) # "running"
DaemonStopped(c) == cmd[c].seen.starmaskd # Nobody => Daemon(cmd[c].seen.starmaskd) # "running"
StopsInOrder ==
    \A c \in Command :
        /\ cmd[c].stage = "check" => cmd[c].kind = "up"
        /\ cmd[c].stage \in {"stop_starmaskd", "remove"} => AgentStopped(c)
        /\ cmd[c].stage = "remove" => DaemonStopped(c)
        /\ cmd[c].stage = "spawn" /\ cmd[c].kind \in {"down", "replace"} =>
               AgentStopped(c) /\ DaemonStopped(c)

RuntimeInv == RuntimeTypeOK /\ StageTells /\ NamedWasStarted /\ StopsInOrder
----------------------------------------------------------------------------
(* What a step does to one command and leaves of the others.               *)

StageGoes(c, stage) ==
    \A d \in Command : cmd'[d].stage = IF d = c THEN stage ELSE cmd[d].stage
KindsKept == \A d \in Command : cmd'[d].kind = cmd[d].kind
SeenKept ==
    \A d \in Command :
        cmd'[d].seen.starmaskd = cmd[d].seen.starmaskd /\ cmd'[d].seen.agent = cmd[d].seen.agent
DaemonGoes(c, state) == \A d \in Command : Daemon(d)' = IF d = c THEN state ELSE Daemon(d)
AgentGoes(c, state) == \A d \in Command : Agent(d)' = IF d = c THEN state ELSE Agent(d)
DaemonsKept == \A d \in Command : Daemon(d)' = Daemon(d)
AgentsKept == \A d \in Command : Agent(d)' = Agent(d)
OnlyEnds ==
    \A d \in Command :
        /\ Daemon(d)' = Daemon(d) \/ (Daemon(d) # "none" /\ Daemon(d)' \in {"ended", "gone"})
        /\ Agent(d)' = Agent(d) \/ (Agent(d) # "none" /\ Agent(d)' \in {"ended", "gone"})
PidsKept ==
    \A f \in {"starmaskd_pid", "agent_pid"} : files'[f] = files[f] \/ files'[f] = Nobody

\* The range of the names.
LEMMA Names ==
    ASSUME RuntimeTypeOK
    PROVE  /\ files["starmaskd_pid"] \in Command \cup {Nobody}
           /\ files["agent_pid"] \in Command \cup {Nobody}
           /\ \A c \in Command : /\ cmd[c].seen.starmaskd \in Command \cup {Nobody}
                                 /\ cmd[c].seen.agent \in Command \cup {Nobody}
  BY DEF RuntimeTypeOK, CmdTypeOK, CmdRow, Seen, File

\* Processes that only end stay stopped, and a command that moves past the stop
\* sequence keeps its order (stop_runtime).
LEMMA OrderKept ==
    ASSUME RuntimeInv, SeenKept, KindsKept, OnlyEnds \/ (DaemonsKept /\ AgentsKept),
           NEW c \in Command, NEW stage, StageGoes(c, stage),
           stage \notin {"check", "stop_starmaskd", "remove", "spawn"}
    PROVE  StopsInOrder'
  <1>1. OnlyEnds
    BY Zenon DEF OnlyEnds, DaemonsKept, AgentsKept
  <1>2. ASSUME NEW d \in Command
        PROVE  /\ AgentStopped(d) => AgentStopped(d)'
               /\ DaemonStopped(d) => DaemonStopped(d)'
    <2>1. /\ cmd[d].seen.agent \in Command \cup {Nobody}
          /\ cmd[d].seen.starmaskd \in Command \cup {Nobody}
      BY Names, Zenon DEF RuntimeInv
    <2>2. /\ cmd'[d].seen.agent = cmd[d].seen.agent
          /\ cmd'[d].seen.starmaskd = cmd[d].seen.starmaskd
      BY Zenon DEF SeenKept
    <2>3. \A e \in Command : /\ Agent(e) # "running" => Agent(e)' # "running"
                             /\ Daemon(e) # "running" => Daemon(e)' # "running"
      BY <1>1 DEF OnlyEnds
    <2>4. AgentStopped(d) => AgentStopped(d)'
      BY <2>1, <2>2, <2>3, Zenon DEF AgentStopped, Agent
    <2>5. DaemonStopped(d) => DaemonStopped(d)'
      BY <2>1, <2>2, <2>3, Zenon DEF DaemonStopped, Daemon
    <2> QED BY <2>4, <2>5, Zenon
  <1> QED BY <1>2, Zenon DEF RuntimeInv, StopsInOrder, StageGoes, KindsKept

\* One entry of the table of processes changes.
LEMMA ProcessChanges ==
    ASSUME RuntimeTypeOK, NEW c \in Command, NEW state
    PROVE  /\ proc' = [proc EXCEPT ![<<"starmaskd", c>>] = state] =>
                  DaemonGoes(c, state) /\ AgentsKept
           /\ proc' = [proc EXCEPT ![<<"agent", c>>] = state] =>
                  AgentGoes(c, state) /\ DaemonsKept
           /\ proc' = proc => DaemonsKept /\ AgentsKept
  <1>1. \A d \in Command : <<"starmaskd", d>> \in DOMAIN proc /\ <<"agent", d>> \in DOMAIN proc
    BY DEF RuntimeTypeOK, Process, Program
  <1>2. \A d \in Command : /\ <<"starmaskd", d>> # <<"agent", c>>
                           /\ <<"agent", d>> # <<"starmaskd", c>>
                           /\ d # c => <<"starmaskd", d>> # <<"starmaskd", c>>
                           /\ d # c => <<"agent", d>> # <<"agent", c>>
    OBVIOUS
  <1>3. ASSUME proc' = [proc EXCEPT ![<<"starmaskd", c>>] = state]
        PROVE  DaemonGoes(c, state) /\ AgentsKept
    BY <1>1, <1>2, <1>3, Zenon DEF DaemonGoes, AgentsKept, Daemon, Agent
  <1>4. ASSUME proc' = [proc EXCEPT ![<<"agent", c>>] = state]
        PROVE  AgentGoes(c, state) /\ DaemonsKept
    BY <1>1, <1>2, <1>4, Zenon DEF AgentGoes, DaemonsKept, Daemon, Agent
  <1>5. ASSUME proc' = proc PROVE DaemonsKept /\ AgentsKept
    BY <1>5 DEF DaemonsKept, AgentsKept, Daemon, Agent
  <1> QED BY <1>3, <1>4, <1>5

\* A step that gives a command a new record.
LEMMA CmdPut ==
    ASSUME CmdTypeOK, NEW c \in Command, NEW row \in CmdRow, cmd' = [cmd EXCEPT ![c] = row]
    PROVE  CmdTypeOK'
  BY Zenon DEF CmdTypeOK

\* A step that only moves a command on.
LEMMA MovesOn ==
    ASSUME RuntimeTypeOK, NEW c \in Command, NEW stage \in Stage, Goto(c, stage)
    PROVE  CmdTypeOK' /\ StageGoes(c, stage) /\ KindsKept /\ SeenKept
  BY DEF RuntimeTypeOK, CmdTypeOK, CmdRow, Goto, StageGoes, KindsKept, SeenKept, Seen

\* A step that moves a command on and sets its counter.
LEMMA CountsOn ==
    ASSUME RuntimeTypeOK, NEW c \in Command, NEW stage \in Stage, NEW n \in 0 .. 3,
           cmd' = [cmd EXCEPT ![c].stage = stage, ![c].removed = n]
    PROVE  CmdTypeOK' /\ StageGoes(c, stage) /\ KindsKept /\ SeenKept
  <1>1. CmdTypeOK'
    <2> DEFINE row == [cmd[c] EXCEPT !.stage = stage, !.removed = n]
    <2>1. CmdTypeOK /\ cmd[c] \in CmdRow
      BY Zenon DEF RuntimeTypeOK, CmdTypeOK
    <2>2. row \in CmdRow
      BY <2>1, Zenon DEF CmdRow
    <2>3. cmd' = [cmd EXCEPT ![c] = row]
      BY Zenon
    <2> QED BY <2>1, <2>2, <2>3, CmdPut, Zenon
  <1>2. StageGoes(c, stage) /\ KindsKept /\ SeenKept
    BY DEF RuntimeTypeOK, CmdTypeOK, StageGoes, KindsKept, SeenKept, Seen
  <1> QED BY <1>1, <1>2

\* A file is removed and the command counts it.
LEMMA Removes ==
    ASSUME RuntimeTypeOK, NEW c \in Command, NEW order, Len(order) = 4, NEW after \in Stage,
           RemoveNext(c, order, after)
    PROVE  /\ CmdTypeOK' /\ files' \in [File -> Command \cup {Nobody}]
           /\ StageGoes(c, cmd[c].stage) \/ StageGoes(c, after)
           /\ KindsKept /\ SeenKept /\ PidsKept
  <1>1. cmd[c].removed + 1 \in 1 .. 4 /\ (cmd[c].removed + 1) % 4 \in 0 .. 3
    BY DEF RuntimeTypeOK, CmdTypeOK, CmdRow
  <1>2. PICK stage \in {cmd[c].stage, after}, n \in 0 .. 3 :
            cmd' = [cmd EXCEPT ![c].stage = stage, ![c].removed = n]
    BY <1>1, Zenon DEF RemoveNext
  <1>3. stage \in Stage
    BY DEF RuntimeTypeOK, CmdTypeOK, CmdRow
  <1>4. CmdTypeOK' /\ StageGoes(c, stage) /\ KindsKept /\ SeenKept
    BY <1>2, <1>3, CountsOn, Zenon
  <1>5. files' \in [File -> Command \cup {Nobody}] /\ PidsKept
    BY Zenon DEF RemoveNext, RuntimeTypeOK, PidsKept, File
  <1> QED BY <1>2, <1>4, <1>5

\* The invariant holds before any command runs.
LEMMA RuntimeInit == Init => RuntimeInv
  <1> SUFFICES ASSUME Init PROVE RuntimeInv
    OBVIOUS
  <1>1. RuntimeTypeOK
    BY DEF Init, RuntimeTypeOK, CmdTypeOK, CmdRow, Stage, Seen
  <1>2. StageTells
    BY DEF Init, StageTells, Daemon, Agent, Process, Program, BeforeStarmaskd, BeforeAgent,
       Naming, Started
  <1>3. NamedWasStarted /\ StopsInOrder
    BY DEF Init, NamedWasStarted, StopsInOrder, AgentStopped, DaemonStopped, File
  <1> QED BY <1>1, <1>2, <1>3 DEF RuntimeInv

\* A process that runs is ended by terminate_pid.
LEMMA Terminates ==
    ASSUME RuntimeTypeOK, NEW c \in Command \cup {Nobody}, NEW program \in Program,
           terminate_pid(program, c)
    PROVE  /\ proc' \in [Process -> {"none", "running", "ended", "gone"}]
           /\ OnlyEnds
           /\ c # Nobody => proc'[<<program, c>>] # "running"
  <1>1. CASE c # Nobody /\ running(<<program, c>>)
    <2>1. <<program, c>> \in Process
      BY <1>1 DEF Process
    <2>2. PICK ended \in {"ended", "gone"} : proc' = [proc EXCEPT ![<<program, c>>] = ended]
      BY <1>1, Zenon DEF terminate_pid, Ended
    <2>3. CASE program = "starmaskd"
      BY <1>1, <2>1, <2>2, <2>3, ProcessChanges, Zenon
      DEF RuntimeTypeOK, OnlyEnds, DaemonGoes, AgentsKept, running, Daemon
    <2>4. CASE program = "agent"
      BY <1>1, <2>1, <2>2, <2>4, ProcessChanges, Zenon
      DEF RuntimeTypeOK, OnlyEnds, AgentGoes, DaemonsKept, running, Agent
    <2> QED BY <2>3, <2>4 DEF Program
  <1>2. CASE ~(c # Nobody /\ running(<<program, c>>))
    BY <1>2 DEF terminate_pid, RuntimeTypeOK, OnlyEnds, running, Daemon, Agent
  <1> QED BY <1>1, <1>2

\* A command begins.
LEMMA StartKeeps == ASSUME RuntimeInv, NEW c \in Command, Start(c) PROVE RuntimeInv'
  <1>1. PICK kind \in {"up", "replace", "down"} :
            cmd' = [cmd EXCEPT ![c].kind = kind,
                               ![c].stage = IF kind = "up" THEN "check" ELSE "status"]
    BY Zenon DEF Start
  <1> DEFINE stage == IF kind = "up" THEN "check" ELSE "status"
  <1>2. stage \in Stage /\ stage \in {"check", "status"} /\ (stage = "check" => kind = "up")
    BY DEF Stage
  <1> HIDE DEF stage
  <1>3. cmd' = [cmd EXCEPT ![c].kind = kind, ![c].stage = stage]
    BY <1>1 DEF stage
  <1>4. CmdTypeOK'
    <2> DEFINE row == [cmd[c] EXCEPT !.kind = kind, !.stage = stage]
    <2>1. CmdTypeOK /\ cmd[c] \in CmdRow
      BY Zenon DEF RuntimeInv, RuntimeTypeOK, CmdTypeOK
    <2>2. row \in CmdRow
      BY <1>2, <2>1, Zenon DEF CmdRow
    <2>3. cmd' = [cmd EXCEPT ![c] = row]
      BY <1>3, Zenon
    <2> QED BY <2>1, <2>2, <2>3, CmdPut, Zenon
  <1>5. RuntimeTypeOK'
    BY <1>4 DEF RuntimeInv, RuntimeTypeOK, Start
  <1>6. /\ StageGoes(c, stage) /\ SeenKept
        /\ \A d \in Command : cmd'[d].kind = IF d = c THEN kind ELSE cmd[d].kind
    BY <1>3 DEF RuntimeInv, RuntimeTypeOK, CmdTypeOK, Seen, StageGoes, SeenKept
  <1>7. At(c, "idle") /\ DaemonsKept /\ AgentsKept /\ PidsKept
    BY DEF RuntimeInv, Start, PidsKept, DaemonsKept, AgentsKept, Daemon, Agent
  <1>8. /\ RuntimeTypeOK' /\ At(c, "idle") /\ stage \in {"check", "status"}
        /\ stage = "check" => kind = "up"
        /\ StageGoes(c, stage)
        /\ \A d \in Command : cmd'[d].kind = IF d = c THEN kind ELSE cmd[d].kind
        /\ SeenKept /\ DaemonsKept /\ AgentsKept /\ PidsKept
    BY <1>2, <1>5, <1>6, <1>7
  <1>9. StageTells'
    BY <1>8 DEF RuntimeInv, StageTells, BeforeStarmaskd, BeforeAgent, Naming, Started, At,
       StageGoes, KindsKept, SeenKept, PidsKept, DaemonsKept, AgentsKept
  <1>10. NamedWasStarted'
    BY <1>8, Names DEF RuntimeInv, NamedWasStarted, At, StageGoes, KindsKept, SeenKept,
       PidsKept, DaemonsKept, AgentsKept
  <1>11. StopsInOrder'
    BY <1>8, Names DEF RuntimeInv, StopsInOrder, AgentStopped, DaemonStopped, At, StageGoes,
       KindsKept, SeenKept, PidsKept, DaemonsKept, AgentsKept
  <1> QED BY <1>8, <1>9, <1>10, <1>11 DEF RuntimeInv

\* The pid files are read.
LEMMA ReadStatusKeeps == ASSUME RuntimeInv, NEW c \in Command, ReadStatus(c) PROVE RuntimeInv'
  <1>1. /\ RuntimeTypeOK' /\ At(c, "status") /\ StageGoes(c, "stop_agent") /\ KindsKept
        /\ \A d \in Command :
              /\ cmd'[d].seen.starmaskd
                     = IF d = c THEN files["starmaskd_pid"] ELSE cmd[d].seen.starmaskd
              /\ cmd'[d].seen.agent = IF d = c THEN files["agent_pid"] ELSE cmd[d].seen.agent
        /\ DaemonsKept /\ AgentsKept /\ PidsKept
    <2>1. [starmaskd |-> files["starmaskd_pid"], agent |-> files["agent_pid"]] \in Seen
      BY Names DEF RuntimeInv, Seen
    <2>2. PICK seen \in Seen :
              /\ seen.starmaskd = files["starmaskd_pid"] /\ seen.agent = files["agent_pid"]
              /\ cmd' = [cmd EXCEPT ![c].stage = "stop_agent", ![c].seen = seen]
      BY <2>1, Zenon DEF ReadStatus
    <2>3. "stop_agent" \in Stage /\ At(c, "status")
      BY DEF Stage, ReadStatus
    <2>4. CmdTypeOK'
      <3> DEFINE row == [cmd[c] EXCEPT !.stage = "stop_agent", !.seen = seen]
      <3>1. CmdTypeOK /\ cmd[c] \in CmdRow
        BY Zenon DEF RuntimeInv, RuntimeTypeOK, CmdTypeOK
      <3>2. row \in CmdRow
        BY <2>3, <3>1, Zenon DEF CmdRow
      <3>3. cmd' = [cmd EXCEPT ![c] = row]
        BY <2>2, Zenon
      <3> QED BY <3>1, <3>2, <3>3, CmdPut, Zenon
    <2>5. /\ StageGoes(c, "stop_agent") /\ KindsKept
          /\ \A d \in Command : cmd'[d].seen = IF d = c THEN seen ELSE cmd[d].seen
      BY <2>2 DEF RuntimeInv, RuntimeTypeOK, CmdTypeOK, StageGoes, KindsKept
    <2>6. RuntimeTypeOK' /\ DaemonsKept /\ AgentsKept /\ PidsKept
      BY <2>4 DEF RuntimeInv, RuntimeTypeOK, ReadStatus, PidsKept, DaemonsKept, AgentsKept,
         Daemon, Agent
    <2>7. ASSUME NEW d \in Command
          PROVE  /\ cmd'[d].seen.starmaskd
                        = IF d = c THEN files["starmaskd_pid"] ELSE cmd[d].seen.starmaskd
                 /\ cmd'[d].seen.agent = IF d = c THEN files["agent_pid"] ELSE cmd[d].seen.agent
      <3>1. CASE d = c
        BY <2>2, <2>5, <3>1, Zenon
      <3>2. CASE d # c
        BY <2>5, <3>2
      <3> QED BY <3>1, <3>2
    <2> QED BY <2>3, <2>5, <2>6, <2>7, Zenon
  <1>2. StageTells'
    BY <1>1 DEF RuntimeInv, StageTells, BeforeStarmaskd, BeforeAgent, Naming, Started, At,
       StageGoes, KindsKept, SeenKept, PidsKept, DaemonsKept, AgentsKept
  <1>3. NamedWasStarted'
    BY <1>1, Names DEF RuntimeInv, NamedWasStarted, At, StageGoes, KindsKept, SeenKept,
       PidsKept, DaemonsKept, AgentsKept
  <1>4. StopsInOrder'
    BY <1>1, Names DEF RuntimeInv, StopsInOrder, AgentStopped, DaemonStopped, At, StageGoes,
       KindsKept, SeenKept, PidsKept, DaemonsKept, AgentsKept
  <1> QED BY <1>1, <1>2, <1>3, <1>4 DEF RuntimeInv

\* A runtime is found or not.
LEMMA CheckKeeps == ASSUME RuntimeInv, NEW c \in Command, Check(c) PROVE RuntimeInv'
  <1>1. /\ RuntimeTypeOK' /\ At(c, "check")
        /\ StageGoes(c, "exited") \/ StageGoes(c, "spawn")
        /\ KindsKept /\ SeenKept /\ DaemonsKept /\ AgentsKept /\ PidsKept
    BY MovesOn, ProcessChanges, Zenon DEF RuntimeInv, RuntimeTypeOK, Check, Stage, PidsKept
  <1>2. StageTells'
    BY <1>1 DEF RuntimeInv, StageTells, BeforeStarmaskd, BeforeAgent, Naming, Started, At,
       StageGoes, KindsKept, SeenKept, PidsKept, DaemonsKept, AgentsKept
  <1>3. NamedWasStarted'
    BY <1>1, Names DEF RuntimeInv, StageTells, NamedWasStarted, BeforeStarmaskd,
       BeforeAgent, Naming, Started, At, StageGoes, KindsKept, SeenKept, PidsKept,
       DaemonsKept, AgentsKept
  <1>4. StopsInOrder'
    BY <1>1, Names DEF RuntimeInv, StageTells, NamedWasStarted, StopsInOrder, AgentStopped,
       DaemonStopped, BeforeStarmaskd, BeforeAgent, At, StageGoes, KindsKept, SeenKept,
          PidsKept, DaemonsKept, AgentsKept
  <1> QED BY <1>1, <1>2, <1>3, <1>4 DEF RuntimeInv

\* The socket can be reached or not.
LEMMA WaitForSocketKeeps ==
    ASSUME RuntimeInv, NEW c \in Command, WaitForSocket(c) PROVE RuntimeInv'
  <1>1. /\ RuntimeTypeOK' /\ At(c, "wait")
        /\ StageGoes(c, "spawn_agent") \/ StageGoes(c, "finally_agent")
        /\ KindsKept /\ SeenKept /\ DaemonsKept /\ AgentsKept /\ PidsKept
    BY MovesOn, ProcessChanges, Zenon DEF RuntimeInv, RuntimeTypeOK, WaitForSocket, Stage, PidsKept
  <1>2. StageTells'
    BY <1>1 DEF RuntimeInv, StageTells, BeforeStarmaskd, BeforeAgent, Naming, Started, At,
       StageGoes, KindsKept, SeenKept, PidsKept, DaemonsKept, AgentsKept
  <1>3. NamedWasStarted'
    BY <1>1, Names DEF RuntimeInv, StageTells, NamedWasStarted, BeforeStarmaskd,
       BeforeAgent, Naming, Started, At, StageGoes, KindsKept, SeenKept, PidsKept,
       DaemonsKept, AgentsKept
  <1>4. StopsInOrder'
    BY <1>1, Names DEF RuntimeInv, StageTells, NamedWasStarted, StopsInOrder, AgentStopped,
       DaemonStopped, BeforeStarmaskd, BeforeAgent, At, StageGoes, KindsKept, SeenKept,
          PidsKept, DaemonsKept, AgentsKept
  <1> QED BY <1>1, <1>2, <1>3, <1>4 DEF RuntimeInv

\* A process has ended.
LEMMA SuperviseKeeps == ASSUME RuntimeInv, NEW c \in Command, Supervise(c) PROVE RuntimeInv'
  <1>1. /\ RuntimeTypeOK' /\ At(c, "supervise")
        /\ StageGoes(c, "finally_agent")
        /\ KindsKept /\ SeenKept /\ DaemonsKept /\ AgentsKept /\ PidsKept
    BY MovesOn, ProcessChanges, Zenon DEF RuntimeInv, RuntimeTypeOK, Supervise, Stage, PidsKept
  <1>2. StageTells'
    BY <1>1 DEF RuntimeInv, StageTells, BeforeStarmaskd, BeforeAgent, Naming, Started, At,
       StageGoes, KindsKept, SeenKept, PidsKept, DaemonsKept, AgentsKept
  <1>3. NamedWasStarted'
    BY <1>1, Names DEF RuntimeInv, StageTells, NamedWasStarted, BeforeStarmaskd,
       BeforeAgent, Naming, Started, At, StageGoes, KindsKept, SeenKept, PidsKept,
       DaemonsKept, AgentsKept
  <1>4. StopsInOrder'
    BY <1>1, Names DEF RuntimeInv, StageTells, NamedWasStarted, StopsInOrder, AgentStopped,
       DaemonStopped, BeforeStarmaskd, BeforeAgent, At, StageGoes, KindsKept, SeenKept,
          PidsKept, DaemonsKept, AgentsKept
  <1> QED BY <1>1, <1>2, <1>3, <1>4 DEF RuntimeInv

\* The try block is left early.
LEMMA InterruptKeeps == ASSUME RuntimeInv, NEW c \in Command, Interrupt(c) PROVE RuntimeInv'
  <1>1. /\ RuntimeTypeOK' /\ cmd[c].stage \in Guarded
        /\ StageGoes(c, "finally_agent")
        /\ KindsKept /\ SeenKept /\ DaemonsKept /\ AgentsKept /\ PidsKept
    BY MovesOn, ProcessChanges, Zenon DEF RuntimeInv, RuntimeTypeOK, Interrupt, Stage, PidsKept, Guarded
  <1>2. StageTells'
    BY <1>1 DEF RuntimeInv, StageTells, BeforeStarmaskd, BeforeAgent, Naming, Started, At,
       StageGoes, KindsKept, SeenKept, PidsKept, DaemonsKept, AgentsKept, Guarded
  <1>3. NamedWasStarted'
    BY <1>1, Names DEF RuntimeInv, StageTells, NamedWasStarted, BeforeStarmaskd,
       BeforeAgent, Naming, Started, At, StageGoes, KindsKept, SeenKept, PidsKept,
       DaemonsKept, AgentsKept, Guarded
  <1>4. StopsInOrder'
    BY <1>1, Names DEF RuntimeInv, StageTells, NamedWasStarted, StopsInOrder, AgentStopped,
       DaemonStopped, BeforeStarmaskd, BeforeAgent, At, StageGoes, KindsKept, SeenKept,
          PidsKept, DaemonsKept, AgentsKept, Guarded
  <1> QED BY <1>1, <1>2, <1>3, <1>4, Zenon DEF RuntimeInv

\* stop_runtime ends the agent it read.
LEMMA StopAgentKeeps == ASSUME RuntimeInv, NEW c \in Command, StopAgent(c) PROVE RuntimeInv'
  <1>1. /\ RuntimeTypeOK' /\ At(c, "stop_agent") /\ StageGoes(c, "stop_starmaskd")
        /\ KindsKept /\ SeenKept /\ PidsKept /\ OnlyEnds /\ AgentStopped(c)'
    BY MovesOn, Terminates, Names, Zenon
    DEF RuntimeInv, RuntimeTypeOK, StopAgent, Stage, PidsKept, Program, AgentStopped, Agent,
       SeenKept
  <1>2. StageTells'
    BY <1>1 DEF RuntimeInv, StageTells, BeforeStarmaskd, BeforeAgent, Naming, Started, At,
       StageGoes, KindsKept, SeenKept, PidsKept, OnlyEnds
  <1>3. NamedWasStarted'
    BY <1>1, Names DEF RuntimeInv, StageTells, NamedWasStarted, BeforeStarmaskd,
       BeforeAgent, Naming, Started, At, StageGoes, KindsKept, SeenKept, PidsKept, OnlyEnds
  <1>4. StopsInOrder'
    BY <1>1, Names DEF RuntimeInv, StageTells, NamedWasStarted, StopsInOrder, AgentStopped,
       DaemonStopped, BeforeStarmaskd, BeforeAgent, At, StageGoes, KindsKept, SeenKept,
          PidsKept, OnlyEnds
  <1> QED BY <1>1, <1>2, <1>3, <1>4 DEF RuntimeInv

\* stop_runtime ends the daemon it read.
LEMMA StopStarmaskdKeeps ==
    ASSUME RuntimeInv, NEW c \in Command, StopStarmaskd(c) PROVE RuntimeInv'
  <1>1. CmdTypeOK' /\ At(c, "stop_starmaskd") /\ StageGoes(c, "remove") /\ KindsKept /\ SeenKept
    <2>1. "remove" \in Stage /\ 0 \in 0 .. 3
      BY DEF Stage
    <2>2. cmd' = [cmd EXCEPT ![c].stage = "remove", ![c].removed = 0] /\ At(c, "stop_starmaskd")
      BY DEF StopStarmaskd
    <2> QED BY <2>1, <2>2, CountsOn, Zenon DEF RuntimeInv
  <1>2. /\ RuntimeTypeOK' /\ PidsKept /\ OnlyEnds /\ DaemonStopped(c)'
    BY <1>1, Terminates, Names, Zenon
    DEF RuntimeInv, RuntimeTypeOK, StopStarmaskd, PidsKept, Program, DaemonStopped, Daemon,
       SeenKept
  <1>3. StageTells'
    BY <1>1, <1>2 DEF RuntimeInv, StageTells, BeforeStarmaskd, BeforeAgent, Naming, Started,
       At, StageGoes, KindsKept, SeenKept, PidsKept, OnlyEnds
  <1>4. NamedWasStarted'
    BY <1>1, <1>2, Names DEF RuntimeInv, NamedWasStarted, At, StageGoes, KindsKept,
       SeenKept, PidsKept, OnlyEnds
  <1>5. StopsInOrder'
    BY <1>1, <1>2, Names DEF RuntimeInv, StopsInOrder, AgentStopped, DaemonStopped, At,
       StageGoes, KindsKept, SeenKept, PidsKept, OnlyEnds
  <1> QED BY <1>2, <1>3, <1>4, <1>5, Zenon DEF RuntimeInv

\* stop_runtime removes a file.
LEMMA RemoveFilesKeeps == ASSUME RuntimeInv, NEW c \in Command, RemoveFiles(c) PROVE RuntimeInv'
  <1>1. Len(StopOrder) = 4
    BY DEF StopOrder
  <1>2. /\ RuntimeTypeOK' /\ At(c, "remove")
        /\ StageGoes(c, "remove") \/ StageGoes(c, "exited") \/ StageGoes(c, "spawn")
        /\ KindsKept /\ SeenKept /\ DaemonsKept /\ AgentsKept /\ PidsKept
    BY <1>1, Removes, ProcessChanges, Zenon DEF RuntimeInv, RuntimeTypeOK, RemoveFiles, Stage, At
  <1>3. StageTells'
    BY <1>2 DEF RuntimeInv, StageTells, BeforeStarmaskd, BeforeAgent, Naming, Started, At,
       StageGoes, KindsKept, SeenKept, PidsKept, DaemonsKept, AgentsKept
  <1>4. NamedWasStarted'
    BY <1>2, Names DEF RuntimeInv, StageTells, NamedWasStarted, BeforeStarmaskd,
       BeforeAgent, Naming, Started, At, StageGoes, KindsKept, SeenKept, PidsKept,
       DaemonsKept, AgentsKept
  <1>5. StopsInOrder'
    BY <1>2, Names DEF RuntimeInv, StageTells, NamedWasStarted, StopsInOrder, AgentStopped,
       DaemonStopped, BeforeStarmaskd, BeforeAgent, At, StageGoes, KindsKept, SeenKept,
          PidsKept, DaemonsKept, AgentsKept
  <1> QED BY <1>2, <1>3, <1>4, <1>5 DEF RuntimeInv

\* The finally block removes a file.
LEMMA CleanupKeeps == ASSUME RuntimeInv, NEW c \in Command, Cleanup(c) PROVE RuntimeInv'
  <1>1. Len(FinallyOrder) = 4
    BY DEF FinallyOrder
  <1>2. /\ RuntimeTypeOK' /\ At(c, "cleanup")
        /\ StageGoes(c, "cleanup") \/ StageGoes(c, "exited")
        /\ KindsKept /\ SeenKept /\ DaemonsKept /\ AgentsKept /\ PidsKept
    BY <1>1, Removes, ProcessChanges, Zenon DEF RuntimeInv, RuntimeTypeOK, Cleanup, Stage, At
  <1>3. StageTells'
    BY <1>2 DEF RuntimeInv, StageTells, BeforeStarmaskd, BeforeAgent, Naming, Started, At,
       StageGoes, KindsKept, SeenKept, PidsKept, DaemonsKept, AgentsKept
  <1>4. NamedWasStarted'
    BY <1>2, Names DEF RuntimeInv, StageTells, NamedWasStarted, BeforeStarmaskd,
       BeforeAgent, Naming, Started, At, StageGoes, KindsKept, SeenKept, PidsKept,
       DaemonsKept, AgentsKept
  <1>5. StopsInOrder'
    BY <1>2, OrderKept, Zenon
  <1> QED BY <1>2, <1>3, <1>4, <1>5 DEF RuntimeInv

\* The daemon is started, or cannot be.
LEMMA SpawnStarmaskdKeeps ==
    ASSUME RuntimeInv, NEW c \in Command, SpawnStarmaskd(c) PROVE RuntimeInv'
  <1>1. files' \in [File -> Command \cup {Nobody}] /\ PidsKept /\ At(c, "spawn")
    BY DEF RuntimeInv, RuntimeTypeOK, SpawnStarmaskd, PidsKept, File
  <1>2. CASE proc' = [proc EXCEPT ![<<"starmaskd", c>>] = "running"] /\ Goto(c, "wait")
    <2>1. /\ RuntimeTypeOK' /\ StageGoes(c, "wait") /\ KindsKept /\ SeenKept
          /\ DaemonGoes(c, "running") /\ AgentsKept
      BY <1>1, <1>2, MovesOn, ProcessChanges, Zenon DEF RuntimeInv, RuntimeTypeOK, SpawnStarmaskd, Stage
    <2>2. StageTells'
      BY <1>1, <2>1 DEF RuntimeInv, StageTells, BeforeStarmaskd, BeforeAgent, Naming,
         Started, At, StageGoes, KindsKept, SeenKept, PidsKept, DaemonGoes, AgentsKept
    <2>3. NamedWasStarted'
      BY <1>1, <2>1, Names DEF RuntimeInv, NamedWasStarted, At, StageGoes, KindsKept,
         SeenKept, PidsKept, DaemonGoes, AgentsKept
    <2>4. StopsInOrder'
      <3>1. Daemon(c) = "none"
        BY <1>1, Zenon DEF RuntimeInv, StageTells, BeforeStarmaskd, At
      <3>2. \A d \in Command : cmd[d].seen.starmaskd # c
        BY <3>1, RuntimeAssumption, Zenon DEF RuntimeInv, NamedWasStarted
      <3> QED BY <1>1, <2>1, <3>2, Names DEF RuntimeInv, StopsInOrder, AgentStopped,
         DaemonStopped,
                 At, StageGoes, KindsKept, SeenKept, PidsKept, DaemonGoes, AgentsKept
    <2> QED BY <2>1, <2>2, <2>3, <2>4 DEF RuntimeInv
  <1>3. CASE Goto(c, "exited") /\ UNCHANGED proc
    <2>1. /\ RuntimeTypeOK' /\ StageGoes(c, "exited") /\ KindsKept /\ SeenKept
          /\ DaemonsKept /\ AgentsKept
      BY <1>1, <1>3, MovesOn, ProcessChanges, Zenon DEF RuntimeInv, RuntimeTypeOK, SpawnStarmaskd, Stage
    <2>2. StageTells'
      BY <1>1, <2>1 DEF RuntimeInv, StageTells, BeforeStarmaskd, BeforeAgent, Naming,
         Started, At, StageGoes, KindsKept, SeenKept, PidsKept, DaemonsKept, AgentsKept
    <2>3. NamedWasStarted'
      BY <1>1, <2>1, Names DEF RuntimeInv, NamedWasStarted, At, StageGoes, KindsKept,
         SeenKept, PidsKept, DaemonsKept, AgentsKept
    <2>4. StopsInOrder'
      BY <1>1, <2>1, Names DEF RuntimeInv, StopsInOrder, AgentStopped, DaemonStopped, At,
         StageGoes, KindsKept, SeenKept, PidsKept, DaemonsKept, AgentsKept
    <2> QED BY <2>1, <2>2, <2>3, <2>4 DEF RuntimeInv
  <1> QED BY <1>2, <1>3 DEF SpawnStarmaskd

\* The agent is started, or cannot be.
LEMMA SpawnAgentKeeps ==
    ASSUME RuntimeInv, NEW c \in Command, SpawnAgent(c) PROVE RuntimeInv'
  <1>1. files' = files /\ PidsKept /\ At(c, "spawn_agent")
    BY DEF RuntimeInv, RuntimeTypeOK, SpawnAgent, PidsKept, File
  <1>2. CASE proc' = [proc EXCEPT ![<<"agent", c>>] = "running"] /\ Goto(c, "starmaskd_pid")
    <2>1. /\ RuntimeTypeOK' /\ StageGoes(c, "starmaskd_pid") /\ KindsKept /\ SeenKept
          /\ AgentGoes(c, "running") /\ DaemonsKept
      BY <1>1, <1>2, MovesOn, ProcessChanges, Zenon DEF RuntimeInv, RuntimeTypeOK, SpawnAgent, Stage
    <2>2. StageTells'
      BY <1>1, <2>1 DEF RuntimeInv, StageTells, BeforeStarmaskd, BeforeAgent, Naming,
         Started, At, StageGoes, KindsKept, SeenKept, PidsKept, AgentGoes, DaemonsKept
    <2>3. NamedWasStarted'
      BY <1>1, <2>1, Names DEF RuntimeInv, NamedWasStarted, At, StageGoes, KindsKept,
         SeenKept, PidsKept, AgentGoes, DaemonsKept
    <2>4. StopsInOrder'
      <3>1. Agent(c) = "none"
        BY <1>1, Zenon DEF RuntimeInv, StageTells, BeforeStarmaskd, BeforeAgent, At
      <3>2. \A d \in Command : cmd[d].seen.agent # c
        BY <3>1, RuntimeAssumption DEF RuntimeInv, NamedWasStarted
      <3> QED BY <1>1, <2>1, <3>2, Names DEF RuntimeInv, StopsInOrder, AgentStopped,
         DaemonStopped,
                 At, StageGoes, KindsKept, SeenKept, PidsKept, AgentGoes, DaemonsKept
    <2> QED BY <2>1, <2>2, <2>3, <2>4 DEF RuntimeInv
  <1>3. CASE Goto(c, "finally_agent") /\ UNCHANGED proc
    <2>1. /\ RuntimeTypeOK' /\ StageGoes(c, "finally_agent") /\ KindsKept /\ SeenKept
          /\ DaemonsKept /\ AgentsKept
      BY <1>1, <1>3, MovesOn, ProcessChanges, Zenon DEF RuntimeInv, RuntimeTypeOK, SpawnAgent, Stage
    <2>2. StageTells'
      BY <1>1, <2>1 DEF RuntimeInv, StageTells, BeforeStarmaskd, BeforeAgent, Naming,
         Started, At, StageGoes, KindsKept, SeenKept, PidsKept, DaemonsKept, AgentsKept
    <2>3. NamedWasStarted'
      BY <1>1, <2>1, Names DEF RuntimeInv, NamedWasStarted, At, StageGoes, KindsKept,
         SeenKept, PidsKept, DaemonsKept, AgentsKept
    <2>4. StopsInOrder'
      BY <1>1, <2>1, Names DEF RuntimeInv, StopsInOrder, AgentStopped, DaemonStopped, At,
         StageGoes, KindsKept, SeenKept, PidsKept, DaemonsKept, AgentsKept
    <2> QED BY <2>1, <2>2, <2>3, <2>4 DEF RuntimeInv
  <1> QED BY <1>2, <1>3 DEF SpawnAgent

\* The socket is bound.
LEMMA BindSocketKeeps == ASSUME RuntimeInv, NEW c \in Command, BindSocket(c) PROVE RuntimeInv'
  <1>1. /\ RuntimeTypeOK' /\ cmd' = cmd /\ DaemonsKept /\ AgentsKept /\ PidsKept
    BY ProcessChanges, Zenon DEF RuntimeInv, RuntimeTypeOK, CmdTypeOK, BindSocket, File, PidsKept
  <1>2. StageTells'
    BY <1>1, Zenon DEF RuntimeInv, StageTells, BeforeStarmaskd, BeforeAgent, Naming, Started,
       DaemonsKept, AgentsKept, PidsKept
  <1>3. NamedWasStarted'
    BY <1>1, Names DEF RuntimeInv, StageTells, NamedWasStarted, BeforeStarmaskd,
       BeforeAgent, Naming, Started, DaemonsKept, AgentsKept, PidsKept
  <1>4. StopsInOrder'
    BY <1>1, Names, Zenon DEF RuntimeInv, StageTells, NamedWasStarted, StopsInOrder, AgentStopped,
       DaemonStopped, BeforeStarmaskd, BeforeAgent, DaemonsKept, AgentsKept, PidsKept
  <1> QED BY <1>1, <1>2, <1>3, <1>4 DEF RuntimeInv

\* A pid file, or the metadata, is written.
LEMMA WriteFileKeeps == ASSUME RuntimeInv, NEW c \in Command, WriteFile(c) PROVE RuntimeInv'
  <1>1. /\ RuntimeTypeOK' /\ cmd[c].stage \in Naming
        /\ StageGoes(c, "agent_pid") \/ StageGoes(c, "metadata") \/ StageGoes(c, "supervise")
        /\ KindsKept /\ SeenKept /\ DaemonsKept /\ AgentsKept
        /\ \A f \in {"starmaskd_pid", "agent_pid"} : files'[f] = files[f] \/ files'[f] = c
    BY MovesOn, ProcessChanges, Zenon DEF RuntimeInv, RuntimeTypeOK, WriteFile, Stage, File, Naming, At
  <1>2. StageTells'
    BY <1>1 DEF RuntimeInv, StageTells, BeforeStarmaskd, BeforeAgent, Naming, Started, At,
       StageGoes, KindsKept, SeenKept, DaemonsKept, AgentsKept
  <1>3. NamedWasStarted'
    BY <1>1, Names DEF RuntimeInv, StageTells, NamedWasStarted, BeforeStarmaskd,
       BeforeAgent, Naming, Started, At, StageGoes, KindsKept, SeenKept, DaemonsKept,
       AgentsKept
  <1>4. StopsInOrder'
    BY <1>1, OrderKept, Zenon
  <1> QED BY <1>1, <1>2, <1>3, <1>4, Zenon DEF RuntimeInv

\* The finally block ends the agent.
LEMMA FinallyAgentKeeps == ASSUME RuntimeInv, NEW c \in Command, FinallyAgent(c) PROVE RuntimeInv'
  <1>1. /\ proc' \in [Process -> {"none", "running", "ended", "gone"}]
        /\ OnlyEnds /\ Agent(c)' # "running"
    <2> DEFINE state == IF Agent(c) = "none" THEN "none" ELSE "gone"
    <2>1. proc' = [proc EXCEPT ![<<"agent", c>>] = state]
      BY Zenon DEF FinallyAgent, Agent
    <2>2. AgentGoes(c, state) /\ DaemonsKept
      BY <2>1, ProcessChanges, Zenon DEF RuntimeInv
    <2> QED BY <2>1, <2>2, Zenon DEF AgentGoes, DaemonsKept, OnlyEnds, RuntimeInv, RuntimeTypeOK
  <1>2. /\ RuntimeTypeOK' /\ At(c, "finally_agent") /\ StageGoes(c, "finally_starmaskd")
        /\ KindsKept /\ SeenKept /\ PidsKept /\ OnlyEnds /\ Agent(c)' # "running"
    BY <1>1, MovesOn, ProcessChanges, Zenon DEF RuntimeInv, RuntimeTypeOK, FinallyAgent, Stage, PidsKept
  <1>3. StageTells'
    BY <1>2 DEF RuntimeInv, StageTells, BeforeStarmaskd, BeforeAgent, Naming, Started, At,
       StageGoes, KindsKept, SeenKept, PidsKept, OnlyEnds
  <1>4. NamedWasStarted'
    BY <1>2, Names DEF RuntimeInv, StageTells, NamedWasStarted, BeforeStarmaskd,
       BeforeAgent, Naming, Started, At, StageGoes, KindsKept, SeenKept, PidsKept, OnlyEnds
  <1>5. StopsInOrder'
    BY <1>2, OrderKept, Zenon
  <1> QED BY <1>2, <1>3, <1>4, <1>5 DEF RuntimeInv

\* The finally block ends the daemon.
LEMMA FinallyStarmaskdKeeps ==
    ASSUME RuntimeInv, NEW c \in Command, FinallyStarmaskd(c) PROVE RuntimeInv'
  <1>1. CmdTypeOK' /\ StageGoes(c, "cleanup") /\ KindsKept /\ SeenKept
    <2>1. "cleanup" \in Stage /\ 0 \in 0 .. 3
      BY DEF Stage
    <2>2. cmd' = [cmd EXCEPT ![c].stage = "cleanup", ![c].removed = 0]
      BY DEF FinallyStarmaskd
    <2> QED BY <2>1, <2>2, CountsOn, Zenon DEF RuntimeInv
  <1>2. /\ proc' \in [Process -> {"none", "running", "ended", "gone"}]
        /\ OnlyEnds /\ Daemon(c)' # "running"
    <2>1. proc' = [proc EXCEPT ![<<"starmaskd", c>>] = "gone"]
      BY DEF FinallyStarmaskd
    <2>2. DaemonGoes(c, "gone") /\ AgentsKept
      BY <2>1, ProcessChanges, Zenon DEF RuntimeInv
    <2>3. Daemon(c) # "none"
      BY DEF FinallyStarmaskd, RuntimeInv, StageTells, Started, At
    <2> QED BY <2>1, <2>2, <2>3, Zenon DEF DaemonGoes, AgentsKept, OnlyEnds, RuntimeInv, RuntimeTypeOK
  <1>3. /\ RuntimeTypeOK' /\ At(c, "finally_starmaskd") /\ StageGoes(c, "cleanup")
        /\ KindsKept /\ SeenKept /\ PidsKept /\ OnlyEnds /\ Daemon(c)' # "running"
    BY <1>1, <1>2 DEF RuntimeInv, RuntimeTypeOK, FinallyStarmaskd, PidsKept
  <1>4. StageTells'
    BY <1>3 DEF RuntimeInv, StageTells, BeforeStarmaskd, BeforeAgent, Naming, Started, At,
       StageGoes, KindsKept, SeenKept, PidsKept, OnlyEnds
  <1>5. NamedWasStarted'
    BY <1>3, Names DEF RuntimeInv, StageTells, NamedWasStarted, BeforeStarmaskd,
       BeforeAgent, Naming, Started, At, StageGoes, KindsKept, SeenKept, PidsKept, OnlyEnds
  <1>6. StopsInOrder'
    BY <1>3, OrderKept, Zenon
  <1> QED BY <1>3, <1>4, <1>5, <1>6, Zenon DEF RuntimeInv

\* The script ends without its finally block.
LEMMA KillKeeps == ASSUME RuntimeInv, NEW c \in Command, Kill(c) PROVE RuntimeInv'
  <1>1. proc' \in [Process -> {"none", "running", "ended", "gone"}] /\ OnlyEnds
    BY Zenon DEF RuntimeInv, RuntimeTypeOK, Kill, Process, Program, OnlyEnds, Daemon, Agent
  <1>2. /\ RuntimeTypeOK' /\ StageGoes(c, "killed")
        /\ KindsKept /\ SeenKept /\ PidsKept /\ OnlyEnds
    BY <1>1, MovesOn DEF RuntimeInv, RuntimeTypeOK, Kill, Stage, PidsKept
  <1>3. StageTells'
    BY <1>2 DEF RuntimeInv, StageTells, BeforeStarmaskd, BeforeAgent, Naming, Started, At,
       StageGoes, KindsKept, SeenKept, PidsKept, OnlyEnds
  <1>4. NamedWasStarted'
    BY <1>2, Names DEF RuntimeInv, StageTells, NamedWasStarted, BeforeStarmaskd,
       BeforeAgent, Naming, Started, At, StageGoes, KindsKept, SeenKept, PidsKept, OnlyEnds
  <1>5. StopsInOrder'
    BY <1>2, OrderKept, Zenon
  <1> QED BY <1>2, <1>3, <1>4, <1>5 DEF RuntimeInv

\* A process ends by itself.
LEMMA CrashKeeps == ASSUME RuntimeInv, NEW p \in Process, Crash(p) PROVE RuntimeInv'
  <1>1. OnlyEnds
    <2>1. PICK ended \in {"ended", "gone"} : proc' = [proc EXCEPT ![p] = ended]
      BY Zenon DEF Crash, Ended
    <2>2. p \in Process /\ proc[p] = "running" /\ Process = DOMAIN proc
      BY DEF Crash, running, RuntimeInv, RuntimeTypeOK
    <2> QED BY <2>1, <2>2 DEF OnlyEnds, Daemon, Agent
  <1>2. RuntimeTypeOK' /\ cmd' = cmd /\ files' = files /\ OnlyEnds
    BY <1>1 DEF RuntimeInv, RuntimeTypeOK, CmdTypeOK, Crash, running, Ended
  <1>3. StageTells'
    BY <1>2, Zenon DEF RuntimeInv, StageTells, BeforeStarmaskd, BeforeAgent, Naming, Started, OnlyEnds
  <1>4. NamedWasStarted'
    BY <1>2, Names, Zenon DEF RuntimeInv, StageTells, NamedWasStarted, BeforeStarmaskd,
       BeforeAgent, Naming, Started, OnlyEnds
  <1>5. StopsInOrder'
    BY <1>2, Names, Zenon DEF RuntimeInv, StageTells, NamedWasStarted, StopsInOrder, AgentStopped,
       DaemonStopped, BeforeStarmaskd, BeforeAgent, OnlyEnds
  <1> QED BY <1>2, <1>3, <1>4, <1>5 DEF RuntimeInv

\* The invariant is inductive.
LEMMA RuntimeInductive == RuntimeInv /\ [Next]_vars => RuntimeInv'
  <1> SUFFICES ASSUME RuntimeInv, [Next]_vars PROVE RuntimeInv'
    OBVIOUS
  <1>1. ASSUME NEW c \in Command, Step(c) PROVE RuntimeInv'
    BY <1>1, CheckKeeps, ReadStatusKeeps, StopAgentKeeps, StopStarmaskdKeeps, RemoveFilesKeeps,
       SpawnStarmaskdKeeps, WaitForSocketKeeps, SpawnAgentKeeps, WriteFileKeeps, SuperviseKeeps,
       FinallyAgentKeeps, FinallyStarmaskdKeeps, CleanupKeeps, Zenon
    DEF Step
  <1>2. ASSUME NEW c \in Command, Start(c) \/ BindSocket(c) \/ Interrupt(c) \/ Kill(c)
        PROVE  RuntimeInv'
    BY <1>2, StartKeeps, BindSocketKeeps, InterruptKeeps, KillKeeps
  <1>3. ASSUME NEW p \in Process, Crash(p) PROVE RuntimeInv'
    BY <1>3, CrashKeeps
  <1>4. CASE UNCHANGED vars
    BY <1>4, Zenon DEF vars, RuntimeInv, RuntimeTypeOK, CmdTypeOK, StageTells, NamedWasStarted,
       StopsInOrder, AgentStopped, DaemonStopped, Daemon, Agent
  <1> QED BY <1>1, <1>2, <1>3, <1>4 DEF Next
----------------------------------------------------------------------------
\* However commands overlap, and whichever supervisors are killed and processes
\* crash: a supervisor that ended by itself or was interrupted leaves neither
\* starmaskd nor the agent running (the finally block of main).
THEOREM RuntimeNoOrphans == Spec => []NoOrphans
  <1>1. RuntimeInv => NoOrphans
    BY Zenon DEF RuntimeInv, StageTells, NoOrphans, At, running, Program, Daemon, Agent
  <1> QED BY <1>1, RuntimeInit, RuntimeInductive, PTL DEF Spec

\* What stop_runtime read from the pid files has ended before it removes a file,
\* and stays ended while `up --replace` goes on to start its own processes.
THEOREM RuntimeStopsFirst == Spec => []StoppedBeforeForgotten
  <1>1. ASSUME RuntimeInv PROVE StoppedBeforeForgotten
    <2> SUFFICES ASSUME NEW c \in Command,
                        \/ At(c, "remove")
                        \/ cmd[c].kind \in {"down", "replace"} /\ At(c, "spawn"),
                        NEW program \in Program, cmd[c].seen[program] # Nobody
                 PROVE  ~running(<<program, cmd[c].seen[program]>>)
      BY Zenon DEF StoppedBeforeForgotten
    <2>1. AgentStopped(c) /\ DaemonStopped(c)
      BY <1>1, Zenon DEF RuntimeInv, StopsInOrder, At
    <2>2. CASE program = "agent"
      BY <2>1, <2>2 DEF AgentStopped, Agent, running
    <2>3. CASE program = "starmaskd"
      BY <2>1, <2>3, Zenon DEF DaemonStopped, Daemon, running
    <2> QED BY <2>2, <2>3, Zenon DEF Program
  <1> QED BY <1>1, RuntimeInit, RuntimeInductive, PTL DEF Spec
----------------------------------------------------------------------------
(* The scripts that ask for accounts.                                      *)

ScriptField == {"stage", "args", "wallet", "id", "status", "address", "deadline",
                "outcome", "started"}
RowField == {"kind", "hint", "wallet", "status", "address", "result", "expires_at",
             "result_expires_at"}
ScriptStage == {"new", "create", "created", "poll", "terminal", "refresh", "wait", "rename",
                "ended"}
Reported == {"done", "not_approved"}

\* The variables are functions, and their values records, over these names.
ScriptShape ==
    /\ DOMAIN scripts = Script /\ \A s \in Script : DOMAIN scripts[s] = ScriptField
    /\ DOMAIN audit = Script
    /\ \A id \in DOMAIN requests : DOMAIN requests[id] = RowField
    /\ DOMAIN wallets = Wallet
    /\ \A w \in Wallet : /\ DOMAIN wallets[w] = {"accounts", "listed", "connected"}
                         /\ wallets[w].accounts \subseteq Nat

\* A request has an account exactly if it was approved, a result only then, and
\* the wallet holds the account unless it was sent away.
RowOK(id) ==
    LET row == requests[id] IN
    /\ row.wallet \in Wallet
    /\ row.status \in TERMINAL_REQUEST_STATUSES \cup {"live"}
    /\ row.status = "approved" => row.address \in Nat
    /\ row.status # "approved" => row.address = NoAddress
    /\ row.result => row.status = "approved"
    /\ row.status = "approved" /\ row.kind # "export_account" =>
           row.address \in wallets[row.wallet].accounts
RowsOK == \A id \in DOMAIN requests : RowOK(id)

\* No two requests created one account.
Created(id) == requests[id].status = "approved" /\ requests[id].kind = "create_account"
AccountsApart ==
    \A id1, id2 \in DOMAIN requests :
        Created(id1) /\ Created(id2) /\ requests[id1].address = requests[id2].address
        => id1 = id2

\* The key of a script that started at the given time with these arguments.
KeyOf(s, args, started) ==
    IF args.kind # "create_account" THEN <<"own", s>>
    ELSE IF args.id # Omitted THEN <<"given", args.id>> ELSE <<"default", started>>

\* Where a script stands tells what it knows of its request, and that is so.
ScriptOK(s) ==
    LET c   == scripts[s]
        row == requests[c.id]
    IN  /\ c.stage \in ScriptStage
        /\ c.outcome \in Reported => c.stage = "ended"
        /\ c.stage \notin {"new", "ended"} \/ c.outcome \in Reported =>
              /\ c.args \in Arguments /\ c.wallet \in Wallet
              /\ c.id = KeyOf(s, c.args, c.started)
        /\ c.stage \notin {"new", "create", "ended"} \/ c.outcome \in Reported =>
              /\ c.id \in DOMAIN requests
              /\ row.kind = c.args.kind /\ row.wallet = c.wallet
        /\ c.stage \in {"created", "terminal", "refresh", "wait", "rename"} =>
              c.args.kind = "create_account"
        /\ c.stage = "terminal" =>
              \/ c.status = "timeout"
              \/ c.status \in TERMINAL_REQUEST_STATUSES /\ row.status = c.status
        /\ c.stage = "terminal" /\ c.address # NoAddress =>
              row.status = "approved" /\ row.address = c.address
        /\ c.stage = "refresh" =>
              row.status = "approved" /\ c.address \in {row.address, NoAddress}
        /\ c.stage \in {"wait", "rename"} \/ c.outcome = "done" =>
              row.status = "approved" /\ row.address = c.address

\* The records of a run: none, the first, or both; the second tells the end.
WroteFirst(a) == a # <<>> /\ a = <<a[1]>> /\ a[1].event = "created"
TellsTheEnd(r) ==
    /\ r.event = "terminal"
    /\ r.status # "timeout" =>
          /\ r.id \in DOMAIN requests
          /\ r.status \in TERMINAL_REQUEST_STATUSES /\ requests[r.id].status = r.status
WroteBoth(a) ==
    DOMAIN a = {1, 2} /\ a[1].event = "created" /\ TellsTheEnd(a[2])
AuditOK(s) ==
    LET c == scripts[s] IN
    /\ audit[s] = <<>> \/ WroteFirst(audit[s]) \/ WroteBoth(audit[s])
    /\ c.stage \in {"new", "create", "created"} => audit[s] = <<>>
    /\ c.stage = "poll" /\ c.args.kind = "create_account" => WroteFirst(audit[s])
    /\ c.stage = "terminal" => WroteFirst(audit[s])
    /\ c.stage \in {"refresh", "wait", "rename"} => WroteBoth(audit[s])
    /\ c.outcome \in Reported /\ c.args.kind = "create_account" => WroteBoth(audit[s])

ScriptInv ==
    /\ ScriptShape /\ RowsOK /\ AccountsApart
    /\ \A s \in Script : ScriptOK(s) /\ AuditOK(s)
----------------------------------------------------------------------------
(* What a step does to one script and leaves of the others.                *)

\* The script ends in an error; it goes on to a stage, or out of one with an
\* outcome, with the request and the account it had.
Failed(s) ==
    /\ DOMAIN scripts'[s] = ScriptField
    /\ scripts'[s].stage = "ended" /\ scripts'[s].outcome = "error"
SameCall(s) ==
    /\ DOMAIN scripts'[s] = ScriptField
    /\ scripts'[s].args = scripts[s].args /\ scripts'[s].wallet = scripts[s].wallet
    /\ scripts'[s].id = scripts[s].id /\ scripts'[s].started = scripts[s].started
GoesTo(s, stage, outcome) ==
    /\ SameCall(s)
    /\ scripts'[s].stage = stage /\ scripts'[s].outcome = outcome
    /\ scripts'[s].status = scripts[s].status /\ scripts'[s].address = scripts[s].address
OthersKept(s) ==
    DOMAIN scripts' = Script /\ \A t \in Script \ {s} : scripts'[t] = scripts[t]

LEMMA FailsShape ==
    ASSUME ScriptShape, NEW s \in Script, Fails(s)
    PROVE  Failed(s) /\ OthersKept(s)
BY DEF ScriptShape, Fails, Failed, OthersKept, Fresh, ScriptField

LEMMA EndsShape ==
    ASSUME ScriptShape, NEW s \in Script, NEW outcome, Ends(s, outcome)
    PROVE  GoesTo(s, "ended", outcome) /\ OthersKept(s)
<1> DEFINE call == [scripts[s] EXCEPT !.stage = "ended", !.outcome = outcome, !.deadline = 0]
<1>1. scripts' = [scripts EXCEPT ![s] = call]
  BY Zenon DEF ScriptShape, Ends, ScriptField
<1>2. /\ DOMAIN call = ScriptField
      /\ call.stage = "ended" /\ call.outcome = outcome
      /\ call.args = scripts[s].args /\ call.wallet = scripts[s].wallet
      /\ call.id = scripts[s].id /\ call.started = scripts[s].started
      /\ call.status = scripts[s].status /\ call.address = scripts[s].address
  BY DEF ScriptShape, ScriptField
<1> HIDE DEF call
<1> QED  BY <1>1, <1>2, Zenon DEF ScriptShape, GoesTo, SameCall, OthersKept

LEMMA StageShape ==
    ASSUME ScriptShape, NEW s \in Script, NEW stage,
           scripts' = [scripts EXCEPT ![s].stage = stage]
    PROVE  GoesTo(s, stage, scripts[s].outcome) /\ OthersKept(s)
<1> DEFINE call == [scripts[s] EXCEPT !.stage = stage]
<1>1. scripts' = [scripts EXCEPT ![s] = call]
  BY DEF ScriptShape, ScriptField
<1>2. /\ DOMAIN call = ScriptField
      /\ call.stage = stage /\ call.outcome = scripts[s].outcome
      /\ call.args = scripts[s].args /\ call.wallet = scripts[s].wallet
      /\ call.id = scripts[s].id /\ call.started = scripts[s].started
      /\ call.status = scripts[s].status /\ call.address = scripts[s].address
  BY DEF ScriptShape, ScriptField
<1> HIDE DEF call
<1> QED  BY <1>1, <1>2 DEF ScriptShape, GoesTo, SameCall, OthersKept

LEMMA WaitShape ==
    ASSUME ScriptShape, NEW s \in Script, NEW stage, NEW deadline,
           scripts' = [scripts EXCEPT ![s].stage = stage, ![s].deadline = deadline]
    PROVE  GoesTo(s, stage, scripts[s].outcome) /\ OthersKept(s)
<1> DEFINE call == [scripts[s] EXCEPT !.stage = stage, !.deadline = deadline]
<1>1. scripts' = [scripts EXCEPT ![s] = call]
  BY Zenon DEF ScriptShape, ScriptField
<1>2. /\ DOMAIN call = ScriptField
      /\ call.stage = stage /\ call.outcome = scripts[s].outcome
      /\ call.args = scripts[s].args /\ call.wallet = scripts[s].wallet
      /\ call.id = scripts[s].id /\ call.started = scripts[s].started
      /\ call.status = scripts[s].status /\ call.address = scripts[s].address
  BY DEF ScriptShape, ScriptField
<1> HIDE DEF call
<1> QED  BY <1>1, <1>2 DEF ScriptShape, GoesTo, SameCall, OthersKept

\* What the daemon keeps of its requests: their kind, wallet and end.
RowsPersist ==
    \A id \in DOMAIN requests :
        /\ id \in DOMAIN requests'
        /\ requests'[id].kind = requests[id].kind /\ requests'[id].wallet = requests[id].wallet
        /\ requests[id].status \in TERMINAL_REQUEST_STATUSES =>
              /\ requests'[id].status = requests[id].status
              /\ requests'[id].address = requests[id].address

\* A request nobody touches stays right while its wallet keeps its accounts.
LEMMA RowKept ==
    ASSUME NEW id, RowOK(id), requests'[id] = requests[id],
           wallets[requests[id].wallet].accounts \subseteq wallets'[requests[id].wallet].accounts
    PROVE  RowOK(id)'
BY Zenon DEF RowOK

\* No step makes two requests share an account unless it approves one.
LEMMA AccountsStayApart ==
    ASSUME AccountsApart,
           \A id \in DOMAIN requests' : Created(id)' =>
              /\ id \in DOMAIN requests /\ Created(id)
              /\ requests'[id].address = requests[id].address
    PROVE  AccountsApart'
BY Zenon DEF AccountsApart

\* Both where the daemon does nothing.
LEMMA RequestsKept ==
    ASSUME RowsOK, AccountsApart, UNCHANGED requests,
           \A w \in Wallet : wallets[w].accounts \subseteq wallets'[w].accounts
    PROVE  RowsOK' /\ AccountsApart'
<1>1. ASSUME NEW id \in DOMAIN requests  PROVE RowOK(id)'
  <2>1. RowOK(id) /\ requests'[id] = requests[id]
    BY Zenon DEF RowsOK
  <2>2. requests[id].wallet \in Wallet
    BY <2>1, Zenon DEF RowOK
  <2> QED  BY <2>1, <2>2, RowKept, Zenon
<1>2. AccountsApart'
  BY AccountsStayApart, Zenon DEF Created
<1> QED  BY <1>1, <1>2, Zenon DEF RowsOK

\* A script nobody touches, and its records, stay right.
LEMMA ScriptKept ==
    ASSUME NEW s \in Script, ScriptOK(s), RowsPersist, scripts'[s] = scripts[s]
    PROVE  ScriptOK(s)'
<1> DEFINE c   == scripts[s]
           row == requests[c.id]
           new == requests'[c.id]
<1>1. c.id \in DOMAIN requests =>
         /\ c.id \in DOMAIN requests' /\ new.kind = row.kind /\ new.wallet = row.wallet
         /\ row.status \in TERMINAL_REQUEST_STATUSES =>
               new.status = row.status /\ new.address = row.address
  BY Zenon DEF RowsPersist
<1>2. "approved" \in TERMINAL_REQUEST_STATUSES
  BY Zenon DEF TERMINAL_REQUEST_STATUSES
<1>3. c.stage \notin {"new", "create", "ended"} \/ c.outcome \in Reported =>
         c.id \in DOMAIN requests /\ row.kind = c.args.kind /\ row.wallet = c.wallet
  BY Zenon DEF ScriptOK
<1>4. c.stage = "terminal" =>
         /\ c.id \in DOMAIN requests
         /\ \/ c.status = "timeout"
            \/ c.status \in TERMINAL_REQUEST_STATUSES /\ row.status = c.status
         /\ c.address # NoAddress => row.status = "approved" /\ row.address = c.address
  BY <1>3, Zenon DEF ScriptOK
<1>5. c.stage = "refresh" =>
         /\ c.id \in DOMAIN requests
         /\ row.status = "approved" /\ c.address \in {row.address, NoAddress}
  BY <1>3, Zenon DEF ScriptOK
<1>6. c.stage \in {"wait", "rename"} \/ c.outcome = "done" =>
         /\ c.id \in DOMAIN requests
         /\ row.status = "approved" /\ row.address = c.address
  BY <1>3, Zenon DEF ScriptOK, Reported
<1>7. /\ c.stage \in ScriptStage /\ (c.outcome \in Reported => c.stage = "ended")
      /\ c.stage \notin {"new", "ended"} \/ c.outcome \in Reported =>
            c.args \in Arguments /\ c.wallet \in Wallet /\ c.id = KeyOf(s, c.args, c.started)
      /\ c.stage \in {"created", "terminal", "refresh", "wait", "rename"} =>
            c.args.kind = "create_account"
  BY Zenon DEF ScriptOK
<1> QED  BY <1>1, <1>2, <1>3, <1>4, <1>5, <1>6, <1>7, Zenon DEF ScriptOK, KeyOf

LEMMA WroteKept ==
    ASSUME NEW a, WroteBoth(a), RowsPersist
    PROVE  WroteBoth(a)'
BY Zenon DEF WroteBoth, TellsTheEnd, RowsPersist

LEMMA AuditKept ==
    ASSUME NEW s \in Script, AuditOK(s), RowsPersist, scripts'[s] = scripts[s],
           audit'[s] = audit[s]
    PROVE  AuditOK(s)'
BY WroteKept, Zenon DEF AuditOK, WroteFirst, Reported

\* The same for a script that ends in an error, whatever it had done.
LEMMA FailedOK ==
    ASSUME NEW s \in Script, Failed(s), AuditOK(s), RowsPersist, audit'[s] = audit[s]
    PROVE  ScriptOK(s)' /\ AuditOK(s)'
<1>1. ScriptOK(s)'
  BY Zenon DEF ScriptOK, Failed, ScriptStage, Reported
<1>2. AuditOK(s)'
  BY WroteKept, Zenon DEF AuditOK, Failed, WroteFirst, Reported
<1> QED  BY <1>1, <1>2, Zenon

\* A step of one script, by which the daemon learns of its request at most.
LEMMA ScriptsKept ==
    ASSUME ScriptInv, NEW s \in Script, OthersKept(s), DOMAIN scripts'[s] = ScriptField,
           DOMAIN audit' = Script, \A t \in Script \ {s} : audit'[t] = audit[t],
           RowsPersist, RowsOK', AccountsApart',
           \A id \in DOMAIN requests' : DOMAIN requests'[id] = RowField,
           UNCHANGED wallets, ScriptOK(s)', AuditOK(s)'
    PROVE  ScriptInv'
<1>1. ScriptShape'
  BY Zenon DEF ScriptInv, ScriptShape, OthersKept
<1>2. ASSUME NEW t \in Script  PROVE ScriptOK(t)' /\ AuditOK(t)'
  <2>1. CASE t = s
    BY <2>1
  <2>2. CASE t # s
    <3>1. scripts'[t] = scripts[t] /\ audit'[t] = audit[t] /\ ScriptOK(t) /\ AuditOK(t)
      BY <2>2, Zenon DEF OthersKept, ScriptInv
    <3> QED  BY <3>1, ScriptKept, AuditKept, Zenon
  <2> QED  BY <2>1, <2>2, Zenon
<1> QED  BY <1>1, <1>2, Zenon DEF ScriptInv

\* A step of one script that leaves the daemon alone.
OwnStep(s) ==
    /\ OthersKept(s) /\ DOMAIN scripts'[s] = ScriptField
    /\ DOMAIN audit' = Script /\ \A t \in Script \ {s} : audit'[t] = audit[t]
    /\ UNCHANGED <<requests, wallets>>

LEMMA OwnStepKeeps ==
    ASSUME ScriptInv, NEW s \in Script, OwnStep(s), ScriptOK(s)', AuditOK(s)'
    PROVE  ScriptInv'
<1>1. RowsPersist
  BY Zenon DEF RowsPersist, OwnStep
<1>2. RowsOK' /\ AccountsApart'
  BY RequestsKept, Zenon DEF ScriptInv, OwnStep
<1> QED  BY <1>1, <1>2, ScriptsKept, Zenon DEF OwnStep, ScriptInv, ScriptShape

\* An error is safe at any time.
LEMMA FailureKeeps ==
    ASSUME ScriptInv, NEW s \in Script, Fails(s), UNCHANGED <<audit, requests, wallets>>
    PROVE  ScriptInv'
<1>1. ScriptShape /\ AuditOK(s)
  BY DEF ScriptInv
<1>2. Failed(s) /\ OthersKept(s)
  BY <1>1, FailsShape
<1>3. RowsPersist
  BY DEF RowsPersist
<1>4. ScriptOK(s)' /\ AuditOK(s)'
  BY <1>1, <1>2, <1>3, FailedOK
<1>5. OwnStep(s)
  BY <1>1, <1>2, Zenon DEF OwnStep, ScriptShape, Failed
<1> QED  BY <1>4, <1>5, OwnStepKeeps

\* A script starts, with its key and no record yet.
Begins(s, args, w) ==
    /\ DOMAIN scripts'[s] = ScriptField
    /\ scripts'[s].stage = "create" /\ scripts'[s].outcome = "none"
    /\ scripts'[s].args = args /\ scripts'[s].wallet = w
    /\ scripts'[s].id = KeyOf(s, args, scripts'[s].started)

LEMMA BeginKeeps ==
    ASSUME ScriptInv, NEW s \in Script, NEW args \in Arguments, NEW w \in Wallet,
           Stands(s, "new"), Begins(s, args, w), OthersKept(s),
           UNCHANGED <<audit, requests, wallets>>
    PROVE  ScriptInv'
<1>1. ScriptOK(s)'
  BY Zenon DEF ScriptOK, Begins, ScriptStage, Reported
<1>2. AuditOK(s) /\ ScriptShape
  BY DEF ScriptInv
<1>3. audit'[s] = <<>>
  BY <1>2, Zenon DEF AuditOK, Stands
<1>4. AuditOK(s)'
  BY <1>3, Zenon DEF AuditOK, Begins, Reported
<1>5. OwnStep(s)
  BY <1>2, Zenon DEF OwnStep, ScriptShape, Begins
<1> QED  BY <1>1, <1>4, <1>5, OwnStepKeeps

LEMMA KeyIsKeyOf ==
    ASSUME NEW s \in Script, NEW args \in Arguments
    PROVE  /\ client_request_id(s, args) = KeyOf(s, args, now)
           /\ args.kind # "create_account" =>
                 client_request_id(s, args) = KeyOf(s, args, 0)
BY DEF client_request_id, KeyOf

LEMMA StartScriptKeeps ==
    ASSUME ScriptInv, NEW s \in Script, NEW args \in Arguments, StartScript(s, args)
    PROVE  ScriptInv'
<1> DEFINE id == client_request_id(s, args)
<1>1. Stands(s, "new") /\ UNCHANGED <<audit, requests, wallets>>
  BY DEF StartScript, daemon
<1>2. CASE Fails(s)
  BY <1>1, <1>2, FailureKeeps
<1>3. ASSUME NEW w \in Wallet, args.kind = "create_account",
             scripts' = [scripts EXCEPT ![s] =
                 [Fresh EXCEPT !.stage = "create", !.args = args, !.wallet = w,
                               !.id = id, !.started = now]]
      PROVE  ScriptInv'
  <2>1. id = KeyOf(s, args, now)
    BY KeyIsKeyOf
  <2> HIDE DEF id
  <2>2. Begins(s, args, w) /\ OthersKept(s)
    BY <1>3, <2>1 DEF Begins, OthersKept, ScriptInv, ScriptShape, Fresh, ScriptField
  <2> QED  BY <1>1, <2>2, BeginKeeps
<1>4. ASSUME NEW w \in Wallet, args.kind # "create_account",
             scripts' = [scripts EXCEPT ![s] =
                 [Fresh EXCEPT !.stage = "create", !.args = args, !.id = id, !.wallet = w]]
      PROVE  ScriptInv'
  <2>1. id = KeyOf(s, args, 0)
    BY <1>4, KeyIsKeyOf
  <2> HIDE DEF id
  <2>2. Begins(s, args, w) /\ OthersKept(s)
    BY <1>4, <2>1 DEF Begins, OthersKept, ScriptInv, ScriptShape, Fresh, ScriptField
  <2> QED  BY <1>1, <2>2, BeginKeeps
<1>5. CASE args.kind = "create_account"
  <2>1. resolve_wallet_instance(args.wallet) \subseteq Wallet
    BY ScriptAssumption, Zenon DEF resolve_wallet_instance
  <2>2. StartCreate(s, args)
    BY <1>5 DEF StartScript
  <2> QED  BY <1>2, <1>3, <1>5, <2>1, <2>2, Zenon DEF StartCreate
<1>6. CASE args.kind # "create_account"
  <2>1. require_wallet_runtime_ready(s, args)
    BY <1>6 DEF StartScript
  <2>2. (IF args.wallet = Omitted THEN RuntimeWallet ELSE args.wallet) \in Wallet
    BY ScriptAssumption, Zenon
  <2> QED  BY <1>2, <1>4, <1>6, <2>1, <2>2, Zenon DEF require_wallet_runtime_ready
<1> QED  BY <1>5, <1>6

\* create_request: the daemon gets to know the request, or knows it already.
LEMMA AskedKeeps ==
    ASSUME ScriptInv, NEW s \in Script, NEW id, id = scripts[s].id, Stands(s, "create"),
           Accepted(s),
           requests' = IF scripts[s].id \in DOMAIN requests THEN requests
                       ELSE Put(requests, scripts[s].id, Row(s)),
           UNCHANGED wallets
    PROVE  /\ RowsPersist /\ RowsOK' /\ AccountsApart'
           /\ \A x \in DOMAIN requests' : DOMAIN requests'[x] = RowField
           /\ scripts[s].id \in DOMAIN requests'
           /\ requests'[scripts[s].id].kind = scripts[s].args.kind
           /\ requests'[scripts[s].id].wallet = scripts[s].wallet
<1>1. ScriptShape /\ RowsOK /\ AccountsApart /\ ScriptOK(s)
  BY Zenon DEF ScriptInv
<1>2. scripts[s].wallet \in Wallet
  BY <1>1, Zenon DEF ScriptOK, Stands
<1>3. CASE id \in DOMAIN requests
  <2>1. requests' = requests
    BY <1>3, Zenon
  <2>2. RowsPersist /\ RowsOK' /\ AccountsApart'
    BY <1>1, <2>1, RequestsKept, Zenon DEF RowsPersist
  <2>3. SameRequest(requests[id], Row(s))
    BY <1>3, Zenon DEF Accepted
  <2>4. requests[id].kind = scripts[s].args.kind /\ requests[id].wallet = scripts[s].wallet
    BY <2>3, Zenon DEF SameRequest, Row
  <2> QED  BY <1>1, <1>3, <2>1, <2>2, <2>4, Zenon DEF ScriptShape
<1>4. CASE id \notin DOMAIN requests
  <2>0. PICK row : row = Row(s)
    BY Zenon
  <2>1. /\ DOMAIN row = RowField /\ row.kind = scripts[s].args.kind
        /\ row.wallet = scripts[s].wallet
        /\ row.status = "live" /\ row.address = NoAddress /\ row.result = FALSE
    BY <2>0, Zenon DEF Row, RowField
  <2>2. requests' = Put(requests, id, row)
    BY <1>4, <2>0, Zenon
  <2>3. /\ DOMAIN requests' = DOMAIN requests \cup {id}
        /\ requests'[id] = row
        /\ \A x \in DOMAIN requests : requests'[x] = requests[x]
    BY <1>4, <2>2, Zenon DEF Put
  <2>4. RowsPersist
    BY <2>3, Zenon DEF RowsPersist
  <2>5. RowOK(id)'
    BY <1>2, <2>1, <2>3, Zenon DEF RowOK
  <2>6. RowsOK'
    <3>1. ASSUME NEW x \in DOMAIN requests  PROVE RowOK(x)'
      BY <1>1, <2>3, RowKept, Zenon DEF RowsOK
    <3> QED  BY <2>3, <2>5, <3>1, Zenon DEF RowsOK
  <2>7. AccountsApart'
    <3>1. ~Created(id)'
      BY <2>1, <2>3, Zenon DEF Created
    <3>2. ASSUME NEW x \in DOMAIN requests', Created(x)'
          PROVE  /\ x \in DOMAIN requests /\ Created(x)
                 /\ requests'[x].address = requests[x].address
      <4>1. x \in DOMAIN requests /\ requests'[x] = requests[x]
        BY <2>3, <3>1, <3>2, Zenon
      <4> QED  BY <3>2, <4>1, Zenon DEF Created
    <3> QED  BY <1>1, <3>2, AccountsStayApart, Zenon
  <2>8. \A x \in DOMAIN requests' : DOMAIN requests'[x] = RowField
    BY <1>1, <2>1, <2>3, Zenon DEF ScriptShape
  <2> QED  BY <2>1, <2>3, <2>4, <2>6, <2>7, <2>8, Zenon
<1> QED  BY <1>3, <1>4, Zenon

LEMMA CreateKeeps ==
    ASSUME ScriptInv, NEW s \in Script, CreateRequest(s)
    PROVE  ScriptInv'
<1> DEFINE next == IF scripts[s].args.kind = "create_account" THEN "created" ELSE "poll"
<1>1. ScriptShape /\ ScriptOK(s) /\ AuditOK(s) /\ Stands(s, "create") /\ UNCHANGED <<audit, wallets>>
  BY DEF ScriptInv, CreateRequest
<1>2. CASE ~Accepted(s)
  <2>1. Fails(s) /\ UNCHANGED requests
    BY <1>2 DEF CreateRequest
  <2> QED  BY <1>1, <2>1, FailureKeeps, Zenon
<1>3. CASE Accepted(s)
  <2>1. requests' = IF scripts[s].id \in DOMAIN requests THEN requests
                    ELSE Put(requests, scripts[s].id, Row(s))
    BY <1>3 DEF CreateRequest
  <2>2. /\ RowsPersist /\ RowsOK' /\ AccountsApart'
        /\ \A id \in DOMAIN requests' : DOMAIN requests'[id] = RowField
        /\ scripts[s].id \in DOMAIN requests'
        /\ requests'[scripts[s].id].kind = scripts[s].args.kind
        /\ requests'[scripts[s].id].wallet = scripts[s].wallet
    BY <1>1, <1>3, <2>1, AskedKeeps, Zenon
  <2>3. \/ Fails(s)
        \/ scripts' = [scripts EXCEPT ![s].stage = next,
                         ![s].deadline = Deadline(scripts[s].args.timeout)]
    BY <1>3 DEF CreateRequest
  <2> HIDE DEF next
  <2>4. /\ OthersKept(s) /\ DOMAIN scripts'[s] = ScriptField
        /\ Failed(s) \/ GoesTo(s, next, scripts[s].outcome)
    BY <1>1, <2>3, FailsShape, WaitShape DEF Failed, GoesTo, SameCall
  <2>5. CASE Failed(s)
    <3>1. ScriptOK(s)' /\ AuditOK(s)'
      BY <1>1, <2>2, <2>5, FailedOK, Zenon
    <3> QED  BY <1>1, <2>2, <2>4, <3>1, ScriptsKept, Zenon DEF ScriptShape
  <2>6. CASE GoesTo(s, next, scripts[s].outcome)
    <3>1. ScriptOK(s)'
      BY <1>1, <2>2, <2>6, Zenon
      DEF ScriptOK, GoesTo, SameCall, Stands, next, ScriptStage, Reported
    <3>2. audit'[s] = <<>>
      BY <1>1, Zenon DEF AuditOK, Stands
    <3>3. AuditOK(s)'
      BY <1>1, <2>6, <3>2, Zenon
      DEF AuditOK, ScriptOK, GoesTo, SameCall, Stands, next, Reported
    <3> QED  BY <1>1, <2>2, <2>4, <3>1, <3>3, ScriptsKept, Zenon DEF ScriptShape
  <2> QED  BY <2>4, <2>5, <2>6, Zenon
<1> QED  BY <1>2, <1>3

----------------------------------------------------------------------------
(* The answers.                                                            *)

\* The steps of a script that has its request with the daemon: what they know
\* of the request is so.
LEMMA RecordCreatedKeeps ==
    ASSUME ScriptInv, NEW s \in Script, RecordCreated(s)
    PROVE  ScriptInv'
<1>1. PICK r : /\ r = [event |-> "created", id |-> scripts[s].id, status |-> "none",
                       address |-> NoAddress]
               /\ audit' = [audit EXCEPT ![s] = Append(audit[s], r)]
  BY Zenon DEF RecordCreated
<1>2. ScriptShape /\ ScriptOK(s) /\ AuditOK(s) /\ Stands(s, "created")
  BY DEF ScriptInv, RecordCreated
<1>3. audit'[s] = <<r>>
  BY <1>1, <1>2 DEF AuditOK, Stands, ScriptShape
<1>4. GoesTo(s, "poll", scripts[s].outcome) /\ OthersKept(s)
  BY <1>2, WaitShape, Zenon DEF RecordCreated
<1>5. UNCHANGED <<requests, wallets>>
  BY Zenon DEF RecordCreated, daemon
<1>6. ScriptOK(s)'
  BY <1>2, <1>4, <1>5, Zenon DEF ScriptOK, GoesTo, SameCall, Stands, ScriptStage, Reported, KeyOf
<1>7. r.event = "created"
  BY <1>1, Zenon
<1>8. WroteFirst(audit'[s])
  BY <1>3, <1>7 DEF WroteFirst
<1>9. AuditOK(s)'
  BY <1>2, <1>4, <1>8, Zenon DEF AuditOK, ScriptOK, GoesTo, SameCall, Stands, WroteFirst, Reported
<1>10. OwnStep(s)
  BY <1>1, <1>2, <1>4, <1>5, Zenon DEF OwnStep, ScriptShape, GoesTo, SameCall
<1> QED  BY <1>6, <1>9, <1>10, OwnStepKeeps

\* A script reads the end of its request, and the account with it.
Reads(s, stage, outcome, status, address) ==
    /\ SameCall(s)
    /\ scripts'[s].stage = stage /\ scripts'[s].outcome = outcome
    /\ scripts'[s].status = status /\ scripts'[s].address = address

LEMMA CreatePollShape ==
    ASSUME ScriptInv, NEW s \in Script, wait_for_terminal_request(s)
    PROVE  /\ OthersKept(s)
           /\ \/ /\ requests[scripts[s].id].status \in TERMINAL_REQUEST_STATUSES
                 /\ Reads(s, "terminal", scripts[s].outcome, requests[scripts[s].id].status,
                          Read(requests[scripts[s].id]))
              \/ /\ requests[scripts[s].id].status = "live"
                 /\ Reads(s, "terminal", scripts[s].outcome, "timeout",
                          Read(requests[scripts[s].id]))
<1> DEFINE row == requests[scripts[s].id]
           seen == IF row.status = "live" THEN "timeout" ELSE row.status
           call == [scripts[s] EXCEPT !.stage = "terminal", !.address = Read(row), !.status = seen]
<1>1. ScriptShape
  BY DEF ScriptInv
<1>2. scripts' = [scripts EXCEPT ![s] = call]
  BY <1>1, Zenon DEF wait_for_terminal_request, ScriptShape, ScriptField
<1>3. /\ DOMAIN call = ScriptField
      /\ call.stage = "terminal" /\ call.outcome = scripts[s].outcome
      /\ call.args = scripts[s].args /\ call.wallet = scripts[s].wallet
      /\ call.id = scripts[s].id /\ call.started = scripts[s].started
      /\ call.status = seen /\ call.address = Read(row)
  BY <1>1 DEF ScriptShape, ScriptField
<1>4. row.status \in TERMINAL_REQUEST_STATUSES \/ row.status = "live"
  BY Zenon DEF wait_for_terminal_request
<1> HIDE DEF call
<1>5. OthersKept(s) /\ Reads(s, "terminal", scripts[s].outcome, seen, Read(row))
  BY <1>1, <1>2, <1>3, Zenon DEF ScriptShape, Reads, SameCall, OthersKept
<1> QED  BY <1>4, <1>5, Zenon DEF TERMINAL_REQUEST_STATUSES

LEMMA CommandPollShape ==
    ASSUME ScriptInv, NEW s \in Script, wait_for_wallet_request(s)
    PROVE  \/ Fails(s)
           \/ /\ OthersKept(s)
              /\ requests[scripts[s].id].status = "approved"
              /\ Reads(s, "ended", "done", "approved", requests[scripts[s].id].address)
<1> DEFINE row == requests[scripts[s].id]
           call == [scripts[s] EXCEPT !.stage = "ended", !.outcome = "done", !.deadline = 0,
                                      !.status = "approved", !.address = row.address]
<1>1. ScriptShape
  BY DEF ScriptInv
<1>2. \/ Fails(s)
      \/ row.status = "approved" /\ scripts' = [scripts EXCEPT ![s] = call]
  BY <1>1, Zenon DEF wait_for_wallet_request, ScriptShape, ScriptField
<1>3. /\ DOMAIN call = ScriptField
      /\ call.stage = "ended" /\ call.outcome = "done"
      /\ call.args = scripts[s].args /\ call.wallet = scripts[s].wallet
      /\ call.id = scripts[s].id /\ call.started = scripts[s].started
      /\ call.status = "approved" /\ call.address = row.address
  BY <1>1 DEF ScriptShape, ScriptField
<1> HIDE DEF call
<1> QED  BY <1>1, <1>2, <1>3, Zenon DEF ScriptShape, Reads, SameCall, OthersKept

LEMMA PollKeeps ==
    ASSUME ScriptInv, NEW s \in Script, PollStatus(s)
    PROVE  ScriptInv'
<1> DEFINE row == requests[scripts[s].id]
<1>1. /\ ScriptShape /\ ScriptOK(s) /\ AuditOK(s) /\ Stands(s, "poll")
      /\ UNCHANGED <<audit, requests, wallets>>
  BY Zenon DEF ScriptInv, PollStatus, daemon
<1>2. scripts[s].id \in DOMAIN requests
  BY <1>1, Zenon DEF ScriptOK, Stands
<1>3. RowOK(scripts[s].id)
  BY <1>2, Zenon DEF ScriptInv, RowsOK
<1>4. CASE scripts[s].args.kind = "create_account"
  <2>1. wait_for_terminal_request(s)
    BY <1>4, Zenon DEF PollStatus
  <2>2. PICK status : /\ OthersKept(s)
                      /\ Reads(s, "terminal", scripts[s].outcome, status, Read(row))
                      /\ \/ status = "timeout"
                         \/ status \in TERMINAL_REQUEST_STATUSES /\ row.status = status
    BY <2>1, CreatePollShape, Zenon
  <2>3. Read(row) # NoAddress => row.status = "approved" /\ row.address = Read(row)
    BY <1>3, Zenon DEF Read, RowOK
  <2>4. ScriptOK(s)'
    BY <1>1, <1>4, <2>2, <2>3, Zenon
    DEF ScriptOK, Reads, SameCall, Stands, ScriptStage, Reported, KeyOf
  <2>5. WroteFirst(audit[s])
    BY <1>1, <1>4, Zenon DEF AuditOK, Stands
  <2>6. AuditOK(s)'
    BY <1>1, <2>2, <2>5, Zenon DEF AuditOK, ScriptOK, Reads, SameCall, Stands, WroteFirst, Reported
  <2>7. OwnStep(s)
    BY <1>1, <2>2, Zenon DEF OwnStep, ScriptShape, Reads, SameCall
  <2> QED  BY <2>4, <2>6, <2>7, OwnStepKeeps
<1>5. CASE scripts[s].args.kind # "create_account"
  <2>1. wait_for_wallet_request(s)
    BY <1>5, Zenon DEF PollStatus
  <2>2. CASE Fails(s)
    BY <1>1, <2>2, FailureKeeps
  <2>3. CASE /\ OthersKept(s) /\ row.status = "approved"
             /\ Reads(s, "ended", "done", "approved", row.address)
    <3>1. ScriptOK(s)'
      BY <1>1, <1>5, <2>3, Zenon
      DEF ScriptOK, Reads, SameCall, Stands, ScriptStage, Reported, KeyOf
    <3>2. AuditOK(s)'
      BY <1>1, <1>5, <2>3, Zenon
      DEF AuditOK, Reads, SameCall, Stands, WroteFirst, WroteBoth, TellsTheEnd, Reported
    <3>3. OwnStep(s)
      BY <1>1, <2>3, Zenon DEF OwnStep, ScriptShape, Reads, SameCall
    <3> QED  BY <3>1, <3>2, <3>3, OwnStepKeeps
  <2> QED  BY <2>1, <2>2, <2>3, CommandPollShape, Zenon
<1> QED  BY <1>4, <1>5, Zenon

\* The second record tells the end the script has seen.
LEMMA RecordTerminalKeeps ==
    ASSUME ScriptInv, NEW s \in Script, RecordTerminal(s)
    PROVE  ScriptInv'
<1>1. PICK r : /\ r = [event |-> "terminal", id |-> scripts[s].id, status |-> scripts[s].status,
                       address |-> scripts[s].address]
               /\ audit' = [audit EXCEPT ![s] = Append(audit[s], r)]
  BY Zenon DEF RecordTerminal
<1>2. /\ ScriptShape /\ ScriptOK(s) /\ AuditOK(s) /\ Stands(s, "terminal")
      /\ UNCHANGED <<requests, wallets>>
  BY DEF ScriptInv, RecordTerminal, daemon
<1>3. r.event = "terminal" /\ r.id = scripts[s].id /\ r.status = scripts[s].status
  BY <1>1, Zenon
<1>4. WroteFirst(audit[s])
  BY <1>2, Zenon DEF AuditOK, Stands
<1>5. DOMAIN audit'[s] = {1, 2} /\ audit'[s][1] = audit[s][1] /\ audit'[s][2] = r
  <2>1. PICK first : audit[s] = <<first>> /\ first = audit[s][1]
    BY <1>4, Zenon DEF WroteFirst
  <2>2. <<first>> \in Seq({first, r}) /\ r \in {first, r}
    OBVIOUS
  <2>3. /\ DOMAIN Append(<<first>>, r) = {1, 2}
        /\ Append(<<first>>, r)[1] = first /\ Append(<<first>>, r)[2] = r
    BY <2>2
  <2> QED  BY <1>1, <1>2, <2>1, <2>3, Zenon DEF ScriptShape
<1>6. TellsTheEnd(r)'
  BY <1>2, <1>3, Zenon DEF TellsTheEnd, ScriptOK, Stands
<1>7. WroteBoth(audit[s])'
  BY <1>4, <1>5, <1>6, Zenon DEF WroteBoth, WroteFirst, TellsTheEnd
<1>8. /\ OthersKept(s)
      /\ \/ scripts[s].status # "approved" /\ GoesTo(s, "ended", "not_approved")
         \/ scripts[s].status = "approved" /\ GoesTo(s, "refresh", scripts[s].outcome)
  BY <1>2, EndsShape, StageShape, Zenon DEF RecordTerminal
<1>9. ScriptOK(s)'
  BY <1>2, <1>8, Zenon
  DEF ScriptOK, GoesTo, SameCall, Stands, ScriptStage, Reported, KeyOf,
      TERMINAL_REQUEST_STATUSES
<1>10. AuditOK(s)'
  BY <1>2, <1>7, <1>8, Zenon DEF AuditOK, GoesTo, SameCall, Stands
<1>11. OwnStep(s)
  BY <1>1, <1>2, <1>8, Zenon DEF OwnStep, ScriptShape, GoesTo, SameCall
<1> QED  BY <1>9, <1>10, <1>11, OwnStepKeeps

\* The stages after the approval, up to the success.
LEMMA ApprovedGoesOn ==
    ASSUME ScriptInv, NEW s \in Script, NEW stage, NEW outcome,
           scripts[s].stage \in {"refresh", "wait", "rename"},
           scripts[s].stage = "refresh" => scripts[s].address # NoAddress,
           \/ stage \in {"wait", "rename"} /\ outcome = scripts[s].outcome
           \/ stage = "ended" /\ outcome = "done",
           GoesTo(s, stage, outcome), OthersKept(s), UNCHANGED <<audit, requests, wallets>>
    PROVE  ScriptInv'
<1>1. ScriptShape /\ ScriptOK(s) /\ AuditOK(s)
  BY Zenon DEF ScriptInv
<1>2. ScriptOK(s)'
  BY <1>1, Zenon DEF ScriptOK, GoesTo, SameCall, ScriptStage, Reported, KeyOf
<1>3. WroteBoth(audit[s])
  BY <1>1, Zenon DEF AuditOK
<1>4. WroteBoth(audit[s])'
  BY <1>3, Zenon DEF WroteBoth, TellsTheEnd
<1>5. AuditOK(s)'
  BY <1>4, Zenon DEF AuditOK, GoesTo, SameCall
<1>6. OwnStep(s)
  BY <1>1, Zenon DEF OwnStep, ScriptShape, GoesTo, SameCall
<1> QED  BY <1>2, <1>5, <1>6, OwnStepKeeps, Zenon

LEMMA RefreshKeeps ==
    ASSUME ScriptInv, NEW s \in Script, RefreshAccounts(s)
    PROVE  ScriptInv'
<1>1. ScriptShape /\ scripts[s].stage = "refresh" /\ UNCHANGED <<audit, requests, wallets>>
  BY DEF ScriptInv, RefreshAccounts, Stands, daemon
<1>2. CASE Fails(s)
  BY <1>1, <1>2, FailureKeeps, Zenon
<1>3. CASE scripts[s].address # NoAddress /\ Ends(s, "done")
  BY <1>1, <1>3, EndsShape, ApprovedGoesOn
<1>4. CASE /\ scripts[s].address # NoAddress
           /\ scripts' = [scripts EXCEPT ![s].stage = "rename"]
  <2>1. GoesTo(s, "rename", scripts[s].outcome) /\ OthersKept(s)
    BY <1>1, <1>4, StageShape, Zenon
  <2> QED  BY <1>1, <1>4, <2>1, ApprovedGoesOn
<1>5. ASSUME NEW deadline, scripts[s].address # NoAddress,
             scripts' = [scripts EXCEPT ![s].stage = "wait", ![s].deadline = deadline]
      PROVE  ScriptInv'
  <2>1. GoesTo(s, "wait", scripts[s].outcome) /\ OthersKept(s)
    BY <1>1, <1>5, WaitShape, Zenon
  <2> QED  BY <1>1, <1>5, <2>1, ApprovedGoesOn
<1> QED  BY <1>2, <1>3, <1>4, <1>5, Zenon DEF RefreshAccounts

LEMMA WaitKeeps ==
    ASSUME ScriptInv, NEW s \in Script, WaitForAccount(s)
    PROVE  ScriptInv'
<1>1. ScriptShape /\ scripts[s].stage = "wait" /\ UNCHANGED <<audit, requests, wallets>>
  BY Zenon DEF ScriptInv, WaitForAccount, Stands, daemon
<1>2. CASE Ends(s, "done")
  BY <1>1, <1>2, EndsShape, ApprovedGoesOn
<1>3. CASE scripts' = [scripts EXCEPT ![s].stage = "rename"]
  <2>1. GoesTo(s, "rename", scripts[s].outcome) /\ OthersKept(s)
    BY <1>1, <1>3, StageShape, Zenon
  <2> QED  BY <1>1, <2>1, ApprovedGoesOn
<1> QED  BY <1>2, <1>3 DEF WaitForAccount, wait_for_account

LEMMA LabelKeeps ==
    ASSUME ScriptInv, NEW s \in Script, SetAccountLabel(s)
    PROVE  ScriptInv'
<1>1. /\ ScriptShape /\ scripts[s].stage = "rename" /\ Ends(s, "done")
      /\ UNCHANGED <<audit, requests, wallets>>
  BY Zenon DEF ScriptInv, SetAccountLabel, Stands
<1> QED  BY <1>1, EndsShape, ApprovedGoesOn

LEMMA FaultKeeps ==
    ASSUME ScriptInv, NEW s \in Script, CallFails(s) \/ InterruptScript(s)
    PROVE  ScriptInv'
<1>1. ScriptShape /\ UNCHANGED <<audit, requests, wallets>>
  BY Zenon DEF ScriptInv, CallFails, InterruptScript, daemon
<1>2. CASE Fails(s)
  BY <1>1, <1>2, FailureKeeps, Zenon
<1>3. CASE scripts[s].stage \in {"wait", "rename"} /\ Ends(s, "done")
  BY <1>1, <1>3, EndsShape, ApprovedGoesOn
<1> QED  BY <1>2, <1>3, Zenon DEF CallFails, InterruptScript
----------------------------------------------------------------------------
(* The daemon and the wallets.                                             *)

\* A step of theirs.
LEMMA DaemonKeeps ==
    ASSUME ScriptInv, UNCHANGED <<scripts, audit>>, RowsPersist, ScriptShape', RowsOK',
           AccountsApart'
    PROVE  ScriptInv'
<1>1. ASSUME NEW s \in Script  PROVE ScriptOK(s)' /\ AuditOK(s)'
  BY ScriptKept, AuditKept, Zenon DEF ScriptInv
<1> QED  BY <1>1, Zenon DEF ScriptInv

\* One request changes.
RowGoes(id, status, address) ==
    /\ DOMAIN requests' = DOMAIN requests /\ DOMAIN requests'[id] = RowField
    /\ \A x \in DOMAIN requests \ {id} : requests'[x] = requests[x]
    /\ requests'[id].kind = requests[id].kind /\ requests'[id].wallet = requests[id].wallet
    /\ requests'[id].status = status /\ requests'[id].address = address

\* A new account is none that a wallet has.
LEMMA NewIsNew ==
    ASSUME ScriptShape, NEW n \in NewAddress
    PROVE  n \in Nat /\ \A w \in Wallet : n \notin wallets[w].accounts
BY DEF NewAddress, ScriptShape

LEMMA ApproveKeeps ==
    ASSUME ScriptInv, NEW id \in DOMAIN requests, Approve(id)
    PROVE  ScriptInv'
<1> DEFINE w == requests[id].wallet
<1>1. ScriptShape /\ RowsOK /\ AccountsApart /\ RowOK(id)
  BY DEF ScriptInv, RowsOK
<1>2. requests[id].status = "live" /\ UNCHANGED <<scripts, audit>> /\ w \in Wallet
  BY <1>1 DEF Approve, RowOK
<1>3. PICK address \in IF requests[id].kind = "create_account" THEN NewAddress ELSE {0} :
         /\ requests' = [requests EXCEPT ![id] =
                [requests[id] EXCEPT !.status = "approved", !.address = address, !.result = TRUE,
                                     !.result_expires_at = now + ResultRetention]]
         /\ wallets' = [wallets EXCEPT ![w].accounts =
                           IF requests[id].kind = "export_account" THEN @ ELSE @ \cup {address}]
  BY Zenon DEF Approve
<1>4. /\ address \in Nat
      /\ requests[id].kind = "create_account" =>
            \A v \in Wallet : address \notin wallets[v].accounts
  BY <1>1, <1>3, NewIsNew
<1>5. RowGoes(id, "approved", address) /\ requests'[id].result = TRUE
  BY <1>1, <1>3, Zenon DEF RowGoes, ScriptShape, RowField
<1>6. /\ DOMAIN wallets' = Wallet
      /\ \A v \in Wallet : /\ DOMAIN wallets'[v] = DOMAIN wallets[v]
                            /\ wallets[v].accounts \subseteq wallets'[v].accounts
                            /\ wallets'[v].accounts \subseteq Nat
      /\ requests[id].kind # "export_account" => address \in wallets'[w].accounts
  BY <1>1, <1>2, <1>3, <1>4, Zenon DEF ScriptShape
<1>7. RowsPersist
  BY <1>2, <1>5, Zenon DEF RowsPersist, RowGoes, TERMINAL_REQUEST_STATUSES
<1>8. ScriptShape'
  BY <1>1, <1>2, <1>5, <1>6 DEF ScriptShape, RowGoes
<1>9. RowsOK'
  <2>1. ASSUME NEW x \in DOMAIN requests, x # id  PROVE RowOK(x)'
    <3>1. RowOK(x) /\ requests'[x] = requests[x]
      BY <1>1, <1>5, <2>1, Zenon DEF RowsOK, RowGoes
    <3>2. requests[x].wallet \in Wallet
      BY <3>1, Zenon DEF RowOK
    <3> QED  BY <1>6, <3>1, <3>2, RowKept, Zenon
  <2>2. RowOK(id)'
    BY <1>2, <1>4, <1>5, <1>6, Zenon DEF RowOK, RowGoes, TERMINAL_REQUEST_STATUSES
  <2> QED  BY <1>5, <2>1, <2>2, Zenon DEF RowsOK, RowGoes
<1>10. AccountsApart'
  <2>1. ASSUME NEW x \in DOMAIN requests, x # id, Created(x), requests[id].kind = "create_account"
        PROVE  requests[x].address # address
    BY <1>1, <1>4, <2>1, Zenon DEF RowsOK, RowOK, Created
  <2> QED  BY <1>1, <1>5, <2>1 DEF AccountsApart, Created, RowGoes
<1> QED  BY <1>2, <1>7, <1>8, <1>9, <1>10, DaemonKeeps, Zenon

\* A request that ends without an account, and a result that is evicted.
LEMMA RowStepKeeps ==
    ASSUME ScriptInv, NEW id \in DOMAIN requests, NEW status,
           RowGoes(id, status, requests[id].address),
           \/ /\ requests[id].status = "live" /\ requests'[id].result = requests[id].result
              /\ status \in TERMINAL_REQUEST_STATUSES \ {"approved"}
           \/ status = requests[id].status /\ requests'[id].result = FALSE,
           UNCHANGED <<scripts, audit, wallets>>
    PROVE  ScriptInv'
<1>1. ScriptShape /\ RowsOK /\ AccountsApart /\ RowOK(id)
  BY Zenon DEF ScriptInv, RowsOK
<1>2. RowsPersist
  BY Zenon DEF RowsPersist, RowGoes, TERMINAL_REQUEST_STATUSES
<1>3. ScriptShape'
  BY <1>1, Zenon DEF ScriptShape, RowGoes
<1>4. RowOK(id)'
  BY <1>1, Zenon DEF RowOK, RowGoes, TERMINAL_REQUEST_STATUSES
<1>5. RowsOK'
  <2>1. ASSUME NEW x \in DOMAIN requests, x # id  PROVE RowOK(x)'
    <3>1. RowOK(x) /\ requests'[x] = requests[x]
      BY <1>1, <2>1, Zenon DEF RowsOK, RowGoes
    <3> QED  BY <3>1, RowKept, Zenon
  <2> QED  BY <1>4, <2>1, Zenon DEF RowsOK, RowGoes
<1>6. AccountsApart'
  <2>1. ASSUME NEW x \in DOMAIN requests', Created(x)'
        PROVE  /\ x \in DOMAIN requests /\ Created(x)
               /\ requests'[x].address = requests[x].address
    BY <2>1, Zenon DEF Created, RowGoes
  <2> QED  BY <1>1, <2>1, AccountsStayApart, Zenon
<1> QED  BY <1>2, <1>3, <1>5, <1>6, DaemonKeeps, Zenon

LEMMA EndKeeps ==
    ASSUME ScriptInv, NEW id \in DOMAIN requests,
           \/ \E status \in Refusal : Refuse(id, status)
           \/ EvictResult(id) \/ Expire(id)
    PROVE  ScriptInv'
<1>1. ScriptShape /\ UNCHANGED <<scripts, audit, wallets>>
  BY DEF ScriptInv, Refuse, EvictResult, Expire
<1>2. ASSUME NEW status \in TERMINAL_REQUEST_STATUSES \ {"approved"},
             requests[id].status = "live", requests' = [requests EXCEPT ![id].status = status]
      PROVE  ScriptInv'
  <2>1. RowGoes(id, status, requests[id].address) /\ requests'[id].result = requests[id].result
    BY <1>1, <1>2, Zenon DEF RowGoes, ScriptShape, RowField
  <2> QED  BY <1>1, <1>2, <2>1, RowStepKeeps, Zenon
<1>3. CASE EvictResult(id)
  <2>1. /\ RowGoes(id, requests[id].status, requests[id].address)
        /\ requests'[id].result = FALSE
    BY <1>1, <1>3 DEF EvictResult, RowGoes, ScriptShape, RowField
  <2> QED  BY <1>1, <2>1, RowStepKeeps, Zenon
<1>4. CASE Expire(id)
  BY <1>2, <1>4, Zenon DEF Expire, TERMINAL_REQUEST_STATUSES
<1>5. ASSUME NEW status \in Refusal, Refuse(id, status)  PROVE ScriptInv'
  <2>1. status \in TERMINAL_REQUEST_STATUSES \ {"approved"}
    BY ScriptAssumption, Zenon DEF TERMINAL_REQUEST_STATUSES
  <2> QED  BY <1>2, <1>5, <2>1, Zenon DEF Refuse
<1> QED  BY <1>3, <1>4, <1>5, Zenon

LEMMA WalletKeeps ==
    ASSUME ScriptInv, NEW w \in Wallet, ListAccounts(w) \/ WalletComesOrGoes(w)
    PROVE  ScriptInv'
<1>1. UNCHANGED <<scripts, audit, requests>>
  BY DEF ListAccounts, WalletComesOrGoes
<1>2. /\ DOMAIN wallets' = Wallet
      /\ \A v \in Wallet : /\ DOMAIN wallets'[v] = DOMAIN wallets[v]
                            /\ wallets'[v].accounts = wallets[v].accounts
  BY DEF ScriptInv, ScriptShape, ListAccounts, WalletComesOrGoes
<1>3. RowsPersist
  BY <1>1, Zenon DEF RowsPersist
<1>4. ScriptShape'
  BY <1>1, <1>2, Zenon DEF ScriptInv, ScriptShape
<1>5. RowsOK' /\ AccountsApart'
  BY <1>1, <1>2, RequestsKept, Zenon DEF ScriptInv
<1> QED  BY <1>1, <1>3, <1>4, <1>5, DaemonKeeps, Zenon

----------------------------------------------------------------------------
(* The results.                                                            *)

LEMMA ScriptInvInit == ScriptInit => ScriptInv
<1> SUFFICES ASSUME ScriptInit PROVE ScriptInv
  OBVIOUS
<1>1. DOMAIN requests = {}
  BY DEF ScriptInit
<1>2. ScriptShape
  BY <1>1, Zenon DEF ScriptInit, ScriptShape, Fresh, ScriptField
<1>3. RowsOK /\ AccountsApart
  BY <1>1, Zenon DEF RowsOK, AccountsApart
<1>4. ASSUME NEW s \in Script  PROVE ScriptOK(s) /\ AuditOK(s)
  <2>1. scripts[s].stage = "new" /\ scripts[s].outcome = "none" /\ audit[s] = <<>>
    BY Zenon DEF ScriptInit, Fresh
  <2> QED  BY <2>1, Zenon DEF ScriptOK, AuditOK, ScriptStage, Reported
<1> QED  BY <1>2, <1>3, <1>4, Zenon DEF ScriptInv

LEMMA ScriptInvNext == ScriptInv /\ [ScriptNext]_scriptVars => ScriptInv'
<1> SUFFICES ASSUME ScriptInv, [ScriptNext]_scriptVars PROVE ScriptInv'
  OBVIOUS
<1>1. ASSUME NEW s \in Script, NEW args \in Arguments, StartScript(s, args)  PROVE ScriptInv'
  BY <1>1, StartScriptKeeps
<1>2. ASSUME NEW s \in Script, ScriptStep(s)  PROVE ScriptInv'
  BY <1>2, CreateKeeps, RecordCreatedKeeps, PollKeeps, RecordTerminalKeeps, RefreshKeeps,
     WaitKeeps, LabelKeeps, Zenon DEF ScriptStep
<1>3. ASSUME NEW s \in Script, CallFails(s) \/ InterruptScript(s)  PROVE ScriptInv'
  BY <1>3, FaultKeeps, Zenon
<1>4. CASE DaemonStep
  BY <1>4, ApproveKeeps, EndKeeps, Zenon DEF DaemonStep
<1>5. CASE Maintenance
  BY <1>5, EndKeeps, Zenon DEF Maintenance
<1>6. ASSUME NEW w \in Wallet, ListAccounts(w) \/ WalletComesOrGoes(w)  PROVE ScriptInv'
  BY <1>6, WalletKeeps
<1>7. ASSUME UNCHANGED <<scripts, audit, requests, wallets>>  PROVE ScriptInv'
  <2>1. RowsPersist
    BY <1>7, Zenon DEF RowsPersist
  <2>2. ScriptShape' /\ RowsOK' /\ AccountsApart'
    BY <1>7, Zenon DEF ScriptInv, ScriptShape, RowsOK, RowOK, AccountsApart, Created
  <2> QED  BY <1>7, <2>1, <2>2, DaemonKeeps, Zenon
<1>8. CASE AdvanceClock
  BY <1>7, <1>8, Zenon DEF AdvanceClock, daemon
<1>9. CASE UNCHANGED scriptVars
  BY <1>7, <1>9, Zenon DEF scriptVars
<1> QED  BY <1>1, <1>2, <1>3, <1>4, <1>5, <1>6, <1>8, <1>9, Zenon DEF ScriptNext

LEMMA ScriptInvariant == ScriptSpec => []ScriptInv
BY ScriptInvInit, ScriptInvNext, PTL DEF ScriptSpec

\* Two runs that report one new account asked under one key.
LEMMA KeysTell ==
    ASSUME ScriptInv
    PROVE  SharedOnlyByKey
<1> SUFFICES ASSUME NEW s \in Script, NEW t \in Script,
                    s # t, scripts[s].outcome = "done", scripts[t].outcome = "done",
                    scripts[s].args.kind = "create_account",
                    scripts[t].args.kind = "create_account",
                    scripts[s].address = scripts[t].address
             PROVE  \/ /\ scripts[s].args.id # Omitted
                       /\ scripts[s].args.id = scripts[t].args.id
                    \/ /\ scripts[s].args.id = Omitted
                       /\ scripts[s].started = scripts[t].started
  BY Zenon DEF SharedOnlyByKey
<1>1. ASSUME NEW u \in {s, t}
      PROVE  /\ scripts[u].id \in DOMAIN requests /\ Created(scripts[u].id)
             /\ requests[scripts[u].id].address = scripts[u].address
             /\ scripts[u].id = KeyOf(u, scripts[u].args, scripts[u].started)
  <2>1. u \in Script /\ scripts[u].outcome = "done" /\ scripts[u].args.kind = "create_account"
    BY Zenon
  <2>2. ScriptOK(u)
    BY <2>1, Zenon DEF ScriptInv
  <2> QED  BY <2>1, <2>2, Zenon DEF ScriptOK, Created, Reported
<1>2. scripts[s].id = scripts[t].id
  BY <1>1, Zenon DEF ScriptInv, AccountsApart
<1>3. KeyOf(s, scripts[s].args, scripts[s].started) = KeyOf(t, scripts[t].args, scripts[t].started)
  BY <1>1, <1>2, Zenon
<1> QED  BY <1>3, Zenon DEF KeyOf

\* The file is empty, or has one record, or has both.
LEMMA NoneWritten ==
    ASSUME NEW a, a = <<>>
    PROVE  DOMAIN a = {} /\ ~WroteBoth(a)
BY DEF WroteBoth

LEMMA FirstWritten ==
    ASSUME NEW a, WroteFirst(a)
    PROVE  DOMAIN a = {1} /\ a[1].event = "created" /\ ~WroteBoth(a)
<1>1. DOMAIN a = {1} /\ a[1].event = "created"
  BY DEF WroteFirst
<1>2. 2 \notin DOMAIN a
  BY <1>1
<1> QED  BY <1>1, <1>2, Zenon DEF WroteBoth

LEMMA RecordsTell ==
    ASSUME ScriptInv
    PROVE  AuditIsRight
<1> SUFFICES ASSUME NEW s \in Script
             PROVE  /\ \A i \in DOMAIN audit[s] :
                          audit[s][i].event = "terminal" /\ audit[s][i].status # "timeout" =>
                             requests[audit[s][i].id].status = audit[s][i].status
                    /\ /\ scripts[s].outcome \in {"done", "not_approved"}
                       /\ scripts[s].args.kind = "create_account"
                       => [i \in DOMAIN audit[s] |-> audit[s][i].event] = <<"created", "terminal">>
  BY Zenon DEF AuditIsRight
<1>1. AuditOK(s)
  BY Zenon DEF ScriptInv
<1>2. CASE audit[s] = <<>>
  <2>1. DOMAIN audit[s] = {} /\ ~WroteBoth(audit[s])
    BY <1>2, NoneWritten, Zenon
  <2> QED  BY <1>1, <2>1, Zenon DEF AuditOK, Reported
<1>3. CASE WroteFirst(audit[s])
  <2>1. DOMAIN audit[s] = {1} /\ audit[s][1].event = "created" /\ ~WroteBoth(audit[s])
    BY <1>3, FirstWritten, Zenon
  <2> QED  BY <1>1, <2>1, Zenon DEF AuditOK, Reported
<1>4. CASE WroteBoth(audit[s])
  <2>1. /\ DOMAIN audit[s] = {1, 2} /\ audit[s][1].event = "created"
        /\ TellsTheEnd(audit[s][2])
    BY <1>4, Zenon DEF WroteBoth
  <2>2. [i \in DOMAIN audit[s] |-> audit[s][i].event] = <<"created", "terminal">>
    BY <2>1 DEF TellsTheEnd
  <2> QED  BY <2>1, <2>2, Zenon DEF TellsTheEnd
<1> QED  BY <1>1, <1>2, <1>3, <1>4, Zenon DEF AuditOK

\* What a script that asks for an account leaves behind is so, for any number of
\* scripts and wallets, whatever is lost, interrupted or evicted: a run that
\* exits with code 0 names the account of its own approved request; two runs
\* share a new account only under one client_request_id; the audit file of
\* run_create_account.py has both records of a run that reports, and the end it
\* tells is the request's.
THEOREM ReportsCorrect == ScriptSpec => []ReportsAreSound
<1>1. ScriptInv => ReportedWasApproved
  <2> SUFFICES ASSUME ScriptInv, NEW s \in Script, scripts[s].outcome = "done"
               PROVE  /\ scripts[s].id \in DOMAIN requests
                      /\ requests[scripts[s].id].status = "approved"
                      /\ requests[scripts[s].id].address = scripts[s].address
                      /\ requests[scripts[s].id].kind = scripts[s].args.kind
                      /\ requests[scripts[s].id].wallet = scripts[s].wallet
                      /\ scripts[s].args.kind # "export_account" =>
                            scripts[s].address \in wallets[scripts[s].wallet].accounts
    BY Zenon DEF ReportedWasApproved
  <2>1. /\ scripts[s].id \in DOMAIN requests
        /\ requests[scripts[s].id].status = "approved"
        /\ requests[scripts[s].id].address = scripts[s].address
        /\ requests[scripts[s].id].kind = scripts[s].args.kind
        /\ requests[scripts[s].id].wallet = scripts[s].wallet
    BY Zenon DEF ScriptInv, ScriptOK, Reported
  <2>2. RowOK(scripts[s].id)
    BY <2>1, Zenon DEF ScriptInv, RowsOK
  <2> QED  BY <2>1, <2>2, Zenon DEF RowOK
<1>2. ScriptInv => ReportsAreSound
  BY <1>1, KeysTell, RecordsTell DEF ReportsAreSound
<1> QED  BY <1>2, ScriptInvariant, PTL

\* --account-name: wallet.setAccountLabel is only called for the account that
\* the run's own request created, once the daemon lists it in the run's wallet,
\* whatever other accounts appear meanwhile.
THEOREM NamesCorrect == ScriptSpec => NamesItsOwnAccount
<1> DEFINE Named(s) ==
        /\ scripts[s].stage = "rename" /\ scripts'[s].stage = "ended"
        /\ LET at == <<scripts[s].wallet, requests[scripts[s].id].address>>
           IN  /\ at[2] \in wallets[at[1]].listed
               /\ labels' = Put(labels, at, scripts[s].args.name)
<1>1. ASSUME ScriptInv, [ScriptNext]_scriptVars
      PROVE  [labels' # labels => \E s \in Script : Named(s)]_scriptVars
  <2>1. ASSUME NEW s \in Script, SetAccountLabel(s), labels' # labels  PROVE Named(s)
    <3>1. /\ scripts[s].stage = "rename" /\ find_account_for_instance(s) /\ Ends(s, "done")
          /\ labels' = Put(labels, <<scripts[s].wallet, scripts[s].address>>,
                           scripts[s].args.name)
      BY <2>1, Zenon DEF SetAccountLabel, Stands
    <3>2. scripts'[s].stage = "ended"
      BY <1>1, <3>1, EndsShape, Zenon DEF ScriptInv, GoesTo
    <3>3. requests[scripts[s].id].address = scripts[s].address
      BY <1>1, <3>1, Zenon DEF ScriptInv, ScriptOK
    <3> QED  BY <3>1, <3>2, <3>3, Zenon DEF find_account_for_instance
  <2>2. ASSUME NEW s \in Script, ScriptStep(s), labels' # labels  PROVE SetAccountLabel(s)
    BY <2>2, Zenon DEF ScriptStep, CreateRequest, RecordCreated, PollStatus, RecordTerminal,
                RefreshAccounts, WaitForAccount, daemon
  <2>3. ASSUME ScriptNext, labels' # labels  PROVE \E s \in Script : ScriptStep(s)
    BY <2>3, Zenon DEF ScriptNext, StartScript, CallFails, InterruptScript, DaemonStep, Approve,
                Refuse, EvictResult, Maintenance, Expire, ListAccounts, WalletComesOrGoes,
                AdvanceClock, daemon
  <2> QED  BY <1>1, <2>1, <2>2, <2>3, Zenon DEF scriptVars
<1> QED  BY <1>1, ScriptInvariant, PTL DEF ScriptSpec, NamesItsOwnAccount
============================================================================
