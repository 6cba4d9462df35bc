-------------------------------- MODULE Styx --------------------------------
(* The Lens that runs programs: it carries out one Act at a time, a process, *)
(* an operation on a terminal or a container, while open terminals live on  *)
(* by themselves, and closes what is open when it is unmounted.             *)
EXTENDS ProcessRunner, PtySession

CONSTANTS NoTerminal,
          Workloads   \* bounds: [acts, output], how many Acts of each kind there may be,
                      \* and how many chunks of a terminal's output may be owed

ASSUME NoTerminalAssumption == NoTerminal \notin Terminals

(***************************************************************************)
(* remote.execute: a container is created, given its input, run, emptied    *)
(* and removed, each by one run of the docker command.  A command that is   *)
(* cut short, because it takes too long or the Act was stopped, may have    *)
(* had its effect or not; the runner's own steps are left out.              *)
(***************************************************************************)
VARIABLE box   \* the container, the step, and what was seen of the commands

NoBox == [st |-> "none",      \* none, made, up, down or gone
          pc |-> "idle",
          exit0 |-> FALSE, cancelled |-> FALSE,
          left |-> FALSE,     \* history: a command that must remove or stop it did not
          verified |-> FALSE] \* remote.destroyed says that it is gone

BoxInit == box = NoBox

Outcomes == {"ok", "failed", "cut"}

\* The state after a command that should lead to st.
After(outcome, st, effect) ==
  IF outcome = "ok" \/ (outcome = "cut" /\ effect) THEN st ELSE box.st

Create(outcome, effect) ==
  /\ box.pc = "create"
  /\ box' = [box EXCEPT !.st = After(outcome, "made", effect),
                        !.pc = IF outcome = "ok" THEN "upload" ELSE "ended",
                        !.left = outcome = "cut" /\ effect]

\* A mutant: a refused input ends the Act at once.
UploadRefused(outcome, named) ==
  /\ box.pc = "upload"
  /\ box' = [box EXCEPT !.pc = IF ~named THEN "ended"
                               ELSE IF outcome = "ok" THEN "start" ELSE "clean_up"]

(* An input that names no allowed place is refused.                         *)
Upload(outcome, named) ==
  /\ box.pc = "upload"
  /\ box' = [box EXCEPT !.pc = IF named /\ outcome = "ok" THEN "start" ELSE "clean_up"]

(* Attached: the command ends with the container, or without it.            *)
Start(outcome, effect, stopped) ==
  /\ box.pc = "start"
  /\ box' = [box EXCEPT
       !.st = IF outcome = "cut" THEN (IF effect THEN "up" ELSE "made") ELSE "down",
       !.exit0 = outcome = "ok",
       !.cancelled = outcome = "cut" /\ stopped,
       !.pc = IF stopped THEN "kill" ELSE IF outcome = "ok" THEN "download" ELSE "remove"]

Kill(outcome, effect) ==
  /\ box.pc = "kill"
  /\ box' = [box EXCEPT !.st = IF box.st = "up" THEN After(outcome, "down", effect) ELSE @,
                        !.pc = IF box.exit0 THEN "download" ELSE "remove"]

Download(outcome, named) ==
  /\ box.pc = "download"
  /\ box' = [box EXCEPT !.pc = IF named /\ outcome = "ok" THEN "remove" ELSE "clean_up"]

(* Only the last removal is looked at and told.                             *)
Remove(outcome, effect) ==
  /\ box.pc \in {"clean_up", "remove"}
  /\ box' = [box EXCEPT !.st = After(outcome, "gone", effect),
                        !.verified = box.pc = "remove" /\ outcome = "ok",
                        !.left = @ \/ outcome = "failed" \/ (outcome = "cut" /\ ~effect),
                        !.pc = "ended"]

Docker(outcome, effect, named, stopped) ==
  \/ Create(outcome, effect) \/ Upload(outcome, named)
  \/ Start(outcome, effect, stopped) \/ Kill(outcome, effect)
  \/ Download(outcome, named) \/ Remove(outcome, effect)

VARIABLES
  act,        \* the kind of the Act being carried out, or "none"
  terminal,   \* terminals: the session behind the one session_ref
  mounted,
  work        \* what is left of the workload

vars == <<platform, stop, run, tree, pipe, feed, pty, call, box, act, terminal, mounted, work>>
others == <<platform, stop, act, terminal, mounted, work>>

Init ==
  /\ RunInit /\ PtyInit /\ BoxInit
  /\ act = "none" /\ terminal = NoTerminal /\ mounted = TRUE
  /\ work \in Workloads

(***************************************************************************)
(* refract: which Act, and how it ends.                                    *)
(***************************************************************************)
Takes(kind) ==
  /\ act = "none" /\ mounted /\ work.acts[kind] > 0
  /\ work' = [work EXCEPT !.acts[kind] = @ - 1]
  /\ stop' = FALSE

Begins(kind) ==
  /\ Takes(kind) /\ act' = kind
  /\ UNCHANGED <<platform, mounted>>

Exec(input) ==
  /\ Begins("process.exec") /\ Launch(input)
  /\ UNCHANGED <<pty, call, box, terminal>>

(* A module of WebAssembly is run by its runtime, without input.            *)
WasmInvoke ==
  /\ Begins("wasm.invoke") /\ Launch(FALSE)
  /\ UNCHANGED <<pty, call, box, terminal>>

(* An Act that is refused, or whose program the system does not start: its  *)
(* pipes, and under Windows a child that no job can hold, are closed again. *)
NotStarted ==
  /\ Takes("refused")
  /\ UNCHANGED <<platform, runVars, pty, call, box, act, terminal, mounted>>

ExecEnds ==
  /\ act \in {"process.exec", "wasm.invoke"} /\ run.pc = "returned"
  /\ run' = NoRun /\ tree' = NoTree /\ pipe' = "empty" /\ feed' = "none"
  /\ act' = "none"
  /\ UNCHANGED <<platform, stop, pty, call, box, terminal, mounted, work>>

Unused == {t \in Terminals : pty[t].st = "none"}

(* The process is started before its name is looked up; when the name is    *)
(* taken the new session is destroyed, which closes it.                     *)
PtyOpen(t) ==
  /\ t \in Unused /\ t = CHOOSE u \in Unused : TRUE
  /\ Begins("pty.open")
  /\ pty' = [pty EXCEPT ![t] = Opened]
  /\ IF terminal = NoTerminal THEN terminal' = t /\ CallOn(t, "take")
     ELSE CallOn(t, "hangup") /\ UNCHANGED terminal
  /\ UNCHANGED <<runVars, box>>

PtyWrite ==
  /\ terminal # NoTerminal /\ Begins("pty.write")
  /\ CallOn(terminal, "write")
  /\ UNCHANGED <<runVars, pty, box, terminal>>

PtyResize ==
  /\ terminal # NoTerminal /\ Begins("pty.resize")
  /\ CallOn(terminal, "resize")
  /\ UNCHANGED <<runVars, pty, box, terminal>>

PtyClose ==
  /\ terminal # NoTerminal /\ Begins("pty.close")
  /\ CallOn(terminal, "hangup") /\ terminal' = NoTerminal
  /\ UNCHANGED <<runVars, pty, box>>

PtyEnds ==
  /\ call.pc \in {"done", "failed"}
  /\ call' = NoCall /\ act' = "none"
  /\ UNCHANGED <<platform, stop, runVars, pty, box, terminal, mounted, work>>

RemoteExecute ==
  /\ Begins("remote.execute")
  /\ box' = [NoBox EXCEPT !.pc = "create"]
  /\ UNCHANGED <<runVars, pty, call, terminal>>

RemoteEnds ==
  /\ box.pc = "ended" /\ act = "remote.execute"
  /\ box' = NoBox /\ act' = "none"
  /\ UNCHANGED <<platform, stop, runVars, pty, call, terminal, mounted, work>>

Stop ==
  /\ act # "none" /\ act # "unmount" /\ ~stop
  /\ stop' = TRUE
  /\ UNCHANGED <<platform, runVars, pty, call, box, act, terminal, mounted, work>>

(* The destructor closes every terminal that is still registered.           *)
Unmount ==
  /\ act = "none" /\ mounted
  /\ mounted' = FALSE /\ terminal' = NoTerminal
  /\ IF terminal = NoTerminal THEN UNCHANGED <<act, call>>
     ELSE act' = "unmount" /\ CallOn(terminal, "hangup")
  /\ UNCHANGED <<platform, stop, runVars, pty, box, work>>

Runner == RunSteps /\ UNCHANGED <<others, pty, call, box>>
Terminal == \E t \in Terminals : CallSteps(t, Windows, act = "pty.close") /\ UNCHANGED <<others, runVars, box>>
Docks ==
  /\ \E o \in Outcomes, effect, named \in BOOLEAN : Docker(o, effect, named, stop)
  /\ UNCHANGED <<others, runVars, pty, call>>
ThreadOf(t) == Threads(t, Windows) /\ UNCHANGED <<others, runVars, box>>
Clock == ClockRunsOut /\ UNCHANGED <<others, pty, call, box>>
Feeder == FeedBreaks /\ UNCHANGED <<others, pty, call, box>>
Outside ==
  \/ Programs /\ UNCHANGED <<others, pty, call, box>>
  \/ (\E t \in Terminals : InTerminal(t, work.output) \/ IdleTimeout(t, Windows)) /\ UNCHANGED <<others, runVars, box>>

Ends == ExecEnds \/ PtyEnds \/ RemoteEnds

Next ==
  /\ ~Dead
  /\ \/ \E input \in BOOLEAN : Exec(input)
     \/ \E t \in Terminals : PtyOpen(t) \/ ThreadOf(t)
     \/ NotStarted \/ WasmInvoke \/ PtyWrite \/ PtyResize \/ PtyClose \/ RemoteExecute \/ Stop \/ Unmount \/ Ends
     \/ Runner \/ Terminal \/ Docks \/ Clock \/ Feeder \/ Outside

Spec ==
  /\ Init /\ [][Next]_vars
  /\ WF_vars(Runner) /\ WF_vars(Terminal) /\ WF_vars(Docks) /\ WF_vars(Ends)
  /\ WF_vars(Clock) /\ WF_vars(Feeder)
  /\ \A t \in Terminals : WF_vars(ThreadOf(t))

(***************************************************************************)
(* Properties.                                                             *)
(***************************************************************************)
\* A program writes as fast as it is drained, for ever.
Flooded == <>[](run.pc \in {"drain", "last"}) /\ []<>(pipe = "data")

(* Every Act ends: a process by itself or by its deadline, a terminal's      *)
(* threads when they are told to stop.  Left out are a program that writes   *)
(* as fast as it is drained, which keeps the loop from its clock             *)
(* (process_runner.cpp:103-112), a daemon that the signal of a broken pipe   *)
(* ends, and under POSIX a program in the background that keeps the input    *)
(* open and never reads it.                                                 *)
ActsEnd ==
  \/ Flooded
  \/ act # "none" ~> \/ act = "none" \/ Dead
                     \/ ~Windows /\ run.pc = "join" /\ feed = "writing"

(* A terminal's process runs only while the session is registered or an      *)
(* operation on it is in progress: none is left by a name that was taken,   *)
(* by a close or by unmounting.                                             *)
NoStrayTerminal ==
  \A t \in Terminals :
    pty[t].child = "running" => t = terminal \/ (call.pc # "none" /\ call.on = t)

(* When pty.close has closed a session, every chunk that its reader ever took *)
(* from the terminal is in a photon, or was overwritten and a photon says    *)
(* that output was truncated, but for what a call took whose photons failed. *)
(* What no reader took before it was told to stop, and what a destructor     *)
(* takes, is told to nobody (pty_session.cpp:120-123, 291-313, 457-469).     *)
OutputIsTold ==
  \A t \in Terminals : pty[t].st = "closed" => pty[t].owed = pty[t].spilled

(* No path through remote.execute leaves the container behind unless a       *)
(* command of docker failed or was cut short, and what is told as verified  *)
(* is true.                                                                 *)
ContainersAreRemoved ==
  box.pc = "ended" => /\ box.left \/ box.st \in {"none", "gone"}
                      /\ box.verified => box.st = "gone"
=============================================================================
