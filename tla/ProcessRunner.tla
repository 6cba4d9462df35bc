--------------------------- MODULE ProcessRunner ---------------------------
(* run_process: a child process, a process it may leave in the background,  *)
(* the pipe of their output, the thread that feeds their input, and the     *)
(* loop that drains, watches the clock and stops them.  Both builds are     *)
(* modelled: a process group under POSIX, a job object under Windows.       *)
(* stdout and stderr are one pipe; the three deadlines are one clock.       *)
EXTENDS Naturals

VARIABLES
  platform,   \* "posix" or "windows": which build this is
  stop,       \* the stop token of the Act being carried out
  run,        \* the loop: its step, whether the clock ran out, its verdict
  tree,       \* the child and the background process it started
  pipe,       \* whether output waits in the pipe
  feed        \* the thread that writes stdin_text

runVars == <<run, tree, pipe, feed>>

Windows == platform = "windows"
NoRun == [pc |-> "idle", late |-> FALSE, verdict |-> "none",
          forced |-> FALSE]
NoTree == [child |-> "none", background |-> "none"]

RunInit ==
  /\ platform \in {"posix", "windows"} /\ stop = FALSE
  /\ run = NoRun /\ tree = NoTree /\ pipe = "empty" /\ feed = "none"

Launch(input) ==
  /\ run.pc = "idle"
  /\ run' = [NoRun EXCEPT !.pc = "poll"]
  /\ tree' = [child |-> "running", background |-> "none"]
  /\ pipe' = "empty"
  /\ feed' = IF input THEN "writing" ELSE "none"

Alive == tree.child = "running" \/ tree.background \in {"running", "apart"}

(***************************************************************************)
(* The programs that were started do what they like: they write as fast as *)
(* they are read, and under POSIX they may leave the group of the child,    *)
(* with a session of their own.  A request to stop is obeyed, late, or      *)
(* ignored, so it changes nothing by itself.                               *)
(***************************************************************************)
ChildWrites ==
  /\ Alive /\ pipe = "empty"
  /\ pipe' = "data" /\ UNCHANGED <<run, tree, feed>>

ChildReads ==
  /\ Alive /\ feed = "writing"
  /\ feed' = "done" /\ UNCHANGED <<run, tree, pipe>>

ChildSpawns ==
  /\ tree.child = "running" /\ tree.background = "none"
  /\ \E place \in {"running", "apart"} : tree' = [tree EXCEPT !.background = place]
  /\ UNCHANGED <<run, pipe, feed>>

ChildExits ==
  /\ \/ /\ tree.child = "running"
        /\ tree' = [tree EXCEPT !.child = "exited"]
     \/ /\ tree.background \in {"running", "apart"}
        /\ tree' = [tree EXCEPT !.background = "gone"]
  /\ UNCHANGED <<run, pipe, feed>>

Programs == ChildWrites \/ ChildReads \/ ChildSpawns \/ ChildExits

(***************************************************************************)
(* The loop.                                                               *)
(***************************************************************************)
Reaped == [tree EXCEPT !.child = "reaped"]

\* A job is killed whole, whatever its processes did; a signal reaches a group.
Killed == [child |-> "reaped",
           background |-> IF tree.background = "running" \/ (Windows /\ tree.background = "apart")
                            THEN "gone" ELSE tree.background]

Poll ==
  /\ run.pc = "poll"
  /\ IF tree.child = "exited"
       THEN run' = [run EXCEPT !.pc = "last"] /\ tree' = Reaped
       ELSE run' = [run EXCEPT !.pc = "drain"] /\ UNCHANGED tree
  /\ UNCHANGED <<pipe, feed>>

\* A mutant: the loop drains for as long as the child runs.
DrainOn ==
  /\ run.pc = "drain"
  /\ IF pipe = "data" \/ tree.child = "running"
       THEN pipe' = "empty" /\ UNCHANGED run
       ELSE run' = [run EXCEPT !.pc = "check"] /\ UNCHANGED pipe
  /\ UNCHANGED <<tree, feed>>

(* Whatever there is is read and given to the observer, until there is none. *)
Drain ==
  /\ run.pc = "drain"
  /\ IF pipe = "data" THEN pipe' = "empty" /\ UNCHANGED run
     ELSE run' = [run EXCEPT !.pc = "check"] /\ UNCHANGED pipe
  /\ UNCHANGED <<tree, feed>>

ClockRunsOut ==
  /\ run.pc # "idle" /\ ~run.late
  /\ run' = [run EXCEPT !.late = TRUE] /\ UNCHANGED <<tree, pipe, feed>>

CheckDeadlines ==
  /\ run.pc = "check"
  /\ run' = IF stop \/ run.late
              THEN [run EXCEPT !.pc = "grace", !.verdict = IF stop THEN "cancelled" ELSE "timed_out"]
              ELSE [run EXCEPT !.pc = "poll"]
  /\ UNCHANGED <<tree, pipe, feed>>

ExitsInTime ==
  /\ run.pc = "grace" /\ tree.child = "exited"
  /\ run' = [run EXCEPT !.pc = "last"] /\ tree' = Reaped
  /\ UNCHANGED <<pipe, feed>>

(* The grace is over: the group, or the job, is killed and the child reaped. *)
ForceKill ==
  /\ run.pc = "grace"
  /\ run' = [run EXCEPT !.pc = "last", !.forced = TRUE] /\ tree' = Killed
  /\ UNCHANGED <<pipe, feed>>

(* The rest of the output is drained; then the handles are closed, and a    *)
(* job dies with its handle.                                                *)
LastDrain ==
  /\ run.pc = "last"
  /\ IF pipe = "data" THEN pipe' = "empty" /\ UNCHANGED <<run, tree>>
     ELSE /\ run' = [run EXCEPT !.pc = "join"]
          /\ tree' = IF Windows THEN Killed ELSE tree
          /\ UNCHANGED pipe
  /\ UNCHANGED feed

(* The pipe of the input has lost its last reader: an error under Windows,  *)
(* a signal that ends the daemon under POSIX.                               *)
FeedBreaks ==
  /\ feed = "writing" /\ ~Alive
  /\ feed' = "done"
  /\ run' = IF Windows THEN run ELSE [run EXCEPT !.pc = "dead"]
  /\ UNCHANGED <<tree, pipe>>

JoinFeed ==
  /\ run.pc = "join" /\ feed # "writing"
  /\ run' = [run EXCEPT !.pc = "returned"]
  /\ UNCHANGED <<tree, pipe, feed>>

RunSteps == Poll \/ Drain \/ CheckDeadlines \/ ExitsInTime \/ ForceKill \/ LastDrain \/ JoinFeed
Dead == run.pc = "dead"
=============================================================================
