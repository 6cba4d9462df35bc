----------------------------- MODULE PtySession -----------------------------
(* Terminals: each with its processes, a ring of output, the thread that     *)
(* fills it and the thread that kills an idle one; and the calls made on    *)
(* them.  A critical section of the session's mutex is one step.            *)
EXTENDS Naturals

CONSTANTS Terminals,  \* the PtySession objects there may be
          Ring        \* the capacity of the ring, in chunks

ASSUME RingAssumption == Ring \in Nat \ {0}

VARIABLES
  pty,    \* the sessions
  call    \* the call in progress: its step and its session

NoCall == [pc |-> "none", on |-> CHOOSE t \in Terminals : TRUE]

Fresh == [st |-> "none", child |-> "none", background |-> "none",
          running |-> FALSE,      \* what the object believes
          typed |-> FALSE,        \* output of the programs nobody has read
          ring |-> 0, truncated |-> FALSE,
          dropped |-> 0,          \* history: overwritten in the ring since it was taken
          owed |-> 0,             \* history: read from the terminal, not told in a photon
          spilled |-> 0,          \* history: taken by a call whose photons failed
          fd |-> "closed", stopping |-> FALSE,
          reader |-> "off", watchdog |-> "off"]

PtyInit == pty = [t \in Terminals |-> Fresh] /\ call = NoCall

Opened == [Fresh EXCEPT !.st = "open", !.child = "running", !.running = TRUE,
                        !.fd = "open", !.reader = "on", !.watchdog = "on"]

HasProcess(p) == p.child = "running" \/ p.background \in {"running", "apart"}

\* A job is killed whole; a signal reaches the group of the child, and a shell gives
\* its background processes groups of their own.
KilledPty(p, windows) ==
  [p EXCEPT !.child = IF @ = "running" THEN "exited" ELSE @,
            !.background = IF @ = "running" \/ (windows /\ @ = "apart") THEN "gone" ELSE @]
ReapedPty(p) == [p EXCEPT !.child = "reaped", !.running = FALSE]

(***************************************************************************)
(* The programs in the terminal; they write no more while most chunks of   *)
(* their output are owed, a bound.                                         *)
(***************************************************************************)
Type(t, most) ==
  /\ HasProcess(pty[t]) /\ ~pty[t].typed /\ pty[t].owed < most
  /\ pty' = [pty EXCEPT ![t].typed = TRUE] /\ UNCHANGED call

Spawn(t) ==
  /\ pty[t].child = "running" /\ pty[t].background = "none"
  /\ \E place \in {"running", "apart"} : pty' = [pty EXCEPT ![t].background = place]
  /\ UNCHANGED call

Exit(t) ==
  /\ \/ pty[t].child = "running" /\ pty' = [pty EXCEPT ![t].child = "exited"]
     \/ /\ pty[t].background \in {"running", "apart"}
        /\ pty' = [pty EXCEPT ![t].background = "gone"]
  /\ UNCHANGED call

InTerminal(t, most) == Type(t, most) \/ Spawn(t) \/ Exit(t)

(***************************************************************************)
(* The reader reads without the mutex and appends with it.                 *)
(***************************************************************************)
Read(t, windows) ==
  /\ pty[t].reader = "on"
  /\ LET p == pty[t] IN
     IF p.stopping \/ p.fd = "closed" THEN pty' = [pty EXCEPT ![t].reader = "off"]
     ELSE IF p.typed THEN pty' = [pty EXCEPT ![t].reader = "holds", ![t].typed = FALSE,
                                             ![t].owed = @ + 1]
     ELSE /\ ~windows /\ ~HasProcess(p)
          /\ pty' = [pty EXCEPT ![t].reader = "off"]
  /\ UNCHANGED call

\* append_ring: what does not fit overwrites the oldest, and a chunk as large as the
\* ring everything.
AppendRing(t) ==
  /\ pty[t].reader = "holds"
  /\ LET full == pty[t].ring = Ring IN
     pty' = [pty EXCEPT ![t].reader = "on",
                        ![t].ring = IF full THEN Ring ELSE @ + 1,
                        ![t].truncated = @ \/ full \/ Ring = 1,
                        ![t].dropped = IF full THEN @ + 1 ELSE @]
  /\ UNCHANGED call

(* The watchdog ends with the session or with the process.                  *)
Watch(t) ==
  /\ pty[t].watchdog = "on" /\ (pty[t].stopping \/ ~pty[t].running)
  /\ pty' = [pty EXCEPT ![t].watchdog = "off"] /\ UNCHANGED call

(* Neither output nor input for the idle timeout: it kills what runs, once.  *)
IdleTimeout(t, windows) ==
  /\ pty[t].watchdog = "on" /\ ~pty[t].stopping /\ pty[t].running
  /\ pty' = [pty EXCEPT ![t] = [KilledPty(@, windows) EXCEPT !.watchdog = "off"]]
  /\ UNCHANGED call

(***************************************************************************)
(* take_output and emit_snapshot: the exit is noticed here, and the ring    *)
(* handed over and told, with a photon of its own when it was truncated.   *)
(* What is taken is lost when it is not told: a photon fails.              *)
(***************************************************************************)
TakeOutput(p, told) ==
  LET known == IF told THEN p.ring + (IF p.truncated THEN p.dropped ELSE 0) ELSE 0
  IN  [(IF p.running /\ p.child = "exited" THEN ReapedPty(p) ELSE p)
         EXCEPT !.ring = 0, !.truncated = FALSE, !.dropped = 0,
                !.owed = @ - known,
                !.spilled = IF told THEN @ ELSE @ + p.ring + p.dropped]

CallOn(t, pc) == call' = [call EXCEPT !.pc = pc, !.on = t]

(* Input that the terminal does not take whole is an error.                  *)
Write(t, fits) ==
  /\ call.pc = "write" /\ call.on = t
  /\ IF pty[t].running /\ fits
       THEN CallOn(t, "take")
       ELSE CallOn(t, "failed")
  /\ UNCHANGED pty

(* Only the window changes; no output is told.                              *)
Resize(t) ==
  /\ call.pc = "resize" /\ call.on = t
  /\ (CallOn(t, "done") \/ CallOn(t, "failed")) /\ UNCHANGED pty

\* The photon that says it is open, or written to, comes before the output is taken.
Take(t) ==
  /\ call.pc = "take" /\ call.on = t
  /\ \/ CallOn(t, "failed") /\ UNCHANGED pty
     \/ \E told \in BOOLEAN :
          /\ pty' = [pty EXCEPT ![t] = TakeOutput(@, told)]
          /\ CallOn(t, IF told THEN "done" ELSE "failed")

(***************************************************************************)
(* close: hang up, wait, kill, stop the threads, take what is left.        *)
(***************************************************************************)
HangUp(t, windows) ==
  /\ call.pc = "hangup" /\ call.on = t
  /\ pty' = IF windows /\ pty[t].running /\ pty[t].child = "exited"
              THEN [pty EXCEPT ![t] = ReapedPty(@)] ELSE pty
  /\ CallOn(t, "wait")

(* Under POSIX the child is reaped without the mutex, and marked with it.   *)
SeesExit(t, windows) ==
  /\ call.pc = "wait" /\ call.on = t /\ pty[t].child = "exited"
  /\ IF windows THEN CallOn(t, "force") /\ UNCHANGED pty
     ELSE CallOn(t, "mark") /\ pty' = [pty EXCEPT ![t].child = "reaped"]

Mark(t) ==
  /\ call.pc = "mark" /\ call.on = t
  /\ pty' = [pty EXCEPT ![t].running = FALSE] /\ CallOn(t, "force")

GraceIsOver(t) ==
  /\ call.pc = "wait" /\ call.on = t
  /\ CallOn(t, "force") /\ UNCHANGED pty

ForceExit(t, windows) ==
  /\ call.pc = "force" /\ call.on = t
  /\ pty' = IF pty[t].running THEN [pty EXCEPT ![t] = ReapedPty(KilledPty(@, windows))] ELSE pty
  /\ CallOn(t, "unhook")

Unhook(t, windows) ==
  /\ call.pc = "unhook" /\ call.on = t
  /\ pty' = [pty EXCEPT ![t] = [(IF windows THEN KilledPty(@, windows) ELSE @) EXCEPT
                                  !.stopping = TRUE, !.fd = "closed"]]
  /\ CallOn(t, "join")

\* A mutant: the reader is told to stop and not waited for.
JoinReaderLater(t) ==
  /\ call.pc = "join" /\ call.on = t
  /\ CallOn(t, "join watchdog") /\ UNCHANGED pty

JoinReader(t) ==
  /\ call.pc = "join" /\ call.on = t /\ pty[t].reader = "off"
  /\ CallOn(t, "join watchdog") /\ UNCHANGED pty

JoinWatchdog(t) ==
  /\ call.pc = "join watchdog" /\ call.on = t /\ pty[t].watchdog = "off"
  /\ CallOn(t, "last") /\ UNCHANGED pty

(* What pty.close takes is told; a destructor, that of a session whose name  *)
(* was taken or of the Lens, throws it away.                                *)
TakeLast(t, byAct) ==
  /\ call.pc = "last" /\ call.on = t
  /\ \E told \in {byAct, FALSE} :
       /\ pty' = [pty EXCEPT ![t] = [TakeOutput(@, told) EXCEPT
                                       !.st = IF byAct THEN "closed" ELSE "destroyed"]]
       /\ CallOn(t, IF byAct /\ ~told THEN "failed" ELSE "done")

Threads(t, windows) == Read(t, windows) \/ AppendRing(t) \/ Watch(t)

CallSteps(t, windows, byAct) ==
  \/ \E fits \in BOOLEAN : Write(t, fits)
  \/ Resize(t) \/ Take(t) \/ HangUp(t, windows) \/ SeesExit(t, windows) \/ Mark(t)
  \/ GraceIsOver(t) \/ ForceExit(t, windows) \/ Unhook(t, windows)
  \/ JoinReader(t) \/ JoinWatchdog(t) \/ TakeLast(t, byAct)
=============================================================================
