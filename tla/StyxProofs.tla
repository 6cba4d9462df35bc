----------------------------- MODULE StyxProofs -----------------------------
(* What TLAPS proves of the Lens that runs programs, for any number of      *)
(* terminals, any workload and any capacity of the rings: no terminal is    *)
(* left behind, no container, and no output that was read from a terminal   *)
(* before pty.close.                                                        *)
EXTENDS Styx, TLAPS

(***************************************************************************)
(* Containers: before one is made there is none, and nothing is told of it.*)
(***************************************************************************)
BoxTyped ==
  box \in [st : {"none", "made", "up", "down", "gone"},
           pc : {"idle", "create", "upload", "start", "kill", "download", "clean_up", "remove",
                 "ended"},
           exit0 : BOOLEAN, cancelled : BOOLEAN, left : BOOLEAN, verified : BOOLEAN]

BoxIsFresh == box.pc = "create" => box = [NoBox EXCEPT !.pc = "create"]

\* Only the removal says that a container is gone, and it ends the Act.
OnlyTheEndIsTold == box.verified => box.pc = "ended"

BoxInv == BoxTyped /\ BoxIsFresh /\ OnlyTheEndIsTold /\ ContainersAreRemoved

LEMMA DockerStep ==
  ASSUME BoxInv, NEW o \in Outcomes, NEW effect \in BOOLEAN, NEW named \in BOOLEAN,
         stop \in BOOLEAN, Docker(o, effect, named, stop)
  PROVE  BoxInv'
<1> USE DEF BoxInv, BoxTyped, BoxIsFresh, OnlyTheEndIsTold, ContainersAreRemoved, NoBox,
            Outcomes, After
<1>1. CASE Create(o, effect)
  BY <1>1 DEF Create
<1>2. CASE Upload(o, named)
  BY <1>2 DEF Upload
<1>3. CASE Start(o, effect, stop)
  BY <1>3, ZenonT(40) DEF Start
<1>4. CASE Kill(o, effect)
  BY <1>4 DEF Kill
<1>5. CASE Download(o, named)
  BY <1>5 DEF Download
<1>6. CASE Remove(o, effect)
  BY <1>6, ZenonT(40) DEF Remove
<1> QED
  BY <1>1, <1>2, <1>3, <1>4, <1>5, <1>6 DEF Docker

StopTyped == stop \in BOOLEAN

LEMMA StopStep == StopTyped /\ [Next]_vars => StopTyped'
<1> SUFFICES ASSUME StopTyped, [Next]_vars PROVE stop' = stop \/ stop' \in BOOLEAN
  BY DEF StopTyped
<1> QED
  BY DEF Next, vars, Exec, WasmInvoke, NotStarted, PtyOpen, PtyWrite, PtyResize, PtyClose,
         RemoteExecute, Begins, Takes, ThreadOf, Stop, Unmount, Ends, ExecEnds, PtyEnds, RemoteEnds,
         Runner, Terminal, Docks, Clock, Feeder, Outside, others

LEMMA BoxInvStep == StopTyped /\ BoxInv /\ [Next]_vars => BoxInv'
<1> SUFFICES ASSUME StopTyped, BoxInv, [Next]_vars PROVE BoxInv'
  OBVIOUS
<1>1. CASE Docks
  BY <1>1, DockerStep DEF Docks, StopTyped
<1>2. CASE RemoteExecute
  BY <1>2 DEF RemoteExecute, BoxInv, BoxTyped, BoxIsFresh, OnlyTheEndIsTold,
              ContainersAreRemoved, NoBox
<1>3. CASE RemoteEnds
  BY <1>3 DEF RemoteEnds, BoxInv, BoxTyped, BoxIsFresh, OnlyTheEndIsTold,
              ContainersAreRemoved, NoBox
<1>4. CASE UNCHANGED box
  BY <1>4 DEF BoxInv, BoxTyped, BoxIsFresh, OnlyTheEndIsTold, ContainersAreRemoved
<1> QED
  <2>1. CASE UNCHANGED vars
    BY <2>1, <1>4 DEF vars
  <2>2. CASE Next
    BY <2>2, <1>1, <1>2, <1>3, <1>4
    DEF Next, Exec, WasmInvoke, NotStarted, PtyOpen, PtyWrite, PtyResize, PtyClose,
        ThreadOf, Stop, Unmount, Ends, ExecEnds, PtyEnds, Runner, Terminal, Clock, Feeder,
        Outside
  <2> QED
    BY <2>1, <2>2

\* No way through remote.execute leaves a container behind unless a command of
\* docker failed or was cut short, and one told as removed is (styx_lens.cpp).
THEOREM ContainersGo == Spec => []ContainersAreRemoved
<1>1. Init => StopTyped
  BY DEF Init, RunInit, StopTyped
<1>2. Init => BoxInv
  BY DEF Init, BoxInit, NoBox, BoxInv, BoxTyped, BoxIsFresh, OnlyTheEndIsTold,
         ContainersAreRemoved
<1>3. BoxInv => ContainersAreRemoved
  BY DEF BoxInv
<1> QED
  BY <1>1, <1>2, <1>3, StopStep, BoxInvStep, PTL DEF Spec

(***************************************************************************)
(* Terminals.                                                              *)
(***************************************************************************)
Session ==
  [st : {"none", "open", "closed", "destroyed"}, child : {"none", "running", "exited", "reaped"},
   background : {"none", "running", "apart", "gone"}, running : BOOLEAN, typed : BOOLEAN,
   ring : Nat, truncated : BOOLEAN, dropped : Nat, owed : Nat, spilled : Nat,
   fd : {"open", "closed"}, stopping : BOOLEAN,
   reader : {"on", "holds", "off"}, watchdog : {"on", "off"}]

\* What the reader took and no photon tells is in its hands, in the ring, overwritten
\* there, which the session knows, or was in a snapshot whose photons failed.
Accounted(p) ==
  /\ p.owed = p.spilled + p.ring + p.dropped + (IF p.reader = "holds" THEN 1 ELSE 0)
  /\ p.dropped > 0 => p.truncated

\* A closed session holds nothing and reads no more.
ClosedIsEmpty(p) == p.st = "closed" => p.reader = "off" /\ p.ring = 0 /\ p.dropped = 0

\* A session believes that its process runs as long as it does.
RunningIsKnown(p) == p.child = "running" => p.running

IsSession(p) == p \in Session /\ Accounted(p) /\ ClosedIsEmpty(p) /\ RunningIsKnown(p)

PtyTyped ==
  /\ pty \in [Terminals -> Session] /\ \A t \in Terminals : IsSession(pty[t])
  /\ call = [pc |-> call.pc, on |-> call.on]

\* Operations on terminals are parts of an Act on a terminal, or of unmounting.
CallsAreOfActs ==
  call.pc # "none" =>
    act \in {"pty.open", "pty.write", "pty.resize", "pty.close", "unmount"}

Ending == {"mark", "unhook", "join", "join watchdog", "last"}

\* A call is on the registered terminal, or it ends the one it is on: by the step
\* that takes the mutex back the process is reaped or killed.
CallEndsItsTerminal ==
  /\ call.pc \in {"write", "resize", "take", "done", "failed"} =>
       call.on = terminal \/ \A t \in Terminals : t = call.on => pty[t].child # "running"
  /\ call.pc \in Ending =>
       \A t \in Terminals : t = call.on => pty[t].child # "running"

\* The last output is taken when its reader is over.
ReaderIsJoined ==
  call.pc \in {"join watchdog", "last"} =>
    \A t \in Terminals : t = call.on => pty[t].reader = "off"

PtyInv == /\ PtyTyped /\ CallsAreOfActs /\ CallEndsItsTerminal /\ ReaderIsJoined
          /\ NoStrayTerminal

LEMMA PtyInitially == Init => PtyInv
BY NoTerminalAssumption
DEF Init, PtyInit, NoCall, Fresh, PtyInv, PtyTyped, Session, IsSession, Accounted,
    ClosedIsEmpty, RunningIsKnown, CallsAreOfActs, CallEndsItsTerminal, ReaderIsJoined,
    Ending, NoStrayTerminal

\* A step of one session, and of the call on it if there is one.
LEMMA OneSession ==
  ASSUME PtyInv, NEW t \in Terminals, NEW q, IsSession(q),
         pty' = [pty EXCEPT ![t] = q],
         q.child = "running" => pty[t].child = "running",
         pty[t].reader = "off" => q.reader = "off",
         UNCHANGED <<act, terminal>>,
         \/ UNCHANGED call
         \/ /\ call' = [call EXCEPT !.pc = call'.pc, !.on = t]
            /\ call.pc # "none" /\ call.on = t /\ call'.pc # "none"
            /\ call'.pc \in {"write", "resize", "take", "done", "failed"} =>
                 t = terminal \/ q.child # "running"
            /\ call'.pc \in Ending => q.child # "running"
            /\ call'.pc \in {"join watchdog", "last"} => q.reader = "off"
  PROVE  PtyInv'
<1>1. /\ pty \in [Terminals -> Session] /\ q \in Session
      /\ \A u \in Terminals : pty'[u] = IF u = t THEN q ELSE pty[u]
  BY DEF PtyInv, PtyTyped, IsSession
<1>2. call = [pc |-> call.pc, on |-> call.on]
  BY DEF PtyInv, PtyTyped
<1>3. call' = [pc |-> call'.pc, on |-> call'.on] /\ (call'.on = t \/ UNCHANGED call)
  BY <1>2
<1>4. PtyTyped'
  <2>1. \A u \in Terminals : IsSession(pty'[u])
    BY <1>1 DEF PtyInv, PtyTyped
  <2> QED
    BY <1>1, <1>3, <2>1 DEF PtyTyped, IsSession, Accounted, ClosedIsEmpty, RunningIsKnown
<1>5. CallsAreOfActs'
  BY DEF PtyInv, CallsAreOfActs
<1>6. NoStrayTerminal'
  BY <1>1, <1>3 DEF PtyInv, NoStrayTerminal
<1>7. CallEndsItsTerminal' /\ ReaderIsJoined'
  <2>1. CASE UNCHANGED call
    BY <2>1, <1>1 DEF PtyInv, CallEndsItsTerminal, ReaderIsJoined
  <2>2. CASE ~UNCHANGED call
    BY <2>2, <1>1, <1>3 DEF CallEndsItsTerminal, ReaderIsJoined
  <2> QED
    BY <2>1, <2>2
<1> QED
  BY <1>4, <1>5, <1>6, <1>7 DEF PtyInv

\* What a step of a session that changes none of its output leaves true.
LEMMA SameOutput ==
  ASSUME NEW p, IsSession(p), NEW q \in Session,
         q.owed = p.owed, q.spilled = p.spilled, q.ring = p.ring, q.dropped = p.dropped,
         q.truncated = p.truncated, q.st = p.st,
         q.reader = p.reader \/ (p.reader = "on" /\ q.reader = "off"),
         q.child = "running" => q.running
  PROVE  IsSession(q) /\ (p.reader = "off" => q.reader = "off")
BY DEF IsSession, Accounted, ClosedIsEmpty, RunningIsKnown

LEMMA KilledSession ==
  ASSUME NEW p, IsSession(p), NEW windows \in BOOLEAN
  PROVE  /\ IsSession(KilledPty(p, windows)) /\ KilledPty(p, windows).child # "running"
         /\ KilledPty(p, windows).reader = p.reader
<1> DEFINE q == KilledPty(p, windows)
<1>1. /\ q \in Session /\ q.child # "running"
      /\ q.owed = p.owed /\ q.spilled = p.spilled /\ q.ring = p.ring /\ q.dropped = p.dropped
      /\ q.truncated = p.truncated /\ q.st = p.st /\ q.reader = p.reader
  BY DEF IsSession, Session, KilledPty
<1> HIDE DEF q
<1>2. IsSession(q)
  BY <1>1, SameOutput
<1> QED
  BY <1>1, <1>2 DEF q

LEMMA ReapedSession ==
  ASSUME NEW p, IsSession(p)
  PROVE  /\ IsSession(ReapedPty(p)) /\ ReapedPty(p).child # "running"
         /\ ReapedPty(p).reader = p.reader
<1> DEFINE q == ReapedPty(p)
<1>1. /\ q \in Session /\ q.child # "running"
      /\ q.owed = p.owed /\ q.spilled = p.spilled /\ q.ring = p.ring /\ q.dropped = p.dropped
      /\ q.truncated = p.truncated /\ q.st = p.st /\ q.reader = p.reader
  BY DEF IsSession, Session, ReapedPty
<1> HIDE DEF q
<1>2. IsSession(q)
  BY <1>1, SameOutput
<1> QED
  BY <1>1, <1>2 DEF q

\* The ring and what was overwritten in it are told, or lost with the photons.
LEMMA TakenSession ==
  ASSUME NEW p, IsSession(p), NEW told \in BOOLEAN
  PROVE  /\ IsSession(TakeOutput(p, told))
         /\ TakeOutput(p, told).ring = 0 /\ TakeOutput(p, told).dropped = 0
         /\ TakeOutput(p, told).reader = p.reader
         /\ TakeOutput(p, told).child = "running" => p.child = "running"
<1> DEFINE base == IF p.running /\ p.child = "exited" THEN ReapedPty(p) ELSE p
           known == IF told THEN p.ring + (IF p.truncated THEN p.dropped ELSE 0) ELSE 0
           lost == IF told THEN p.spilled ELSE p.spilled + p.ring + p.dropped
           q == TakeOutput(p, told)
<1>1. /\ base \in Session /\ IsSession(base)
      /\ base.child = "running" => p.child = "running"
      /\ base.reader = p.reader /\ base.owed = p.owed /\ base.spilled = p.spilled
      /\ base.st = p.st
  <2>1. CASE p.running /\ p.child = "exited"
    BY <2>1, ReapedSession DEF IsSession, Session, ReapedPty
  <2>2. CASE ~(p.running /\ p.child = "exited")
    BY <2>2 DEF IsSession
  <2> QED
    BY <2>1, <2>2
<1>2. /\ p.owed \in Nat /\ p.spilled \in Nat /\ p.ring \in Nat /\ p.dropped \in Nat
      /\ p.owed = p.spilled + p.ring + p.dropped + (IF p.reader = "holds" THEN 1 ELSE 0)
      /\ p.dropped > 0 => p.truncated
  BY DEF IsSession, Session, Accounted
<1>3. lost \in Nat /\ p.owed - known = lost + (IF p.reader = "holds" THEN 1 ELSE 0)
  BY <1>2
<1>4. p.owed - known \in Nat
  BY <1>3
<1>5. q = [base EXCEPT !.ring = 0, !.truncated = FALSE, !.dropped = 0,
                       !.owed = p.owed - known, !.spilled = lost]
  BY <1>1, Zenon DEF TakeOutput
<1> HIDE DEF q, base, known, lost
<1>6. /\ q \in Session /\ q.ring = 0 /\ q.dropped = 0 /\ q.owed = p.owed - known
      /\ q.spilled = lost /\ q.reader = base.reader /\ q.st = base.st /\ q.child = base.child
      /\ q.running = base.running
  BY <1>1, <1>3, <1>4, <1>5 DEF Session
<1>7. IsSession(q)
  BY <1>1, <1>3, <1>6 DEF IsSession, Accounted, ClosedIsEmpty, RunningIsKnown
<1> QED
  BY <1>1, <1>6, <1>7 DEF q

\* What the programs, the reader and the watchdog do.
LEMMA SessionStep ==
  ASSUME PtyInv, NEW t \in Terminals, NEW most,
         InTerminal(t, most) \/ IdleTimeout(t, Windows) \/ Threads(t, Windows),
         UNCHANGED <<act, terminal>>
  PROVE  PtyInv'
<1> DEFINE p == pty[t]
<1>0. IsSession(p) /\ p \in Session /\ (p.child = "running" => p.running)
  BY DEF PtyInv, PtyTyped, IsSession, RunningIsKnown
<1> HIDE DEF p
<1>q. ASSUME NEW q, IsSession(q), pty' = [pty EXCEPT ![t] = q], UNCHANGED call,
             q.child = "running" => p.child = "running", p.reader = "off" => q.reader = "off"
      PROVE  PtyInv'
  BY <1>q, OneSession DEF p
<1>s. ASSUME NEW q \in Session, pty' = [pty EXCEPT ![t] = q], UNCHANGED call,
             q.child = "running" => p.child = "running", q.running = p.running,
             q.owed = p.owed, q.spilled = p.spilled, q.ring = p.ring, q.dropped = p.dropped,
             q.truncated = p.truncated, q.st = p.st,
             q.reader = p.reader \/ (p.reader = "on" /\ q.reader = "off")
      PROVE  PtyInv'
  <2>1. IsSession(q) /\ (p.reader = "off" => q.reader = "off")
    BY <1>s, <1>0, SameOutput
  <2> QED
    BY <1>s, <2>1, <1>q
<1>1. CASE Type(t, most)
  <2>1. pty' = [pty EXCEPT ![t] = [p EXCEPT !.typed = TRUE]] /\ UNCHANGED call
    BY <1>1 DEF Type, p
  <2> QED
    BY <2>1, <1>0, <1>s DEF Session
<1>2. CASE Spawn(t)
  <2>1. PICK place \in {"running", "apart"} :
           pty' = [pty EXCEPT ![t] = [p EXCEPT !.background = place]] /\ UNCHANGED call
    BY <1>2 DEF Spawn, p
  <2> QED
    BY <2>1, <1>0, <1>s DEF Session
<1>3. CASE Exit(t)
  <2>1. /\ UNCHANGED call
        /\ \/ pty' = [pty EXCEPT ![t] = [p EXCEPT !.child = "exited"]]
           \/ pty' = [pty EXCEPT ![t] = [p EXCEPT !.background = "gone"]]
    BY <1>3 DEF Exit, p
  <2>2. CASE pty' = [pty EXCEPT ![t] = [p EXCEPT !.child = "exited"]]
    BY <2>1, <2>2, <1>0, <1>s DEF Session
  <2>3. CASE pty' = [pty EXCEPT ![t] = [p EXCEPT !.background = "gone"]]
    BY <2>1, <2>3, <1>0, <1>s DEF Session
  <2> QED
    BY <2>1, <2>2, <2>3
<1>4. CASE IdleTimeout(t, Windows)
  <2> DEFINE k == KilledPty(p, Windows)
             q == [k EXCEPT !.watchdog = "off"]
  <2>1. pty' = [pty EXCEPT ![t] = q] /\ UNCHANGED call
    BY <1>4 DEF IdleTimeout, p
  <2>2. IsSession(k) /\ k \in Session /\ k.child # "running" /\ k.reader = p.reader
    BY <1>0, KilledSession DEF Windows, IsSession
  <2> HIDE DEF k
  <2>3. /\ q \in Session /\ q.child = k.child /\ q.running = k.running /\ q.owed = k.owed
        /\ q.spilled = k.spilled /\ q.ring = k.ring /\ q.dropped = k.dropped
        /\ q.truncated = k.truncated /\ q.st = k.st /\ q.reader = k.reader
    BY <2>2 DEF Session
  <2> HIDE DEF q
  <2>4. IsSession(q)
    BY <2>2, <2>3, SameOutput
  <2> QED
    BY <2>1, <2>2, <2>3, <2>4, <1>q
<1>5. CASE Read(t, Windows)
  <2> DEFINE n == p.owed + 1
             q == [p EXCEPT !.reader = "holds", !.typed = FALSE, !.owed = n]
  <2>1. /\ p.reader = "on" /\ UNCHANGED call
        /\ \/ pty' = [pty EXCEPT ![t] = [p EXCEPT !.reader = "off"]]
           \/ pty' = [pty EXCEPT ![t] = q]
    BY <1>5 DEF Read, p
  <2>2. CASE pty' = [pty EXCEPT ![t] = [p EXCEPT !.reader = "off"]]
    BY <2>1, <2>2, <1>0, <1>s DEF Session
  <2>3. CASE pty' = [pty EXCEPT ![t] = q]
    <3>0. n \in Nat
      BY <1>0 DEF Session
    <3> HIDE DEF n
    <3>1. /\ q \in Session /\ q.child = p.child /\ q.running = p.running
          /\ q.owed = n /\ q.spilled = p.spilled /\ q.ring = p.ring
          /\ q.dropped = p.dropped /\ q.truncated = p.truncated /\ q.st = p.st
          /\ q.reader = "holds"
      BY <1>0, <3>0 DEF Session
    <3> HIDE DEF q
    <3>2. IsSession(q)
      <4>1. /\ p.owed \in Nat /\ p.spilled \in Nat /\ p.ring \in Nat /\ p.dropped \in Nat
            /\ p.owed = p.spilled + p.ring + p.dropped /\ (p.dropped > 0 => p.truncated)
            /\ p.st # "closed"
        BY <1>0, <2>1 DEF IsSession, Session, Accounted, ClosedIsEmpty
      <4>2. Accounted(q)
        BY <3>1, <4>1 DEF Accounted, n
      <4> QED
        BY <1>0, <3>1, <4>1, <4>2 DEF IsSession, ClosedIsEmpty, RunningIsKnown
    <3> QED
      BY <2>1, <2>3, <3>1, <3>2, <1>q
  <2> QED
    BY <2>1, <2>2, <2>3
<1>6. CASE AppendRing(t)
  <2> DEFINE full == p.ring = Ring
             ring == IF full THEN Ring ELSE p.ring + 1
             dropped == IF full THEN p.dropped + 1 ELSE p.dropped
             truncated == p.truncated \/ full \/ Ring = 1
             q == [p EXCEPT !.reader = "on", !.ring = ring, !.truncated = truncated,
                            !.dropped = dropped]
  <2>1. p.reader = "holds" /\ UNCHANGED call /\ pty' = [pty EXCEPT ![t] = q]
    BY <1>6 DEF AppendRing, p
  <2>2. /\ p.ring \in Nat /\ p.dropped \in Nat /\ p.truncated \in BOOLEAN /\ p.owed \in Nat
        /\ p.spilled \in Nat /\ p.owed = p.spilled + p.ring + p.dropped + 1
        /\ (p.dropped > 0 => p.truncated) /\ p.st # "closed"
    BY <1>0, <2>1 DEF Session, IsSession, Accounted, ClosedIsEmpty
  <2>3. /\ ring \in Nat /\ dropped \in Nat /\ truncated \in BOOLEAN
        /\ p.owed = p.spilled + ring + dropped /\ (dropped > 0 => truncated)
    BY <2>2, RingAssumption
  <2> HIDE DEF ring, dropped, truncated
  <2>4. /\ q \in Session /\ q.child = p.child /\ q.running = p.running
        /\ q.owed = p.owed /\ q.spilled = p.spilled /\ q.ring = ring
        /\ q.dropped = dropped /\ q.truncated = truncated /\ q.st = p.st
        /\ q.reader = "on"
    BY <1>0, <2>3 DEF Session
  <2> HIDE DEF q
  <2>5. IsSession(q)
    BY <1>0, <2>2, <2>3, <2>4 DEF IsSession, Accounted, ClosedIsEmpty, RunningIsKnown
  <2> QED
    BY <2>1, <2>4, <2>5, <1>q
<1>7. CASE Watch(t)
  <2>1. pty' = [pty EXCEPT ![t] = [p EXCEPT !.watchdog = "off"]] /\ UNCHANGED call
    BY <1>7 DEF Watch, p
  <2> QED
    BY <2>1, <1>0, <1>s DEF Session
<1> QED
  BY <1>1, <1>2, <1>3, <1>4, <1>5, <1>6, <1>7 DEF InTerminal, Threads

\* What the calls on a terminal do.
LEMMA CallStep ==
  ASSUME PtyInv, NEW t \in Terminals, NEW byAct \in BOOLEAN, CallSteps(t, Windows, byAct),
         UNCHANGED <<act, terminal>>
  PROVE  PtyInv'
<1> DEFINE p == pty[t]
<1>0. /\ IsSession(p) /\ p \in Session /\ (p.child = "running" => p.running)
      /\ pty = [pty EXCEPT ![t] = p]
  BY DEF PtyInv, PtyTyped, IsSession, RunningIsKnown
<1>c. call.on = t =>
        /\ call.pc \in {"write", "resize", "take", "done", "failed"} =>
             t = terminal \/ p.child # "running"
        /\ call.pc \in Ending => p.child # "running"
        /\ call.pc \in {"join watchdog", "last"} => p.reader = "off"
  BY DEF PtyInv, CallEndsItsTerminal, ReaderIsJoined
<1> HIDE DEF p
<1>w. Windows \in BOOLEAN
  BY DEF Windows
<1>q. ASSUME NEW q, IsSession(q), NEW step,
             pty' = [pty EXCEPT ![t] = q], call' = [call EXCEPT !.pc = step, !.on = t],
             call.pc # "none", call.on = t, step # "none",
             step \in {"write", "resize", "take", "done", "failed"} =>
               t = terminal \/ q.child # "running",
             step \in Ending => q.child # "running",
             step \in {"join watchdog", "last"} => q.reader = "off",
             q.child = "running" => p.child = "running",
             p.reader = "off" => q.reader = "off"
      PROVE  PtyInv'
  <2>1. call'.pc = step
    BY <1>q DEF PtyInv, PtyTyped
  <2> QED
    BY <1>q, <2>1, OneSession DEF p
\* A step of the call that leaves the session alone.
<1>n. ASSUME NEW step, UNCHANGED pty, CallOn(t, step), call.pc # "none", call.on = t,
             step # "none",
             step \in {"write", "resize", "take", "done", "failed"} =>
               t = terminal \/ p.child # "running",
             step \in Ending => p.child # "running",
             step \in {"join watchdog", "last"} => p.reader = "off"
      PROVE  PtyInv'
  BY <1>n, <1>0, <1>q DEF CallOn
<1>1. CASE \E fits \in BOOLEAN : Write(t, fits)
  BY <1>1, <1>c, <1>n DEF Write, Ending
<1>2. CASE Resize(t)
  BY <1>2, <1>c, <1>n DEF Resize, Ending
<1>3. CASE Take(t)
  <2>1. call.pc = "take" /\ call.on = t
    BY <1>3 DEF Take
  <2>2. CASE CallOn(t, "failed") /\ UNCHANGED pty
    BY <2>1, <2>2, <1>c, <1>n DEF Ending
  <2>3. ASSUME NEW told \in BOOLEAN, NEW step \in {"done", "failed"},
               pty' = [pty EXCEPT ![t] = TakeOutput(p, told)], CallOn(t, step)
        PROVE  PtyInv'
    <3> DEFINE q == TakeOutput(p, told)
    <3>1. IsSession(q) /\ (q.child = "running" => p.child = "running") /\ q.reader = p.reader
      BY <1>0, TakenSession
    <3> HIDE DEF q
    <3> QED
      BY <2>1, <2>3, <3>1, <1>c, <1>q DEF CallOn, Ending, q
  <2> QED
    BY <1>3, <2>2, <2>3 DEF Take, p
<1>4. CASE HangUp(t, Windows)
  <2>1. call.pc = "hangup" /\ call.on = t /\ CallOn(t, "wait")
    BY <1>4 DEF HangUp
  <2>2. CASE pty' = [pty EXCEPT ![t] = ReapedPty(p)]
    <3>1. IsSession(ReapedPty(p)) /\ ReapedPty(p).child # "running"
          /\ ReapedPty(p).reader = p.reader
      BY <1>0, ReapedSession
    <3> QED
      BY <2>1, <2>2, <3>1, <1>q DEF CallOn, Ending
  <2>3. CASE UNCHANGED pty
    BY <2>1, <2>3, <1>n DEF Ending
  <2> QED
    BY <1>4, <2>2, <2>3 DEF HangUp, p
<1>5. CASE SeesExit(t, Windows)
  <2>0. call.pc = "wait" /\ call.on = t
    BY <1>5 DEF SeesExit
  <2>1. CASE Windows
    BY <2>0, <2>1, <1>5, <1>n DEF SeesExit, Ending
  <2>2. CASE ~Windows
    <3> DEFINE q == [p EXCEPT !.child = "reaped"]
    <3>0. pty' = [pty EXCEPT ![t].child = "reaped"] /\ CallOn(t, "mark")
      BY <1>5, <2>2 DEF SeesExit
    <3>1. pty' = [pty EXCEPT ![t] = q]
      BY <3>0 DEF p
    <3>2. /\ q \in Session /\ q.child = "reaped" /\ q.st = p.st /\ q.ring = p.ring
          /\ q.reader = p.reader /\ q.owed = p.owed /\ q.spilled = p.spilled
          /\ q.dropped = p.dropped /\ q.truncated = p.truncated
      BY <1>0 DEF Session
    <3> HIDE DEF q
    <3>3. IsSession(q)
      BY <1>0, <3>2, SameOutput
    <3> QED
      BY <2>0, <3>0, <3>1, <3>2, <3>3, <1>q DEF CallOn, Ending
  <2> QED
    BY <2>1, <2>2
<1>6. CASE Mark(t)
  <2> DEFINE q == [p EXCEPT !.running = FALSE]
  <2>0. call.pc = "mark" /\ call.on = t /\ CallOn(t, "force") /\ p.child # "running"
    BY <1>6, <1>c DEF Mark, Ending
  <2>1. pty' = [pty EXCEPT ![t] = q]
    BY <1>6 DEF Mark, p
  <2>2. /\ q \in Session /\ q.child = p.child /\ q.st = p.st /\ q.ring = p.ring
        /\ q.reader = p.reader /\ q.owed = p.owed /\ q.spilled = p.spilled
        /\ q.dropped = p.dropped /\ q.truncated = p.truncated
    BY <1>0 DEF Session
  <2> HIDE DEF q
  <2>3. IsSession(q)
    BY <1>0, <2>0, <2>2, SameOutput
  <2> QED
    BY <2>0, <2>1, <2>2, <2>3, <1>q DEF CallOn, Ending
<1>7. CASE GraceIsOver(t)
  BY <1>7, <1>n DEF GraceIsOver, Ending
<1>8. CASE ForceExit(t, Windows)
  <2>0. call.pc = "force" /\ call.on = t /\ CallOn(t, "unhook")
    BY <1>8 DEF ForceExit
  <2>1. CASE p.running
    <3> DEFINE q == ReapedPty(KilledPty(p, Windows))
    <3>1. pty' = [pty EXCEPT ![t] = q]
      BY <1>8, <2>1 DEF ForceExit, p
    <3>2. IsSession(q) /\ q.child # "running" /\ q.reader = p.reader
      BY <1>0, <1>w, KilledSession, ReapedSession
    <3> HIDE DEF q
    <3> QED
      BY <2>0, <3>1, <3>2, <1>q DEF CallOn, Ending
  <2>2. CASE ~p.running
    <3>1. UNCHANGED pty /\ p.child # "running"
      BY <1>8, <2>2, <1>0 DEF ForceExit, p
    <3> QED
      BY <2>0, <3>1, <1>n DEF Ending
  <2> QED
    BY <2>1, <2>2
<1>9. CASE Unhook(t, Windows)
  <2> DEFINE k == IF Windows THEN KilledPty(p, Windows) ELSE p
             q == [k EXCEPT !.stopping = TRUE, !.fd = "closed"]
  <2>0. call.pc = "unhook" /\ call.on = t /\ CallOn(t, "join") /\ p.child # "running"
    BY <1>9, <1>c DEF Unhook, Ending
  <2>1. pty' = [pty EXCEPT ![t] = q]
    BY <1>9 DEF Unhook, p
  <2>2. IsSession(k) /\ k \in Session /\ k.child # "running" /\ k.reader = p.reader
    BY <1>0, <1>w, <2>0, KilledSession DEF IsSession
  <2> HIDE DEF k
  <2>3. /\ q \in Session /\ q.child = k.child /\ q.running = k.running /\ q.owed = k.owed
        /\ q.spilled = k.spilled /\ q.ring = k.ring /\ q.dropped = k.dropped
        /\ q.truncated = k.truncated /\ q.st = k.st /\ q.reader = k.reader
    BY <2>2 DEF Session
  <2> HIDE DEF q
  <2>4. IsSession(q)
    BY <2>2, <2>3, SameOutput
  <2> QED
    BY <2>0, <2>1, <2>2, <2>3, <2>4, <1>q DEF CallOn, Ending
<1>10. CASE JoinReader(t)
  BY <1>10, <1>c, <1>n DEF JoinReader, Ending, p
<1>11. CASE JoinWatchdog(t)
  BY <1>11, <1>c, <1>n DEF JoinWatchdog, Ending
<1>12. CASE TakeLast(t, byAct)
  <2>0. /\ call.pc = "last" /\ call.on = t /\ p.child # "running" /\ p.reader = "off"
    BY <1>12, <1>c DEF TakeLast, Ending
  <2>1. PICK told \in BOOLEAN, st \in {"closed", "destroyed"}, step \in {"done", "failed"} :
          /\ pty' = [pty EXCEPT ![t] = [TakeOutput(p, told) EXCEPT !.st = st]]
          /\ CallOn(t, step)
    <3>1. PICK told \in {byAct, FALSE} :
            /\ pty' = [pty EXCEPT ![t] = [TakeOutput(p, told) EXCEPT
                                            !.st = IF byAct THEN "closed" ELSE "destroyed"]]
            /\ CallOn(t, IF byAct /\ ~told THEN "failed" ELSE "done")
      BY <1>12 DEF TakeLast, p
    <3>2. told \in BOOLEAN
      BY <3>1
    <3> QED
      BY <3>1, <3>2
  <2> DEFINE k == TakeOutput(p, told)
             q == [k EXCEPT !.st = st]
  <2>2. /\ IsSession(k) /\ k \in Session /\ k.ring = 0 /\ k.dropped = 0
        /\ k.child # "running" /\ k.reader = "off"
    BY <1>0, <2>0, TakenSession DEF IsSession
  <2> HIDE DEF k
  <2>3. /\ q \in Session /\ q.child = k.child /\ q.owed = k.owed /\ q.spilled = k.spilled
        /\ q.ring = 0 /\ q.dropped = 0 /\ q.truncated = k.truncated /\ q.reader = "off"
    BY <2>1, <2>2 DEF Session
  <2>4. IsSession(q)
    BY <2>2, <2>3 DEF IsSession, Accounted, ClosedIsEmpty, RunningIsKnown
  <2>5. pty' = [pty EXCEPT ![t] = q]
    BY <2>1 DEF k
  <2> HIDE DEF q
  <2> QED
    BY <2>0, <2>1, <2>2, <2>3, <2>4, <2>5, <1>q DEF CallOn, Ending
<1> QED
  BY <1>1, <1>2, <1>3, <1>4, <1>5, <1>6, <1>7, <1>8, <1>9, <1>10, <1>11, <1>12
  DEF CallSteps

\* Steps that have nothing to do with terminals.
LEMMA NoTerminalStep ==
  ASSUME PtyInv, UNCHANGED <<pty, call, terminal>>, UNCHANGED act \/ call.pc = "none"
  PROVE  PtyInv'
BY DEF PtyInv, PtyTyped, IsSession, Accounted, ClosedIsEmpty, RunningIsKnown, CallsAreOfActs,
       CallEndsItsTerminal, ReaderIsJoined, NoStrayTerminal

LEMMA PtyInvStep == PtyInv /\ [Next]_vars => PtyInv'
<1> SUFFICES ASSUME PtyInv, [Next]_vars PROVE PtyInv'
  OBVIOUS
<1>0. act \in {"none", "process.exec", "wasm.invoke", "remote.execute"} => call.pc = "none"
  BY DEF PtyInv, CallsAreOfActs
<1>i. /\ pty \in [Terminals -> Session] /\ call = [pc |-> call.pc, on |-> call.on]
      /\ (\A t \in Terminals : IsSession(pty[t])) /\ NoStrayTerminal
  BY DEF PtyInv, PtyTyped
<1>p. UNCHANGED pty => \A t \in Terminals : IsSession(pty'[t])
  BY <1>i
<1>1. ASSUME NEW t \in Terminals, PtyOpen(t) PROVE PtyInv'
  <2>1. /\ call.pc = "none" /\ act' = "pty.open" /\ pty' = [pty EXCEPT ![t] = Opened]
    BY <1>1, <1>0 DEF PtyOpen, Begins, Takes
  <2>2. \/ /\ terminal = NoTerminal /\ terminal' = t
           /\ call' = [call EXCEPT !.pc = "take", !.on = t]
        \/ /\ terminal # NoTerminal /\ terminal' = terminal
           /\ call' = [call EXCEPT !.pc = "hangup", !.on = t]
    BY <1>1 DEF PtyOpen, CallOn
  <2>3. /\ call' = [pc |-> call'.pc, on |-> t] /\ call'.pc \in {"take", "hangup"}
        /\ call'.on = t /\ (call'.pc = "take" => terminal' = t)
    BY <2>2, <1>i
  <2>4. Opened \in Session /\ IsSession(Opened) /\ Opened.reader = "on"
    <3>1. /\ Opened \in Session /\ Opened.st = "open" /\ Opened.running /\ Opened.reader = "on"
          /\ Opened.owed = 0 /\ Opened.spilled = 0 /\ Opened.ring = 0 /\ Opened.dropped = 0
      BY DEF Opened, Fresh, Session
    <3> QED
      BY <3>1 DEF IsSession, Accounted, ClosedIsEmpty, RunningIsKnown
  <2>5. \A u \in Terminals : pty'[u] = IF u = t THEN Opened ELSE pty[u]
    BY <2>1, <1>i
  <2>6. \A u \in Terminals : IsSession(pty'[u])
    BY <2>4, <2>5, <1>i
  <2>7. PtyTyped'
    BY <2>1, <2>3, <2>4, <2>6, <1>i DEF PtyTyped, IsSession, Accounted, ClosedIsEmpty,
                                        RunningIsKnown
  <2>8. CallsAreOfActs' /\ CallEndsItsTerminal' /\ ReaderIsJoined'
    BY <2>1, <2>3 DEF CallsAreOfActs, CallEndsItsTerminal, ReaderIsJoined, Ending
  <2>9. NoStrayTerminal'
    BY <2>1, <2>2, <2>3, <2>5, <1>i, NoTerminalAssumption DEF NoStrayTerminal
  <2> QED
    BY <2>7, <2>8, <2>9 DEF PtyInv
<1>2. ASSUME NEW step \in {"write", "resize"}, NEW kind \in {"pty.write", "pty.resize"},
             act = "none", act' = kind, call' = [call EXCEPT !.pc = step, !.on = terminal],
             UNCHANGED <<pty, terminal>>
      PROVE  PtyInv'
  <2>1. call.pc = "none" /\ call' = [pc |-> step, on |-> terminal]
    BY <1>2, <1>0, <1>i
  <2> QED
    BY <1>2, <2>1, <1>i, <1>p
    DEF PtyInv, PtyTyped, IsSession, Accounted, ClosedIsEmpty, RunningIsKnown, CallsAreOfActs,
        CallEndsItsTerminal, ReaderIsJoined, Ending, NoStrayTerminal
<1>3. ASSUME act = "none", act' \in {"pty.close", "unmount"}, terminal' = NoTerminal,
             call' = [call EXCEPT !.pc = "hangup", !.on = terminal], UNCHANGED pty
      PROVE  PtyInv'
  <2>1. call.pc = "none" /\ call' = [pc |-> "hangup", on |-> terminal]
    BY <1>3, <1>0, <1>i
  <2> QED
    BY <1>3, <2>1, <1>i, <1>p
    DEF PtyInv, PtyTyped, IsSession, Accounted, ClosedIsEmpty, RunningIsKnown, CallsAreOfActs,
        CallEndsItsTerminal, ReaderIsJoined, Ending, NoStrayTerminal
<1>4. CASE PtyWrite
  BY <1>4, <1>2 DEF PtyWrite, Begins, Takes, CallOn
<1>5. CASE PtyResize
  BY <1>5, <1>2 DEF PtyResize, Begins, Takes, CallOn
<1>6. CASE PtyClose
  BY <1>6, <1>3 DEF PtyClose, Begins, Takes, CallOn
<1>7. CASE Unmount
  <2>1. CASE terminal = NoTerminal
    BY <1>7, <2>1, NoTerminalStep DEF Unmount
  <2>2. CASE terminal # NoTerminal
    BY <1>7, <2>2, <1>3 DEF Unmount, CallOn
  <2> QED
    BY <2>1, <2>2
<1>8. CASE PtyEnds
  <2>1. \A t \in Terminals : pty[t].child = "running" => t = terminal
    BY <1>8, <1>i DEF PtyEnds, PtyInv, CallEndsItsTerminal, NoStrayTerminal
  <2>2. call'.pc = "none" /\ call' = [pc |-> call'.pc, on |-> call'.on]
    BY <1>8 DEF PtyEnds, NoCall
  <2>3. UNCHANGED <<pty, terminal>>
    BY <1>8 DEF PtyEnds
  <2> QED
    BY <2>1, <2>2, <2>3, <1>i, <1>p
    DEF PtyInv, PtyTyped, IsSession, Accounted, ClosedIsEmpty, RunningIsKnown, CallsAreOfActs,
        CallEndsItsTerminal, ReaderIsJoined, Ending, NoStrayTerminal
<1>9. CASE (\E input \in BOOLEAN : Exec(input)) \/ WasmInvoke \/ RemoteExecute
  BY <1>9, <1>0, NoTerminalStep DEF Exec, WasmInvoke, RemoteExecute, Begins, Takes
<1>10. CASE ExecEnds \/ RemoteEnds
  BY <1>10, <1>0, NoTerminalStep DEF ExecEnds, RemoteEnds
<1>11. CASE NotStarted \/ Stop \/ Runner \/ Docks \/ Clock \/ Feeder \/ UNCHANGED vars
              \/ (Programs /\ UNCHANGED <<others, pty, call, box>>)
  BY <1>11, NoTerminalStep DEF NotStarted, Takes, Stop, Runner, Docks, Clock, Feeder, others, vars
<1>12. CASE Terminal
  BY <1>12, CallStep DEF Terminal, others
<1>13. ASSUME NEW t \in Terminals, ThreadOf(t) PROVE PtyInv'
  BY <1>13, SessionStep DEF ThreadOf, others
<1>14. CASE (\E t \in Terminals : InTerminal(t, work.output) \/ IdleTimeout(t, Windows))
              /\ UNCHANGED <<others, runVars, box>>
  BY <1>14, SessionStep DEF others
<1> QED
  BY <1>1, <1>4, <1>5, <1>6, <1>7, <1>8, <1>9, <1>10, <1>11, <1>12, <1>13, <1>14
  DEF Next, Ends, Outside

\* A terminal's process runs only while its session is registered or a call on it is
\* in progress: a name that is taken, a close and unmounting leave none behind
\* (PtySession::close and the destructor of the Lens).
THEOREM TerminalsAreKept == Spec => []NoStrayTerminal
<1>1. PtyInv => NoStrayTerminal
  BY DEF PtyInv
<1> QED
  BY PtyInitially, PtyInvStep, <1>1, PTL DEF Spec

\* Whatever the reader took from a terminal is told when pty.close has closed it, in a
\* chunk or as truncated, unless a photon failed: the output that is taken last is taken
\* when the reader is over (PtySession::close, emit_snapshot).
THEOREM OutputComes == Spec => []OutputIsTold
<1>1. PtyInv => OutputIsTold
  BY DEF PtyInv, PtyTyped, IsSession, Session, Accounted, ClosedIsEmpty, OutputIsTold
<1> QED
  BY PtyInitially, PtyInvStep, <1>1, PTL DEF Spec
=============================================================================
