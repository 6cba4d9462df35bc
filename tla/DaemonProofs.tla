---------------------------- MODULE DaemonProofs ----------------------------
(***************************************************************************)
(* What TLAPS proves of tokmond.  Of the lifetime of the daemon, for any   *)
(* number of clients and any timing: the maintenance loop neither stops it *)
(* under a client, nor under a request, nor before a grace is over.  Of the *)
(* Snow handler and the configuration worker, for any number of requests,  *)
(* copies, edits and checks: the state of the daemon is the verdict on     *)
(* what was asked last, a chat begins on an open runtime, and a cancel     *)
(* reaches its request wherever that is.                                   *)
(***************************************************************************)
EXTENDS Leases, Tokmond, TLAPS

(***************************************************************************)
(* The lifetime of the daemon                                              *)
(***************************************************************************)
\* A daemon that ended has no clients: theirs is lost.
GoneIsForgotten == daemon = "none" => \A c \in Clients : client[c] # "attached"

\* A client that sends its heartbeats is never closer than a tick to the end of
\* its lease.
LeaseIsFresh == \A c \in Clients :
    daemon = "running" /\ client[c] = "attached" =>
        /\ lease[c] >= Ttl - 1
        /\ c \in beaten => lease[c] = Ttl

\* The deadline of an unpinned daemon covers every grace that is owed.
GraceIsCovered == ~pinned => \A c \in Clients : owed[c] = 0 \/ owed[c] <= idleAt

Inv == GoneIsForgotten /\ LeaseIsFresh /\ GraceIsCovered

LEMMA Timing == /\ Ttl \in Nat /\ Ttl >= 2
                /\ \A c \in Clients : Idle[c] \in Nat
                /\ NoClient \notin Clients
BY LeaseAssumption

LEMMA PassedIs ==
    /\ \A t \in Nat : Passed(t) \in Nat /\ Passed(t) <= t
    /\ \A t \in None..Ttl : Passed(t) \in None..Ttl
    /\ Passed(None) = None
BY Timing DEF Passed, None

LEMMA TypeInit == LeasesInit => TypeOK
<1> SUFFICES ASSUME LeasesInit PROVE TypeOK
  OBVIOUS
<1>1. lease \in [Clients -> None..Ttl] /\ owed \in [Clients -> Nat]
  BY Timing DEF LeasesInit, None
<1>2. client \in [Clients -> {"away", "waiting", "found", "attached", "lost"}]
  BY DEF LeasesInit
<1> QED BY <1>1, <1>2 DEF LeasesInit, TypeOK, Phases, Beats, None

-----------------------------------------------------------------------------
(* Types *)

LEMMA TypeOfClients ==
    ASSUME TypeOK, NEW c \in Clients,
           \/ Ensure(c) \/ Poll(c) \/ Attach(c) \/ Heartbeat(c) \/ Detach(c)
           \/ Die(c) \/ Pin(c) \/ Shutdown(c) \/ Work(c)
    PROVE  TypeOK'
<1> USE Timing
<1>1. CASE Ensure(c)
  BY <1>1 DEF TypeOK, Ensure, Moves, Beats, Phases, None
<1>2. CASE Poll(c)
  BY <1>2 DEF TypeOK, Poll, Moves, Listening, Beats, Phases, None
<1>3. CASE Attach(c)
  BY <1>3 DEF TypeOK, Attach, Moves, Gone, Beats, Phases, None
<1>4. CASE Heartbeat(c)
  BY <1>4 DEF TypeOK, Heartbeat, Moves, Beats, Phases, None
<1>5. CASE Detach(c)
  BY <1>5 DEF TypeOK, Detach, Moves, Gone, Postponed, Beats, Phases, None
<1>6. CASE Die(c)
  BY <1>6 DEF TypeOK, Die, Moves, Gone, Beats, Phases, None
<1>7. CASE Pin(c)
  BY <1>7 DEF TypeOK, Pin, Moves, Listening, Beats, Phases, None
<1>8. CASE Shutdown(c)
  BY <1>8 DEF TypeOK, Shutdown, Moves, Listening, Beats, Phases, None
<1>9. CASE Work(c)
  BY <1>9 DEF TypeOK, Work, Beats, Phases, None
<1> QED BY <1>1, <1>2, <1>3, <1>4, <1>5, <1>6, <1>7, <1>8, <1>9

LEMMA TypeOfSweep ==
    ASSUME TypeOK, Sweep
    PROVE  TypeOK'
<1>1. lease' \in [Clients -> None..Ttl] /\ owed' \in [Clients -> Nat]
  BY Timing DEF TypeOK, Sweep, None
<1>2. idleAt' \in Nat \cup {None}
  BY Timing DEF TypeOK, Sweep
<1>3. candidate' \in BOOLEAN
  BY DEF Sweep
<1> QED BY <1>1, <1>2, <1>3 DEF TypeOK, Sweep, Beats

LEMMA TypeOfDaemon ==
    ASSUME TypeOK,
           WorkEnds \/ Tick \/ StopIdle \/ Close \/ Exit
    PROVE  TypeOK'
<1>1. CASE WorkEnds
  BY <1>1 DEF TypeOK, WorkEnds, Beats
<1>2. CASE Tick
  <2>1. lease' \in [Clients -> None..Ttl] /\ owed' \in [Clients -> Nat]
    BY <1>2, PassedIs DEF TypeOK, Tick
  <2>2. idleAt' \in Nat \cup {None}
    BY <1>2, PassedIs DEF TypeOK, Tick
  <2> QED BY <1>2, <2>1, <2>2 DEF TypeOK, Tick, Beats
<1>3. CASE StopIdle
  BY <1>3 DEF TypeOK, StopIdle, Beats, Phases
<1>4. CASE Close
  BY <1>4 DEF TypeOK, Close, Beats, Phases
<1>5. CASE Exit
  <2>1. lease' \in [Clients -> None..Ttl] /\ owed' \in [Clients -> Nat]
    BY <1>5, Timing DEF Exit, None
  <2>2. client' \in [Clients -> {"away", "waiting", "found", "attached", "lost"}]
    BY <1>5 DEF TypeOK, Exit
  <2>3. \A c \in Clients : Beats(c) => Beats(c)'
    BY <1>5 DEF TypeOK, Exit, Beats
  <2> QED BY <1>5, <2>1, <2>2, <2>3 DEF TypeOK, Exit, Phases
<1> QED BY <1>1, <1>2, <1>3, <1>4, <1>5

LEMMA TypeStep == TypeOK /\ [LeasesNext]_leaseVars => TypeOK'
<1> SUFFICES ASSUME TypeOK, [LeasesNext]_leaseVars PROVE TypeOK'
  OBVIOUS
<1>1. CASE UNCHANGED leaseVars
  BY <1>1 DEF TypeOK, leaseVars, Beats
<1>2. CASE LeasesNext
  BY <1>2, TypeOfClients, TypeOfSweep, TypeOfDaemon DEF LeasesNext
<1> QED BY <1>1, <1>2

(* In every state of every instance the tables of the daemon are well typed; *)
(* no lease outlasts its time to live.                                      *)
THEOREM TypeCorrect == LeasesSpec => []TypeOK
BY TypeInit, TypeStep, PTL DEF LeasesSpec
-----------------------------------------------------------------------------
(* Clients, leases and graces *)

LEMMA InvInit == LeasesInit => Inv
BY DEF LeasesInit, Inv, GoneIsForgotten, LeaseIsFresh, GraceIsCovered

LEMMA InvOfClients ==
    ASSUME TypeOK, Inv, NEW c \in Clients,
           \/ Ensure(c) \/ Poll(c) \/ Attach(c) \/ Heartbeat(c) \/ Detach(c)
           \/ Die(c) \/ Pin(c) \/ Shutdown(c) \/ Work(c)
    PROVE  Inv'
<1> USE Timing DEF TypeOK, Inv, GoneIsForgotten, LeaseIsFresh, GraceIsCovered, None
<1>1. CASE Ensure(c)
  BY <1>1 DEF Ensure, Moves
<1>2. CASE Poll(c)
  BY <1>2 DEF Poll, Moves
<1>3. CASE Attach(c)
  BY <1>3 DEF Attach, Moves, Gone
<1>4. CASE Heartbeat(c)
  BY <1>4 DEF Heartbeat, Moves, Beats
<1>5. CASE Detach(c)
  BY <1>5 DEF Detach, Moves, Gone, Postponed
<1>6. CASE Die(c)
  BY <1>6 DEF Die, Moves, Gone
<1>7. CASE Pin(c)
  BY <1>7 DEF Pin, Moves
<1>8. CASE Shutdown(c)
  BY <1>8 DEF Shutdown, Moves
<1>9. CASE Work(c)
  BY <1>9 DEF Work
<1> QED BY <1>1, <1>2, <1>3, <1>4, <1>5, <1>6, <1>7, <1>8, <1>9

\* A sweep drops no lease of a client that sends its heartbeats, and the deadline
\* it sets covers the graces that begin with it.
LEMMA InvOfSweep ==
    ASSUME TypeOK, Inv, Sweep
    PROVE  Inv'
<1> USE Timing DEF TypeOK, None
<1>1. GoneIsForgotten'
  BY DEF Inv, GoneIsForgotten, Sweep
<1>2. LeaseIsFresh'
  BY DEF Inv, LeaseIsFresh, Sweep
<1>3. ASSUME ~pinned, NEW c \in Clients
      PROVE  owed'[c] = 0 \/ owed'[c] <= idleAt'
  <2>1. idleAt' >= idleAt
    BY DEF Sweep
  <2>2. CASE lease[c] = 0
    BY <1>3, <2>2 DEF Sweep
  <2>3. CASE lease[c] # 0
    <3>1. owed'[c] = owed[c]
      BY <2>3 DEF Sweep
    <3>2. owed[c] = 0 \/ owed[c] <= idleAt
      BY <1>3 DEF Inv, GraceIsCovered
    <3>3. idleAt' \in Int /\ idleAt \in Int /\ owed[c] \in Nat
      BY TypeOfSweep
    <3> QED BY <2>1, <3>1, <3>2, <3>3
  <2> QED BY <2>2, <2>3
<1>4. pinned' = pinned
  BY DEF Sweep
<1> QED BY <1>1, <1>2, <1>3, <1>4 DEF Inv, GraceIsCovered

\* A tick passes when every client has sent its heartbeat, so that all of them
\* have a tick of their lease to spare; deadline and graces pass together.
LEMMA InvOfTick ==
    ASSUME TypeOK, Inv, Tick
    PROVE  Inv'
<1> USE Timing DEF TypeOK, None
<1>1. GoneIsForgotten'
  BY DEF Inv, GoneIsForgotten, Tick
<1>2. LeaseIsFresh'
  BY DEF Inv, LeaseIsFresh, Tick, Beats, Passed
<1>3. GraceIsCovered'
  BY DEF Inv, GraceIsCovered, Tick, Passed
<1> QED BY <1>1, <1>2, <1>3 DEF Inv

LEMMA InvOfDaemon ==
    ASSUME TypeOK, Inv, WorkEnds \/ StopIdle \/ Close \/ Exit
    PROVE  Inv'
<1> USE DEF TypeOK, Inv, GoneIsForgotten, LeaseIsFresh, GraceIsCovered
<1>1. CASE WorkEnds
  BY <1>1 DEF WorkEnds
<1>2. CASE StopIdle
  BY <1>2 DEF StopIdle
<1>3. CASE Close
  BY <1>3 DEF Close
<1>4. CASE Exit
  BY <1>4 DEF Exit
<1> QED BY <1>1, <1>2, <1>3, <1>4

LEMMA InvStep == TypeOK /\ Inv /\ [LeasesNext]_leaseVars => Inv'
<1> SUFFICES ASSUME TypeOK, Inv, [LeasesNext]_leaseVars PROVE Inv'
  OBVIOUS
<1>1. CASE UNCHANGED leaseVars
  BY <1>1 DEF Inv, GoneIsForgotten, LeaseIsFresh, GraceIsCovered, leaseVars
<1>2. CASE LeasesNext
  BY <1>2, InvOfClients, InvOfSweep, InvOfTick, InvOfDaemon DEF LeasesNext
<1> QED BY <1>1, <1>2

LEMMA Invariant == LeasesSpec => [](TypeOK /\ Inv)
BY TypeInit, TypeStep, InvInit, InvStep, PTL DEF LeasesSpec
-----------------------------------------------------------------------------
(* The theorems *)

\* The only step that makes the loop stop the daemon.
LEMMA OnlyTheLoopStops ==
    [LeasesNext]_leaseVars /\ daemon' = "idle" /\ daemon # "idle" => StopIdle /\ MayStop
<1> SUFFICES ASSUME [LeasesNext]_leaseVars, daemon' = "idle", daemon # "idle"
             PROVE  StopIdle /\ MayStop
  OBVIOUS
<1>1. ~UNCHANGED leaseVars
  BY DEF leaseVars
<1>2. ASSUME NEW c \in Clients
      PROVE  ~(\/ Ensure(c) \/ Poll(c) \/ Attach(c) \/ Heartbeat(c) \/ Detach(c)
               \/ Die(c) \/ Pin(c) \/ Shutdown(c) \/ Work(c))
  BY DEF Ensure, Poll, Attach, Heartbeat, Detach, Die, Pin, Shutdown, Work
<1>3. ~(WorkEnds \/ Tick \/ Sweep \/ Close \/ Exit)
  BY DEF WorkEnds, Tick, Sweep, Close, Exit
<1>4. StopIdle
  BY <1>1, <1>2, <1>3 DEF LeasesNext
<1> QED BY <1>4 DEF StopIdle

\* A client attaches to a daemon that runs, and to no other.
LEMMA OnlyARunningDaemonAttaches ==
    ASSUME TypeOK, [LeasesNext]_leaseVars, NEW c \in Clients,
           client'[c] = "attached", client[c] # "attached"
    PROVE  daemon = "running" /\ daemon' = "running"
<1>1. ~UNCHANGED leaseVars
  BY DEF leaseVars
<1>2. ASSUME NEW b \in Clients,
             \/ Ensure(b) \/ Poll(b) \/ Detach(b) \/ Die(b) \/ Pin(b)
             \/ Shutdown(b) \/ Work(b)
      PROVE  FALSE
  BY <1>2 DEF TypeOK, Ensure, Poll, Detach, Die, Pin, Shutdown, Work, Moves, Gone
<1>3. ~(WorkEnds \/ Tick \/ Sweep \/ StopIdle \/ Close \/ Exit)
  BY DEF TypeOK, WorkEnds, Tick, Sweep, StopIdle, Close, Exit
<1>4. \E b \in Clients : Attach(b) \/ Heartbeat(b)
  BY <1>1, <1>2, <1>3 DEF LeasesNext
<1>5. ASSUME NEW b \in Clients, Attach(b) \/ Heartbeat(b)
      PROVE  daemon = "running" /\ daemon' = "running"
  BY <1>5 DEF TypeOK, Attach, Heartbeat, Moves, Gone
<1> QED BY <1>4, <1>5

(* The loop never stops a daemon that has a client which sends its heartbeats, *)
(* whenever that client attached and however many others come and go.          *)
THEOREM ClientsAreServed == LeasesSpec => []AttachedIsServed
<1>1. LeasesInit => AttachedIsServed
  BY DEF LeasesInit, AttachedIsServed
<1>2. TypeOK /\ Inv /\ AttachedIsServed /\ [LeasesNext]_leaseVars => AttachedIsServed'
  <2> SUFFICES ASSUME TypeOK, Inv, AttachedIsServed, [LeasesNext]_leaseVars,
                      daemon' = "idle", NEW c \in Clients, client'[c] = "attached"
               PROVE  FALSE
    BY DEF AttachedIsServed
  <2>1. client[c] = "attached"
    BY OnlyARunningDaemonAttaches
  <2>2. daemon # "idle"
    BY <2>1 DEF AttachedIsServed
  <2>3. StopIdle /\ MayStop
    BY <2>2, OnlyTheLoopStops
  <2>4. lease[c] >= Ttl - 1
    BY <2>1, <2>3 DEF Inv, LeaseIsFresh, StopIdle
  <2>5. lease[c] = None
    BY <2>3 DEF MayStop, Leased
  <2> QED BY <2>4, <2>5, Timing DEF None
<1> QED BY <1>1, <1>2, Invariant, PTL DEF LeasesSpec

(* A daemon never ends while a request holds the runtime, whoever stopped it   *)
(* and whatever became of the client.                                          *)
THEOREM RequestsAreNotCutOff == LeasesSpec => []WorkIsNotCutOff
<1>1. LeasesInit => WorkIsNotCutOff
  BY DEF LeasesInit, WorkIsNotCutOff
<1>2. WorkIsNotCutOff /\ [LeasesNext]_leaseVars => WorkIsNotCutOff'
  <2> SUFFICES ASSUME WorkIsNotCutOff, [LeasesNext]_leaseVars PROVE WorkIsNotCutOff'
    OBVIOUS
  <2>1. CASE UNCHANGED leaseVars
    BY <2>1 DEF WorkIsNotCutOff, leaseVars
  <2>2. ASSUME NEW c \in Clients,
               \/ Ensure(c) \/ Poll(c) \/ Attach(c) \/ Heartbeat(c) \/ Detach(c)
               \/ Die(c) \/ Pin(c) \/ Shutdown(c) \/ Work(c)
        PROVE  WorkIsNotCutOff'
    BY <2>2 DEF WorkIsNotCutOff, Ensure, Poll, Attach, Heartbeat, Detach, Die, Pin,
                Shutdown, Work
  <2>3. CASE WorkEnds \/ Tick \/ Sweep \/ StopIdle \/ Close \/ Exit
    BY <2>3 DEF WorkIsNotCutOff, WorkEnds, Tick, Sweep, StopIdle, Close, Exit
  <2> QED BY <2>1, <2>2, <2>3 DEF LeasesNext
<1> QED BY <1>1, <1>2, PTL DEF LeasesSpec

(* The loop stops a daemon only when nothing is left of the grace of any       *)
(* client, in whatever order clients with different graces left it.            *)
THEOREM GracesAreKept == LeasesSpec => GraceIsKept
<1>1. TypeOK /\ Inv /\ [LeasesNext]_leaseVars =>
        [daemon' = "idle" /\ daemon # "idle" => \A c \in Clients : owed[c] = 0]_leaseVars
  <2> SUFFICES ASSUME TypeOK, Inv, [LeasesNext]_leaseVars, daemon' = "idle", daemon # "idle",
                      NEW c \in Clients
               PROVE  owed[c] = 0
    OBVIOUS
  <2>1. MayStop
    BY OnlyTheLoopStops
  <2>2. owed[c] = 0 \/ owed[c] <= 0
    BY <2>1 DEF MayStop, Inv, GraceIsCovered
  <2> QED BY <2>2 DEF TypeOK
<1> QED BY <1>1, Invariant, PTL DEF LeasesSpec, GraceIsKept
-----------------------------------------------------------------------------
(***************************************************************************)
(* The configuration.  Only the worker judges, and while a state other     *)
(* than "starting" is shown it has nothing to do.                          *)
(***************************************************************************)
ConfigTyped ==
    /\ file.version \in Nat /\ asked \in Nat /\ verdict.version \in Nat
    /\ boot = [state |-> boot.state, requested |-> boot.requested, completed |-> boot.completed]
    /\ boot.requested \in Nat
    /\ worker = [pc |-> worker.pc, generation |-> worker.generation, ok |-> worker.ok]
    /\ worker.generation \in Nat /\ worker.ok \in BOOLEAN
    /\ runtime = [opened |-> runtime.opened, life |-> runtime.life, policy |-> runtime.policy,
                  mounted |-> runtime.mounted]

\* The verdict is as old as the answer that is about to be published.
Judged ==
    /\ asked <= file.version
    /\ worker.generation <= boot.requested
    /\ boot.state # "starting" => worker.pc = "wait" /\ boot.requested = boot.completed
    /\ worker.pc = "publish" => verdict.ok = worker.ok
    /\ worker.pc = "publish" /\ boot.requested = worker.generation => verdict.version >= asked

\* Nothing that opened is ever closed.
ReadyIsOpen ==
    /\ worker.pc = "publish" /\ worker.ok => runtime.opened
    /\ boot.state = "ready" => runtime.opened
    /\ \A c \in Copies : copy[c] = "queued" => runtime.opened

ConfigInv == ConfigTyped /\ Judged /\ StateIsTheVerdict

(***************************************************************************)
(* The requests.  A copy that has begun holds runtime_mutex, so its ray is *)
(* the one that is registered.                                             *)
(***************************************************************************)
Registered(c) == copy[c] \in {"advancing", "beating", "advanced", "failed"}

RequestTyped ==
    /\ copy \in [Copies -> Places]
    /\ active \in [Ids -> Copies \cup {Nobody}]
    /\ cancel \in [Ids -> [pc : {"unsent", "found", "answered"}, ray : Copies \cup {Nobody}]]

OneAtATime ==
    /\ worker.pc = "mount" => mutex = Worker
    /\ \A c \in Copies : /\ Registered(c) \/ copy[c] = "begun" => mutex = c
                         /\ Registered(c) => active[IdOf[c]] = c

CancelReaches ==
    \A i \in Ids : cancel[i].pc # "unsent" =>
        /\ i \in cancelled
        /\ \A c \in Copies : IdOf[c] = i /\ Registered(c) =>
               c \in darkened \/ (cancel[i].pc = "found" /\ cancel[i].ray = c)

RequestInv == RequestTyped /\ OneAtATime /\ CancelReaches
-----------------------------------------------------------------------------
(* StateIsTheVerdict *)

LEMMA ConfigInit == Init => ConfigInv
BY TokmondAssumption
   DEF Init, ConfigInv, ConfigTyped, Judged, StateIsTheVerdict

LEMMA ConfigKept == ConfigInv /\ [Next]_vars => ConfigInv'
<1> SUFFICES ASSUME ConfigInv, [Next]_vars PROVE ConfigInv'
  OBVIOUS
<1> USE DEF ConfigInv, ConfigTyped, Judged, StateIsTheVerdict
<1>1. CASE Edit
  BY <1>1, TokmondAssumption DEF Edit
<1>2. CASE FirstAttach \/ Watch \/ Revalidate
  <2>1. RequestValidation /\ UNCHANGED <<file, worker, runtime, verdict>>
    BY <1>2 DEF FirstAttach, Watch, Revalidate
  <2>2. /\ boot'.state = "starting" /\ boot'.requested = boot.requested + 1
        /\ boot' = [state |-> boot'.state, requested |-> boot'.requested,
                    completed |-> boot'.completed]
    BY <2>1 DEF RequestValidation
  <2> QED
    BY <2>1, <2>2 DEF RequestValidation
<1>3. CASE WorkerTakes
  <2>1. /\ boot.state = "starting" /\ UNCHANGED <<file, boot, runtime, asked, verdict>>
        /\ worker' = [pc |-> "load", generation |-> boot.requested, ok |-> worker.ok]
    BY <1>3 DEF WorkerTakes
  <2> QED
    BY <2>1
<1>4. CASE WorkerLoads
  <2> UNCHANGED <<file, boot, runtime, asked>>
    BY <1>4 DEF WorkerLoads
  <2>1. CASE file.kind = "invalid"
    <3>1. /\ worker' = [pc |-> "publish", generation |-> worker.generation, ok |-> FALSE]
          /\ verdict' = [version |-> file.version, ok |-> FALSE]
      BY <1>4, <2>1 DEF WorkerLoads
    <3> QED
      BY <1>4, <3>1 DEF WorkerLoads
  <2>2. CASE file.kind # "invalid"
    BY <1>4, <2>2 DEF WorkerLoads
  <2> QED
    BY <2>1, <2>2
<1>5. CASE WorkerLocks
  BY <1>5 DEF WorkerLocks
<1>6. CASE WorkerMounts
  BY <1>6 DEF WorkerMounts
<1>7. CASE WorkerPublishes
  BY <1>7 DEF WorkerPublishes
<1>8. CASE UNCHANGED bootVars
  BY <1>8 DEF bootVars
<1>9. ASSUME NEW c \in Copies, Send(c) \/ Request(c) \/ Deadline(c)
      PROVE  UNCHANGED bootVars
  BY <1>9 DEF Send, Request, Arrive, Gate, Begin, Register, Beat, BeatEnds, Finish, Deadline
<1>10. ASSUME NEW i \in Ids, Cancel(i) \/ CancelRay(i)
       PROVE  UNCHANGED bootVars
  BY <1>10 DEF Cancel, CancelRay
<1>11. UNCHANGED vars => UNCHANGED bootVars
  BY DEF vars, bootVars
<1> QED
  BY <1>1, <1>2, <1>3, <1>4, <1>5, <1>6, <1>7, <1>8, <1>9, <1>10, <1>11
     DEF Next, Configuration

(* The state that daemon.status shows is the verdict on a configuration as   *)
(* new as the last check that was asked for, for any number of edits and     *)
(* checks.                                                                   *)
THEOREM StateIsJudged == Spec => []StateIsTheVerdict
<1>1. ConfigInv => StateIsTheVerdict
  BY DEF ConfigInv
<1> QED
  BY <1>1, ConfigInit, ConfigKept, PTL DEF Spec
-----------------------------------------------------------------------------
(* CancelIsNotLost *)

LEMMA RequestInit == Init => RequestInv
BY DEF Init, RequestInv, RequestTyped, OneAtATime, CancelReaches, Registered, Places

LEMMA RequestKept == ConfigTyped /\ RequestInv /\ [Next]_vars => RequestInv'
<1> SUFFICES ASSUME ConfigTyped, RequestInv, [Next]_vars PROVE RequestInv'
  OBVIOUS
<1> USE TokmondAssumption
    DEF RequestInv, RequestTyped, OneAtATime, CancelReaches, Registered
<1>1. CASE Configuration
  <2>1. UNCHANGED requestVars
    BY <1>1 DEF Configuration, Edit, FirstAttach, Watch, Revalidate, WorkerTakes, WorkerLoads,
                WorkerLocks, WorkerMounts, WorkerPublishes
  <2>2. (worker'.pc = "mount" => mutex' = Worker) /\ \A c \in Copies : mutex = c => mutex' = c
    <3>0. CASE WorkerLocks
      BY <3>0 DEF WorkerLocks, ConfigTyped
    <3>1. CASE WorkerMounts
      BY <3>1 DEF WorkerMounts, ConfigTyped
    <3>2. CASE WorkerTakes \/ WorkerLoads \/ WorkerPublishes
      BY <3>2 DEF WorkerTakes, WorkerLoads, WorkerPublishes, ConfigTyped
    <3>3. CASE Edit \/ FirstAttach \/ Watch \/ Revalidate
      BY <3>3 DEF Edit, FirstAttach, Watch, Revalidate
    <3> QED
      BY <1>1, <3>0, <3>1, <3>2, <3>3 DEF Configuration
  <2> QED
    BY <2>1, <2>2 DEF requestVars
<1>2. ASSUME NEW c \in Copies, Send(c) \/ Arrive(c) \/ Gate(c)
      PROVE  RequestInv'
  BY <1>2 DEF Send, Arrive, Gate, Goes, bootVars, Places
<1>3. ASSUME NEW c \in Copies, Begin(c)
      PROVE  RequestInv'
  BY <1>3 DEF Begin, Goes, bootVars, Places
<1>4. ASSUME NEW c \in Copies, Register(c)
      PROVE  RequestInv'
  BY <1>4 DEF Register, Goes, bootVars, Places
<1>5. ASSUME NEW c \in Copies, Beat(c) \/ BeatEnds(c) \/ Deadline(c)
      PROVE  RequestInv'
  <2>1. CASE Beat(c)
    BY <2>1 DEF Beat, Goes, bootVars, Places
  <2>2. CASE BeatEnds(c)
    BY <2>2 DEF BeatEnds, Goes, bootVars, Places
  <2>3. CASE Deadline(c)
    BY <2>3 DEF Deadline, bootVars, Places
  <2> QED
    BY <1>5, <2>1, <2>2, <2>3
<1>6. ASSUME NEW c \in Copies, Finish(c)
      PROVE  RequestInv'
  BY <1>6 DEF Finish, Goes, bootVars, Places
<1>7. ASSUME NEW i \in Ids, Cancel(i)
      PROVE  RequestInv'
  BY <1>7 DEF Cancel, bootVars
<1>8. ASSUME NEW i \in Ids, CancelRay(i)
      PROVE  RequestInv'
  BY <1>8 DEF CancelRay, bootVars
<1>9. CASE UNCHANGED vars
  BY <1>9 DEF vars
<1> QED
  BY <1>1, <1>2, <1>3, <1>4, <1>5, <1>6, <1>7, <1>8, <1>9 DEF Next, Request

(* Once a cancel is answered, no beat of any copy of its request begins, for *)
(* any number of requests, copies and cancels.                               *)
THEOREM CancelsAreKept == Spec => CancelIsNotLost
<1>1. RequestInv /\ [Next]_vars =>
        [\A c \in Copies : copy[c] = "advancing" /\ copy'[c] = "beating" =>
            cancel[IdOf[c]].pc # "answered"]_vars
  <2> SUFFICES ASSUME RequestInv, Next, NEW c \in Copies,
                      copy[c] = "advancing", copy'[c] = "beating"
               PROVE  cancel[IdOf[c]].pc # "answered"
    OBVIOUS
  <2>1. Beat(c) \/ BeatEnds(c)
    <3> USE DEF RequestInv, RequestTyped
    <3>1. ~Configuration
      BY DEF Configuration, Edit, FirstAttach, Watch, Revalidate, WorkerTakes, WorkerLoads,
             WorkerLocks, WorkerMounts, WorkerPublishes, requestVars
    <3>2. \A i \in Ids : ~Cancel(i) /\ ~CancelRay(i)
      BY DEF Cancel, CancelRay
    <3>3. PICK d \in Copies : Send(d) \/ Request(d) \/ Deadline(d)
      BY <3>1, <3>2 DEF Next
    <3>4. d = c
      BY <3>3 DEF Send, Request, Arrive, Gate, Begin, Register, Beat, BeatEnds, Finish, Deadline,
                  Goes
    <3> QED
      BY <3>3, <3>4 DEF Send, Request, Arrive, Gate, Begin, Register, Finish, Deadline, Goes
  <2>2. c \notin darkened
    BY <2>1 DEF Beat, BeatEnds, Goes, RequestInv, RequestTyped
  <2> QED
    BY <2>2, TokmondAssumption DEF RequestInv, CancelReaches, Registered
<1>2. ConfigInv => ConfigTyped
  BY DEF ConfigInv
<1> QED
  BY <1>1, <1>2, ConfigInit, ConfigKept, RequestInit, RequestKept, PTL
     DEF Spec, CancelIsNotLost
-----------------------------------------------------------------------------
(* BeginsOnAnOpenRuntime *)

LEMMA OpenInit == Init => ReadyIsOpen
BY DEF Init, ReadyIsOpen

LEMMA OpenKept == ConfigTyped /\ RequestTyped /\ ReadyIsOpen /\ [Next]_vars => ReadyIsOpen'
<1> SUFFICES ASSUME ConfigTyped, RequestTyped, ReadyIsOpen, [Next]_vars PROVE ReadyIsOpen'
  OBVIOUS
<1> USE DEF ReadyIsOpen, ConfigTyped
<1>1. CASE Configuration
  <2>1. UNCHANGED copy
    BY <1>1 DEF Configuration, Edit, FirstAttach, Watch, Revalidate, WorkerTakes, WorkerLoads,
                WorkerLocks, WorkerMounts, WorkerPublishes, requestVars
  <2>2. CASE Edit \/ FirstAttach \/ Watch \/ Revalidate
    BY <2>1, <2>2 DEF Edit, FirstAttach, Watch, Revalidate, RequestValidation
  <2>3. CASE WorkerTakes \/ WorkerLoads \/ WorkerLocks
    BY <2>1, <2>3 DEF WorkerTakes, WorkerLoads, WorkerLocks
  <2>4. CASE WorkerMounts
    BY <2>1, <2>4 DEF WorkerMounts
  <2>5. CASE WorkerPublishes
    BY <2>1, <2>5 DEF WorkerPublishes
  <2> QED
    BY <1>1, <2>2, <2>3, <2>4, <2>5 DEF Configuration
<1>2. ASSUME NEW c \in Copies, Send(c) \/ Request(c) \/ Deadline(c)
      PROVE  ReadyIsOpen'
  <2>1. UNCHANGED <<worker, runtime, boot>>
    BY <1>2 DEF Send, Request, Arrive, Gate, Begin, Register, Beat, BeatEnds, Finish, Deadline,
                bootVars
  <2>2. ASSUME NEW d \in Copies, copy'[d] = "queued"
        PROVE  copy[d] = "queued" \/ boot.state = "ready"
    BY <1>2, <2>2 DEF Send, Request, Arrive, Gate, Begin, Register, Beat, BeatEnds, Finish,
                Deadline, Goes, RequestTyped
  <2> QED
    BY <2>1, <2>2
<1>3. ASSUME NEW i \in Ids, Cancel(i) \/ CancelRay(i)
      PROVE  ReadyIsOpen'
  BY <1>3 DEF Cancel, CancelRay, bootVars
<1>4. CASE UNCHANGED vars
  BY <1>4 DEF vars
<1> QED
  BY <1>1, <1>2, <1>3, <1>4 DEF Next

(* A chat that passed the gate begins on a runtime that is open, whatever    *)
(* edits and refused checks come in between.                                 *)
THEOREM ChatsBeginOpen == Spec => BeginsOnAnOpenRuntime
<1>1. ReadyIsOpen /\ [Next]_vars =>
        [\A c \in Copies : copy[c] = "queued" /\ copy'[c] = "begun" => runtime.opened]_vars
  BY DEF ReadyIsOpen
<1>2. ConfigInv /\ RequestInv => ConfigTyped /\ RequestTyped
  BY DEF ConfigInv, RequestInv
<1> QED
  BY <1>1, <1>2, ConfigInit, ConfigKept, RequestInit, RequestKept, OpenInit, OpenKept, PTL
     DEF Spec, BeginsOnAnOpenRuntime
=============================================================================
