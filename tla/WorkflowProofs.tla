--------------------------- MODULE WorkflowProofs ---------------------------
(***************************************************************************)
(* What TLAPS proves of one ray that follows a workflow, for any workflows, *)
(* requests of clients and disturbances: a child of the ray ends once, a    *)
(* result is that of the step's last dispatch, and a workflow whose steps  *)
(* go one by one is not forgotten.                                         *)
(***************************************************************************)
EXTENDS Workflow, FiniteSetTheorems, SequenceTheorems, WellFoundedInduction, TLAPS

(***************************************************************************)
(* The invariant of the log.  An Act of a dispatch answers the photon that  *)
(* asked for it; it starts, and ends at most once, while that is the last  *)
(* dispatch; a failure is recorded after the end of the Act of the last    *)
(* attempt before it.                                                      *)
(***************************************************************************)
IsLog(l) == l \in Seq({l[i] : i \in DOMAIN l})

IsDispatch(l, a) ==
    /\ a.kind = "dispatch" /\ a.of \in Positions(l, Dispatches)
    /\ l[a.of].arg.concrete
    /\ a.arg = [node |-> l[a.of].arg.node,
                compensation |-> l[a.of].kind = "workflow.compensation-dispatched"]

DispatchStarts(l) == {i \in Positions(l, {"act.started"}) : l[i].act.kind = "dispatch"}
DispatchEnds(l) ==
    {i \in Positions(l, {"act.completed", "act.failed"}) : l[i].act.kind = "dispatch"}
StartsOfDispatch(l, d) == {i \in DispatchStarts(l) : l[i].act.of = d}
EndsOfDispatch(l, d) == {i \in DispatchEnds(l) : l[i].act.of = d}

StartsAreDue(l) == \A i \in DispatchStarts(l) : IsDispatch(l, l[i].act)

EndsAreOfTheLast(l) ==
    \A e \in DispatchEnds(l) :
        /\ IsDispatch(l, l[e].act)
        /\ l[e].act.of < e
        /\ StartsOfDispatch(l, l[e].act.of) # {}
        /\ \A d \in Positions(l, Dispatches) : d < e => d <= l[e].act.of

ActsEndOnce(l) ==
    \A e, f \in DispatchEnds(l) : l[e].act.of = l[f].act.of => e = f

\* End e is that of the last attempt of a step before position f.
IsAttemptsEnd(l, node, e, f) ==
    /\ e < f
    /\ l[e].act.arg = [node |-> node, compensation |-> FALSE]
    /\ \A d \in DispatchesOf(l, node) : d < f => d <= l[e].act.of

FailuresAreEnds(l) ==
    \A f \in Positions(l, {"workflow.step-failed"}) :
        \E e \in DispatchEnds(l) : IsAttemptsEnd(l, l[f].arg, e, f)

\* Nothing is dispatched before a definition, and a definition is of a workflow.
DefinitionsFirst(l) ==
    /\ \A i \in Positions(l, {"workflow.defined"}) : l[i].arg \in DOMAIN Workflows
    /\ Defined(l) = 0 => Positions(l, Dispatches) = {}

\* Children are numbers, inputs are for the local model, and there is no code.
IsTyped(l) ==
    /\ \A i \in Positions(l, {"child.started"}) : l[i].arg.child \in Nat
    /\ \A i \in Positions(l, {"user.input"}) : l[i].arg = "local-chat"
    /\ Positions(l, {"code.frame"}) = {}

(***************************************************************************)
(* While the steps go one by one: a step is dispatched when nothing is in   *)
(* flight and nothing is left to record, so until its Act starts there is  *)
(* no failure to stop or to compensate, and no other dispatch covers it.    *)
(***************************************************************************)
Flying(l) == {n \in AllNodes : InFlight(l, n)}
Done(l) == {n \in AllNodes : Ended(l, n) # 0 /\ ~Recorded(l, n)}

\* The last dispatch is of a step, whose Act has not been started.
Waiting(l) ==
    LET d == Latest(l, Dispatches)
    IN  d # 0 /\ l[d].kind = "workflow.step-dispatched" /\ StartsOfDispatch(l, d) = {}

NothingIsCovered(l) ==
    OneByOne(l) =>
        /\ Waiting(l) => Done(l) = {} /\ Stopping(l) = {}
        /\ \A n \in Flying(l) :
              LastDispatch(l, n) # Latest(l, Dispatches) =>
                  StartsOfDispatch(l, LastDispatch(l, n)) # {}

LogInv(l) == /\ IsLog(l) /\ StartsAreDue(l) /\ EndsAreOfTheLast(l) /\ ActsEndOnce(l)
             /\ FailuresAreEnds(l) /\ DefinitionsFirst(l) /\ IsTyped(l)
             /\ NothingIsCovered(l)

(***************************************************************************)
(* What holds when a photon is appended.                                   *)
(***************************************************************************)
Due(l, a) ==
    /\ IsDispatch(l, a) /\ a.of = Latest(l, Dispatches)
    /\ StartsOfDispatch(l, a.of) = {}

Running(l, a) ==
    /\ IsDispatch(l, a) /\ a.of = Latest(l, Dispatches)
    /\ StartsOfDispatch(l, a.of) # {} /\ EndsOfDispatch(l, a.of) = {}

StepResults == {"workflow.step-completed", "workflow.step-failed"}

IsJoin(l, p) ==
    p.kind = "workflow.step-completed" /\ Defined(l) # 0 /\ Nodes(l)[p.arg].does = "join"

\* What a step's record says happened to the last attempt, and is said once.
Recordable(l, p) ==
    /\ \E e \in DispatchEnds(l) :
           /\ l[e].kind = IF p.kind = "workflow.step-completed" THEN "act.completed"
                                                             ELSE "act.failed"
           /\ l[e].act.of = LastDispatch(l, p.arg)
           /\ l[e].act.arg = [node |-> p.arg, compensation |-> FALSE]
    /\ \A i \in Positions(l, StepResults) : l[i].arg = p.arg => i < LastDispatch(l, p.arg)
    /\ p.arg \in Done(l)

\* DarkMeansSettled, of the log that is darkened.
Settled(l) ==
    ~Halted(l) /\ OneByOne(l) /\ Stopping(l) = {} =>
        /\ \A n \in Flying(l) :
               /\ l[LastDispatch(l, n)].arg.concrete <=>
                     \E i \in StartsOfDispatch(l, LastDispatch(l, n)) :
                         l[i].act.arg = [node |-> n, compensation |-> FALSE]
               /\ EndsOfDispatch(l, LastDispatch(l, n)) = {}
        /\ Flying(l) = {} => \A n \in DOMAIN Nodes(l) :
               \/ Recorded(l, n)
               \/ \E d \in Nodes(l)[n].needs :
                     ~Succeeded(l, d) /\ ~Skipped(l, d) /\ ~PassedOver(l, d)

StartsDispatch(p) == p.kind = "act.started" /\ p.act.kind = "dispatch"
EndsDispatch(p) == p.kind \in {"act.completed", "act.failed"} /\ p.act.kind = "dispatch"

May(l, p) ==
    /\ StartsDispatch(p) => Due(l, p.act)
    /\ EndsDispatch(p) => Running(l, p.act)
    /\ p.kind \in StepResults => IsJoin(l, p) \/ Recordable(l, p)
    /\ p.kind = "workflow.step-dispatched" =>
          Defined(l) # 0 /\ (OneByOne(l) => Flying(l) = {} /\ Done(l) = {} /\ Stopping(l) = {})
    /\ p.kind = "workflow.compensation-dispatched" =>
          Defined(l) # 0 /\ (OneByOne(l) => Stopping(l) # {})
    /\ p.kind = "workflow.defined" => p.arg \in DOMAIN Workflows
    /\ p.kind \in ChildEnds => EndsOfChild(l, p.arg, ChildEnds) = {}
    /\ p.kind = "child.started" => p.arg.child \in Nat
    /\ p.kind = "user.input" => p.arg = "local-chat"
    /\ p.kind # "code.frame"
    /\ p.kind = "ray.darkened" => Settled(l)

(***************************************************************************)
(* The invariant of the frame of advance.  While the Act of a dispatch is   *)
(* carried out, nothing else is dispatched; what Clotho is about to record *)
(* or to dispatch stays due; children that are still to be advanced have   *)
(* not ended.                                                              *)
(***************************************************************************)
StepKinds == {"workflow.step-dispatched", "workflow.compensation-dispatched",
              "workflow.step-completed", "workflow.step-failed", "workflow.step-skipped",
              "workflow.step-retry-requested", "workflow.compensation-completed",
              "workflow.defined"}

\* Nothing that is worked out of a workflow depends on these photons.
Silent(p) == p.kind \notin StepKinds /\ ~StartsDispatch(p) /\ ~EndsDispatch(p)

Plain(p) ==
    /\ Silent(p) /\ p.kind \notin {"user.input", "code.frame", "ray.darkened"} \cup ChildEnds
    /\ p.kind = "child.started" => p.arg.child \in Nat

ClothoActs == {"workflow.define", "workflow.retry", "workflow.pause", "workflow.resume",
               "workflow.cancel", "workflow.step", "workflow.compensate",
               "workflow.record-step", "workflow.record-compensation"}
ClothoPhotons == StepKinds \cup {"workflow.paused", "workflow.resumed", "workflow.cancelled",
                                 "workflow.compensation-failed"}

ToSay(l, p) == p.kind \in ClothoPhotons /\ May(l, p)

Results == {"completed", "failed", "rejected", "error", "cancelled"}

IsFrame(b) ==
    /\ DOMAIN b = {"pc", "beats", "act", "todo", "result", "once"}
    /\ b.pc \in {"idle", "check", "view", "dark", "run", "emit", "finish", "abort",
                 "children", "answered", "broken", "recover"}
    /\ b.pc \in {"emit", "finish"} => b.result \in Results

FrameInv(l, b) ==
    /\ IsFrame(b)
    /\ b.pc \in {"run", "emit", "finish"} /\ b.act.kind = "dispatch" => Running(l, b.act)
    /\ b.pc = "run" =>
          /\ b.act.kind \in ClothoActs => ToSay(l, ClothoEmits(l, b.act))
          /\ b.act.kind = "model.call" => Latest(l, {"user.input"}) # 0
    /\ b.pc = "emit" =>
          /\ IsLog(b.todo)
          /\ \/ \A i \in DOMAIN b.todo : Plain(b.todo[i])
             \/ b.act.kind # "dispatch" /\ \E p : b.todo = <<p>> /\ ToSay(l, p)
    /\ b.pc \in {"children", "answered", "broken"} =>
          /\ b.todo \in SUBSET Nat /\ (b.pc # "children" => b.todo # {})
          /\ \A c \in b.todo : EndsOfChild(l, c, ChildEnds) = {}

WorkflowInv == LogInv(log) /\ FrameInv(log, beat) /\ IsLog(children)
-----------------------------------------------------------------------------
(* The last photon of some kinds *)

(* A set of numbers has a least one, and a largest one if it is bounded.   *)
LEMMA Least == ASSUME NEW T \in SUBSET Nat, T # {} PROVE \E m \in T : \A k \in T : m <= k
<1>1. PICK m \in T : \A k \in T : ~(<<k, m>> \in OpToRel(<, Nat))
  BY NatLessThanWellFounded, WFMin
<1>2. \A k \in T : ~(k < m)
  BY <1>1 DEF OpToRel
<1> QED
  BY <1>2

LEMMA Largest ==
  ASSUME NEW S \in SUBSET Nat, S # {}, NEW n \in Nat, \A x \in S : x <= n
  PROVE  Max(S) \in S /\ \A x \in S : x <= Max(S)
<1> DEFINE T == {m \in Nat : \A x \in S : x <= m}
<1>1. T \in SUBSET Nat /\ T # {}
  OBVIOUS
<1>2. PICK m \in T : \A k \in T : m <= k
  BY <1>1, Least
<1>3. m \in S
  <2> SUFFICES ASSUME m \notin S PROVE FALSE
    OBVIOUS
  <2>1. \A x \in S : x < m
    BY <1>2
  <2>2. PICK y \in S : y \in Nat /\ y < m
    BY <2>1
  <2>3. \A x \in S : x <= m - 1
    BY <2>1
  <2>4. m - 1 \in T
    BY <2>2, <2>3
  <2> QED
    BY <1>2, <2>4
<1>4. \E x \in S : \A y \in S : x >= y
  BY <1>2, <1>3
<1> QED
  BY <1>4 DEF Max

LEMMA OwnMembers == ASSUME NEW S, NEW l \in Seq(S) PROVE IsLog(l)
<1>1. PICK n \in Nat : l \in [1..n -> S]
  BY SeqDef
<1>2. l \in [1..n -> {l[i] : i \in DOMAIN l}]
  BY <1>1
<1>3. l \in Seq({l[i] : i \in DOMAIN l})
  BY <1>2, SeqDef
<1> QED
  BY <1>3 DEF IsLog

LEMMA FunctionIsSeq ==
  ASSUME NEW S, NEW n \in Nat, NEW f \in [1..n -> S]
  PROVE  f \in Seq(S)
BY SeqDef

LEMMA LogLen == ASSUME NEW l, IsLog(l) PROVE Len(l) \in Nat /\ DOMAIN l = 1..Len(l)
BY DEF IsLog

LEMMA LatestIsLast ==
  ASSUME NEW l, IsLog(l), NEW kinds
  PROVE  /\ Latest(l, kinds) \in 0..Len(l)
         /\ Latest(l, kinds) # 0 => Latest(l, kinds) \in Positions(l, kinds)
         /\ \A i \in Positions(l, kinds) : i <= Latest(l, kinds)
<1> DEFINE S == Positions(l, kinds) \cup {0}
<1>1. S \in SUBSET Nat /\ S # {} /\ \A x \in S : x <= Len(l)
  BY LogLen DEF Positions
<1>2. Max(S) \in S /\ \A x \in S : x <= Max(S)
  BY <1>1, LogLen, Largest
<1> QED
  BY <1>1, <1>2, LogLen DEF Latest, Positions

LEMMA AppendIsLog ==
  ASSUME NEW l, IsLog(l), NEW p
  PROVE  /\ IsLog(Append(l, p)) /\ Len(Append(l, p)) = Len(l) + 1
         /\ Append(l, p)[Len(l) + 1] = p
         /\ \A i \in 1..Len(l) : Append(l, p)[i] = l[i]
<1> DEFINE T == {l[i] : i \in DOMAIN l} \cup {p}
           a == Append(l, p)
<1>1. l \in Seq(T)
  BY SeqMonotonic DEF IsLog
<1>2. p \in T
  OBVIOUS
<1> HIDE DEF T
<1>3. /\ a \in Seq(T) /\ Len(a) = Len(l) + 1 /\ a[Len(l) + 1] = p
      /\ \A i \in 1..Len(l) : a[i] = l[i]
  BY <1>1, <1>2, AppendProperties
<1> HIDE DEF a
<1>4. IsLog(a)
  BY <1>3, OwnMembers
<1> QED
  BY <1>3, <1>4 DEF a

LEMMA AppendPositions ==
  ASSUME NEW l, IsLog(l), NEW p, NEW kinds
  PROVE  Positions(Append(l, p), kinds) =
           Positions(l, kinds) \cup (IF p.kind \in kinds THEN {Len(l) + 1} ELSE {})
<1> DEFINE a == Append(l, p)
<1>1. /\ IsLog(a) /\ Len(a) = Len(l) + 1 /\ a[Len(l) + 1] = p
      /\ \A i \in 1..Len(l) : a[i] = l[i]
  BY AppendIsLog
<1> HIDE DEF a
<1>2. DOMAIN a = 1..(Len(l) + 1) /\ DOMAIN l = 1..Len(l) /\ Len(l) \in Nat
  BY <1>1, LogLen
<1>3. Positions(a, kinds) = Positions(l, kinds) \cup (IF p.kind \in kinds THEN {Len(l) + 1} ELSE {})
  BY <1>1, <1>2 DEF Positions
<1> QED
  BY <1>3 DEF a

LEMMA AppendLatest ==
  ASSUME NEW l, IsLog(l), NEW p, NEW kinds
  PROVE  Latest(Append(l, p), kinds) =
           IF p.kind \in kinds THEN Len(l) + 1 ELSE Latest(l, kinds)
<1>1. /\ IsLog(Append(l, p)) /\ Len(Append(l, p)) = Len(l) + 1 /\ Len(l) \in Nat
  BY AppendIsLog, LogLen
<1>2. CASE p.kind \in kinds
  <2>1. Len(l) + 1 \in Positions(Append(l, p), kinds)
    BY <1>2, AppendPositions
  <2> DEFINE n == Latest(Append(l, p), kinds)
  <2>2. n \in 0..(Len(l) + 1) /\ Len(l) + 1 <= n
    BY <1>1, <2>1, LatestIsLast
  <2> HIDE DEF n
  <2>3. n = Len(l) + 1
    BY <1>1, <2>2
  <2> QED
    BY <1>2, <2>3 DEF n
<1>3. CASE p.kind \notin kinds
  <2>1. Positions(Append(l, p), kinds) = Positions(l, kinds)
    <3> DEFINE after == Positions(Append(l, p), kinds)
    <3>1. after = Positions(l, kinds) \cup (IF p.kind \in kinds THEN {Len(l) + 1} ELSE {})
      BY AppendPositions
    <3> HIDE DEF after
    <3>2. after = Positions(l, kinds)
      BY <1>3, <3>1
    <3> QED
      BY <3>2 DEF after
  <2> QED
    BY <1>3, <2>1 DEF Latest
<1> QED
  BY <1>2, <1>3

LEMMA NoPhotons == IsLog(<<>>)
BY EmptySeq DEF IsLog

LEMMA TailIsLog ==
  ASSUME NEW s, IsLog(s), s # <<>>
  PROVE  /\ Head(s) = s[1] /\ 1 \in DOMAIN s /\ Len(s) \in Nat /\ DOMAIN s = 1..Len(s)
         /\ IsLog(Tail(s)) /\ Len(Tail(s)) = Len(s) - 1 /\ DOMAIN Tail(s) = 1..(Len(s) - 1)
         /\ \A i \in DOMAIN Tail(s) : Tail(s)[i] = s[i + 1]
<1> DEFINE T == {s[i] : i \in DOMAIN s}
           r == Tail(s)
<1>1. s \in Seq(T)
  BY DEF IsLog
<1> HIDE DEF T
<1>2. /\ r \in Seq(T) /\ Len(r) = Len(s) - 1
      /\ \A i \in 1..Len(r) : r[i] = s[i + 1]
  BY <1>1, HeadTailProperties
<1>3. Len(s) \in Nat \ {0} /\ DOMAIN s = 1..Len(s)
  BY <1>1, EmptySeq, LenProperties
<1>4. Head(s) = s[1]
  BY <1>1
<1> HIDE DEF r
<1>5. IsLog(r)
  BY <1>2, OwnMembers
<1>6. DOMAIN r = 1..Len(r)
  BY <1>2, LenProperties
<1> QED
  BY <1>2, <1>3, <1>4, <1>5, <1>6 DEF r

LEMMA OnePhoton ==
  ASSUME NEW p
  PROVE  IsLog(<<p>>) /\ DOMAIN <<p>> = {1} /\ <<p>>[1] = p
<1>1. DOMAIN <<p>> = 1..1 /\ <<p>>[1] = p
  OBVIOUS
<1>2. <<p>> \in Seq({p})
  OBVIOUS
<1>3. IsLog(<<p>>)
  BY <1>2, OwnMembers
<1> QED
  BY <1>1, <1>3

LEMMA BeforeAppend ==
  ASSUME NEW l, IsLog(l), NEW p
  PROVE  SubSeq(Append(l, p), 1, Len(Append(l, p)) - 1) = l
<1> DEFINE a == Append(l, p)
           b == SubSeq(a, 1, Len(a) - 1)
           T == {l[i] : i \in DOMAIN l}
<1>1. /\ Len(a) = Len(l) + 1 /\ Len(l) \in Nat
      /\ \A i \in 1..Len(l) : a[i] = l[i]
  BY AppendIsLog, LogLen
<1>2. l \in Seq(T) /\ \A i \in 1..Len(l) : l[i] \in T
  BY LogLen DEF IsLog
<1> HIDE DEF a, T
<1>3. Len(a) - 1 = Len(l) /\ \A i \in 1..(Len(a) - 1) : a[i] \in T
  BY <1>1, <1>2
<1>4. /\ b \in Seq(T)
      /\ Len(b) = (IF 1 <= Len(a) - 1 THEN (Len(a) - 1) - 1 + 1 ELSE 0)
      /\ \A i \in 1..((Len(a) - 1) - 1 + 1) : b[i] = a[1 + i - 1]
  BY <1>1, <1>3, SubSeqProperties
<1> HIDE DEF b
<1>5. Len(b) = Len(l) /\ \A i \in 1..Len(l) : b[i] = l[i]
  BY <1>1, <1>3, <1>4
<1>6. b = l
  BY <1>2, <1>4, <1>5, SeqEqual
<1> QED
  BY <1>6 DEF a, b

-----------------------------------------------------------------------------
(* What is worked out of the log, after one more photon *)

LEMMA LastIn ==
  ASSUME NEW l, IsLog(l), NEW S \in SUBSET DOMAIN l
  PROVE  /\ Max(S \cup {0}) \in 0..Len(l)
         /\ Max(S \cup {0}) # 0 => Max(S \cup {0}) \in S
         /\ \A i \in S : i <= Max(S \cup {0})
         /\ Max((S \cup {Len(l) + 1}) \cup {0}) = Len(l) + 1
<1>1. Len(l) \in Nat /\ DOMAIN l = 1..Len(l)
  BY LogLen
<1> DEFINE T == S \cup {0}
           U == (S \cup {Len(l) + 1}) \cup {0}
<1>2. T \in SUBSET Nat /\ T # {} /\ \A x \in T : x <= Len(l)
  BY <1>1
<1>3. Max(T) \in T /\ \A x \in T : x <= Max(T)
  BY <1>1, <1>2, Largest
<1>4. U \in SUBSET Nat /\ U # {} /\ (\A x \in U : x <= Len(l) + 1) /\ Len(l) + 1 \in Nat
  BY <1>1
<1>5. Max(U) \in U /\ \A x \in U : x <= Max(U)
  BY <1>4, Largest
<1>6. Max(U) = Len(l) + 1
  <2> DEFINE m == Max(U)
  <2>1. m \in Nat /\ m <= Len(l) + 1 /\ Len(l) + 1 <= m
    BY <1>4, <1>5
  <2> HIDE DEF m
  <2>2. m = Len(l) + 1
    BY <1>1, <2>1
  <2> QED
    BY <2>2 DEF m
<1>7. Max(T) \in 0..Len(l) /\ (Max(T) # 0 => Max(T) \in S) /\ \A i \in S : i <= Max(T)
  <2> DEFINE m == Max(T)
  <2>1. m \in S \cup {0} /\ \A x \in S : x <= m
    BY <1>3
  <2> HIDE DEF m
  <2>2. m \in 0..Len(l) /\ (m # 0 => m \in S) /\ \A x \in S : x <= m
    BY <1>1, <2>1
  <2> QED
    BY <2>2 DEF m
<1> QED
  BY <1>6, <1>7

LEMMA AppendMember ==
  ASSUME NEW l, IsLog(l), NEW p, NEW kinds, NEW i \in Positions(Append(l, p), kinds)
  PROVE  \/ i \in Positions(l, kinds) /\ Append(l, p)[i] = l[i] /\ i \in 1..Len(l)
         \/ i = Len(l) + 1 /\ Append(l, p)[i] = p /\ p.kind \in kinds
<1> DEFINE now == Positions(Append(l, p), kinds)
<1>1. now = Positions(l, kinds) \cup (IF p.kind \in kinds THEN {Len(l) + 1} ELSE {})
  BY AppendPositions
<1>2. /\ Append(l, p)[Len(l) + 1] = p
      /\ \A k \in 1..Len(l) : Append(l, p)[k] = l[k]
      /\ DOMAIN l = 1..Len(l)
  BY AppendIsLog, LogLen
<1>3. i \in now
  OBVIOUS
<1> HIDE DEF now
<1> QED
  BY <1>1, <1>2, <1>3 DEF Positions

LEMMA KeepsMember ==
  ASSUME NEW l, IsLog(l), NEW p, NEW kinds, NEW i \in Positions(l, kinds)
  PROVE  /\ i \in Positions(Append(l, p), kinds) /\ Append(l, p)[i] = l[i]
         /\ i \in 1..Len(l) /\ Len(l) \in Nat
<1>1. /\ \A k \in 1..Len(l) : Append(l, p)[k] = l[k]
      /\ DOMAIN l = 1..Len(l) /\ Len(l) \in Nat
  BY AppendIsLog, LogLen
<1> QED
  BY <1>1, AppendPositions DEF Positions

LEMMA AddsMember ==
  ASSUME NEW l, IsLog(l), NEW p, NEW kinds, p.kind \in kinds
  PROVE  /\ Len(l) + 1 \in Positions(Append(l, p), kinds)
         /\ Append(l, p)[Len(l) + 1] = p /\ Len(l) \in Nat
BY AppendPositions, AppendIsLog, LogLen

LEMMA AppendLatestOf ==
  ASSUME NEW l, IsLog(l), NEW p, NEW kinds, NEW node
  PROVE  /\ LatestOf(Append(l, p), kinds, node) =
              IF p.kind \in kinds /\ p.arg = node THEN Len(l) + 1
                                                  ELSE LatestOf(l, kinds, node)
         /\ LatestOf(l, kinds, node) \in 0..Len(l)
         /\ \A i \in Positions(l, kinds) : l[i].arg = node => i <= LatestOf(l, kinds, node)
         /\ LatestOf(l, kinds, node) # 0 =>
                /\ LatestOf(l, kinds, node) \in Positions(l, kinds)
                /\ l[LatestOf(l, kinds, node)].arg = node
<1> DEFINE a == Append(l, p)
           S == {i \in Positions(l, kinds) : l[i].arg = node}
           now == {i \in Positions(a, kinds) : a[i].arg = node}
           more == p.kind \in kinds /\ p.arg = node
<1>1. now = S \cup (IF more THEN {Len(l) + 1} ELSE {})
  <2>1. \A i \in now : i \in S \/ (i = Len(l) + 1 /\ more)
    BY AppendMember
  <2>2. S \subseteq now
    BY KeepsMember
  <2>3. more => Len(l) + 1 \in now
    BY AddsMember
  <2> HIDE DEF now, S, more
  <2> QED
    BY <2>1, <2>2, <2>3
<1>2. S \in SUBSET DOMAIN l
  BY DEF Positions
<1>3. LatestOf(l, kinds, node) = Max(S \cup {0}) /\ LatestOf(a, kinds, node) = Max(now \cup {0})
  BY DEF LatestOf
<1>4. \A i : i \in S <=> i \in Positions(l, kinds) /\ l[i].arg = node
  OBVIOUS
<1> HIDE DEF now, S, a
<1>5. LatestOf(a, kinds, node) = IF more THEN Len(l) + 1 ELSE LatestOf(l, kinds, node)
  <2>1. CASE more
    BY <1>1, <1>2, <1>3, <2>1, LastIn
  <2>2. CASE ~more
    <3>1. now = S
      BY <1>1, <2>2
    <3> QED
      BY <1>3, <2>2, <3>1
  <2> QED
    BY <2>1, <2>2
<1> QED
  BY <1>2, <1>3, <1>4, <1>5, LastIn DEF a

LEMMA AppendDispatches ==
  ASSUME NEW l, IsLog(l), NEW p, NEW node
  PROVE  /\ DispatchesOf(Append(l, p), node) =
              DispatchesOf(l, node) \cup
                (IF p.kind = "workflow.step-dispatched" /\ p.arg.node = node
                   THEN {Len(l) + 1} ELSE {})
         /\ LastDispatch(Append(l, p), node) =
              IF p.kind = "workflow.step-dispatched" /\ p.arg.node = node
                THEN Len(l) + 1 ELSE LastDispatch(l, node)
         /\ LastDispatch(l, node) \in 0..Len(l)
         /\ LastDispatch(l, node) # 0 => LastDispatch(l, node) \in DispatchesOf(l, node)
         /\ \A d \in DispatchesOf(l, node) : d <= LastDispatch(l, node)
<1> DEFINE a == Append(l, p)
           K == {"workflow.step-dispatched"}
           S == DispatchesOf(l, node)
           now == DispatchesOf(a, node)
           more == p.kind = "workflow.step-dispatched" /\ p.arg.node = node
<1>1. now = S \cup (IF more THEN {Len(l) + 1} ELSE {})
  <2>0. /\ S = {i \in Positions(l, K) : l[i].arg.node = node}
        /\ now = {i \in Positions(a, K) : a[i].arg.node = node}
        /\ p.kind \in K <=> p.kind = "workflow.step-dispatched"
    BY DEF DispatchesOf
  <2>1. \A i \in now : i \in S \/ (i = Len(l) + 1 /\ more)
    BY <2>0, AppendMember
  <2>2. S \subseteq now
    BY <2>0, KeepsMember
  <2>3. more => Len(l) + 1 \in now
    BY <2>0, AddsMember
  <2> HIDE DEF now, S, more
  <2> QED
    BY <2>1, <2>2, <2>3
<1>2. S \in SUBSET DOMAIN l
  BY DEF Positions, DispatchesOf
<1>3. LastDispatch(l, node) = Max(S \cup {0}) /\ LastDispatch(a, node) = Max(now \cup {0})
  BY DEF LastDispatch
<1> HIDE DEF now, S, a
<1>4. LastDispatch(a, node) = IF more THEN Len(l) + 1 ELSE LastDispatch(l, node)
  <2>1. CASE more
    BY <1>1, <1>2, <1>3, <2>1, LastIn
  <2>2. CASE ~more
    <3>1. now = S
      BY <1>1, <2>2
    <3> QED
      BY <1>3, <2>2, <3>1
  <2> QED
    BY <2>1, <2>2
<1>5. /\ LastDispatch(l, node) \in 0..Len(l)
      /\ LastDispatch(l, node) # 0 => LastDispatch(l, node) \in S
      /\ \A d \in S : d <= LastDispatch(l, node)
  BY <1>2, <1>3, LastIn
<1> QED
  BY <1>1, <1>4, <1>5 DEF a, S, now

LEMMA AppendEndOf ==
  ASSUME NEW l, IsLog(l), NEW p, NEW node, NEW compensation
  PROVE  /\ EndOf(Append(l, p), node, compensation) =
              IF EndsDispatch(p) /\ p.act.arg = [node |-> node, compensation |-> compensation]
                THEN Len(l) + 1 ELSE EndOf(l, node, compensation)
         /\ EndOf(l, node, compensation) \in 0..Len(l)
         /\ EndOf(l, node, compensation) # 0 =>
              /\ EndOf(l, node, compensation) \in DispatchEnds(l)
              /\ l[EndOf(l, node, compensation)].act.arg =
                    [node |-> node, compensation |-> compensation]
         /\ \A e \in DispatchEnds(l) :
              l[e].act.arg = [node |-> node, compensation |-> compensation] =>
                  e <= EndOf(l, node, compensation)
<1> DEFINE a == Append(l, p)
           K == {"act.completed", "act.failed"}
           arg == [node |-> node, compensation |-> compensation]
           S == {i \in Positions(l, K) : l[i].act.kind = "dispatch" /\ l[i].act.arg = arg}
           now == {i \in Positions(a, K) : a[i].act.kind = "dispatch" /\ a[i].act.arg = arg}
           more == EndsDispatch(p) /\ p.act.arg = arg
<1>1. now = S \cup (IF more THEN {Len(l) + 1} ELSE {})
  <2>0. more <=> p.kind \in K /\ p.act.kind = "dispatch" /\ p.act.arg = arg
    BY DEF EndsDispatch
  <2> HIDE DEF arg
  <2>1. \A i \in now : i \in S \/ (i = Len(l) + 1 /\ more)
    BY <2>0, AppendMember
  <2>2. S \subseteq now
    BY KeepsMember
  <2>3. more => Len(l) + 1 \in now
    BY <2>0, AddsMember
  <2> HIDE DEF now, S, more
  <2> QED
    BY <2>1, <2>2, <2>3
<1>2. S \in SUBSET DOMAIN l
  BY DEF Positions
<1>3. EndOf(l, node, compensation) = Max(S \cup {0}) /\ EndOf(a, node, compensation) = Max(now \cup {0})
  BY DEF EndOf
<1>4. \A i : i \in S <=> i \in DispatchEnds(l) /\ l[i].act.arg = arg
  BY DEF DispatchEnds
<1> HIDE DEF now, S, a, arg
<1>5. EndOf(a, node, compensation) = IF more THEN Len(l) + 1 ELSE EndOf(l, node, compensation)
  <2>1. CASE more
    BY <1>1, <1>2, <1>3, <2>1, LastIn
  <2>2. CASE ~more
    <3>1. now = S
      BY <1>1, <2>2
    <3> QED
      BY <1>3, <2>2, <3>1
  <2> QED
    BY <2>1, <2>2
<1>6. /\ EndOf(l, node, compensation) \in 0..Len(l)
      /\ EndOf(l, node, compensation) # 0 => EndOf(l, node, compensation) \in S
      /\ \A e \in S : e <= EndOf(l, node, compensation)
  BY <1>2, <1>3, LastIn
<1> QED
  BY <1>4, <1>5, <1>6 DEF a, arg

LEMMA AppendStarts ==
  ASSUME NEW l, IsLog(l), NEW p
  PROVE  DispatchStarts(Append(l, p)) =
           DispatchStarts(l) \cup (IF StartsDispatch(p) THEN {Len(l) + 1} ELSE {})
<1> DEFINE a == Append(l, p)
           now == DispatchStarts(a)
           S == DispatchStarts(l)
<1>1. \A i \in now : i \in S \/ (i = Len(l) + 1 /\ StartsDispatch(p))
  BY AppendMember DEF DispatchStarts, StartsDispatch
<1>2. S \subseteq now
  BY KeepsMember DEF DispatchStarts
<1>3. StartsDispatch(p) => Len(l) + 1 \in now
  BY AddsMember DEF DispatchStarts, StartsDispatch
<1> HIDE DEF now, S
<1>4. now = S \cup (IF StartsDispatch(p) THEN {Len(l) + 1} ELSE {})
  BY <1>1, <1>2, <1>3
<1> QED
  BY <1>4 DEF now, S

LEMMA AppendEnds ==
  ASSUME NEW l, IsLog(l), NEW p
  PROVE  DispatchEnds(Append(l, p)) =
           DispatchEnds(l) \cup (IF EndsDispatch(p) THEN {Len(l) + 1} ELSE {})
<1> DEFINE a == Append(l, p)
           now == DispatchEnds(a)
           S == DispatchEnds(l)
<1>1. \A i \in now : i \in S \/ (i = Len(l) + 1 /\ EndsDispatch(p))
  BY AppendMember DEF DispatchEnds, EndsDispatch
<1>2. S \subseteq now
  BY KeepsMember DEF DispatchEnds
<1>3. EndsDispatch(p) => Len(l) + 1 \in now
  BY AddsMember DEF DispatchEnds, EndsDispatch
<1> HIDE DEF now, S
<1>4. now = S \cup (IF EndsDispatch(p) THEN {Len(l) + 1} ELSE {})
  BY <1>1, <1>2, <1>3
<1> QED
  BY <1>4 DEF now, S

(* A photon of the log keeps its position, its kind and its Act.           *)
LEMMA LogMembers ==
  ASSUME NEW l, IsLog(l), NEW p
  PROVE  /\ \A i \in DispatchStarts(l) \cup DispatchEnds(l) :
                i \in 1..Len(l) /\ Append(l, p)[i] = l[i]
         /\ \A kinds : \A i \in Positions(l, kinds) : i \in 1..Len(l) /\ Append(l, p)[i] = l[i]
         /\ \A node : \A i \in DispatchesOf(l, node) : i \in 1..Len(l) /\ Append(l, p)[i] = l[i]
<1>1. \A kinds : \A i \in Positions(l, kinds) : i \in 1..Len(l) /\ Append(l, p)[i] = l[i]
  BY KeepsMember
<1>2. \A i \in DispatchStarts(l) \cup DispatchEnds(l) :
         i \in Positions(l, {"act.started"}) \/ i \in Positions(l, {"act.completed", "act.failed"})
  BY DEF DispatchStarts, DispatchEnds
<1>3. \A node : \A i \in DispatchesOf(l, node) : i \in Positions(l, {"workflow.step-dispatched"})
  BY DEF DispatchesOf
<1> QED
  BY <1>1, <1>2, <1>3

LEMMA AppendOfDispatch ==
  ASSUME NEW l, IsLog(l), NEW p, NEW d
  PROVE  /\ StartsOfDispatch(Append(l, p), d) =
              StartsOfDispatch(l, d) \cup
                (IF StartsDispatch(p) /\ p.act.of = d THEN {Len(l) + 1} ELSE {})
         /\ EndsOfDispatch(Append(l, p), d) =
              EndsOfDispatch(l, d) \cup
                (IF EndsDispatch(p) /\ p.act.of = d THEN {Len(l) + 1} ELSE {})
<1> DEFINE a == Append(l, p)
           n == Len(l) + 1
           starts == DispatchStarts(a)
           ends == DispatchEnds(a)
<1>1. /\ starts = DispatchStarts(l) \cup (IF StartsDispatch(p) THEN {n} ELSE {})
      /\ ends = DispatchEnds(l) \cup (IF EndsDispatch(p) THEN {n} ELSE {})
  BY AppendStarts, AppendEnds
<1>2. \A i \in DispatchStarts(l) \cup DispatchEnds(l) : a[i] = l[i]
  BY LogMembers
<1>3. a[n] = p
  BY AppendIsLog
<1>4. /\ StartsOfDispatch(a, d) = {i \in starts : a[i].act.of = d}
      /\ EndsOfDispatch(a, d) = {i \in ends : a[i].act.of = d}
      /\ StartsOfDispatch(l, d) = {i \in DispatchStarts(l) : l[i].act.of = d}
      /\ EndsOfDispatch(l, d) = {i \in DispatchEnds(l) : l[i].act.of = d}
  BY DEF StartsOfDispatch, EndsOfDispatch
<1> HIDE DEF a, n, starts, ends
<1>5. StartsOfDispatch(a, d) = StartsOfDispatch(l, d) \cup
                (IF StartsDispatch(p) /\ p.act.of = d THEN {n} ELSE {})
  BY <1>1, <1>2, <1>3, <1>4
<1>6. EndsOfDispatch(a, d) = EndsOfDispatch(l, d) \cup
                (IF EndsDispatch(p) /\ p.act.of = d THEN {n} ELSE {})
  BY <1>1, <1>2, <1>3, <1>4
<1> QED
  BY <1>5, <1>6 DEF a, n
-----------------------------------------------------------------------------
(* A node of the workflow, after one more photon *)

LEMMA MaxOfTwo ==
  ASSUME NEW x \in Nat, NEW y \in Nat
  PROVE  Max({x, y}) = IF x >= y THEN x ELSE y
<1> DEFINE m == IF x >= y THEN x ELSE y
           S == {x, y}
<1>1. m \in Nat /\ S \in SUBSET Nat /\ S # {} /\ \A z \in S : z <= m
  OBVIOUS
<1>2. Max(S) \in S /\ \A z \in S : z <= Max(S)
  BY <1>1, Largest
<1>3. Max(S) = m
  <2> DEFINE k == Max(S)
  <2>1. (k = x \/ k = y) /\ x <= k /\ y <= k
    BY <1>2
  <2> HIDE DEF k
  <2>2. k = m
    BY <2>1
  <2> QED
    BY <2>2 DEF k
<1> QED
  BY <1>3

LEMMA NodeValues ==
  ASSUME NEW l, IsLog(l), NEW node
  PROVE  /\ Len(l) \in Nat
         /\ LastDispatch(l, node) \in 0..Len(l) /\ LastRetry(l, node) \in 0..Len(l)
         /\ \A kinds : LatestOf(l, kinds, node) \in 0..Len(l)
         /\ \A c : EndOf(l, node, c) \in 0..Len(l)
         /\ Cleared(l, node) = IF LastDispatch(l, node) >= LastRetry(l, node)
                                 THEN LastDispatch(l, node) ELSE LastRetry(l, node)
<1>1. Len(l) \in Nat
  BY LogLen
<1>2. LastDispatch(l, node) \in 0..Len(l)
  BY AppendDispatches
<1>3. \A kinds : LatestOf(l, kinds, node) \in 0..Len(l)
  BY AppendLatestOf
<1>4. \A c : EndOf(l, node, c) \in 0..Len(l)
  BY AppendEndOf
<1>5. LastRetry(l, node) \in 0..Len(l)
  BY <1>3 DEF LastRetry
<1>6. LastDispatch(l, node) \in Nat /\ LastRetry(l, node) \in Nat
  BY <1>1, <1>2, <1>5
<1>7. Cleared(l, node) = IF LastDispatch(l, node) >= LastRetry(l, node)
                           THEN LastDispatch(l, node) ELSE LastRetry(l, node)
  BY <1>6, MaxOfTwo DEF Cleared
<1> QED
  BY <1>1, <1>2, <1>3, <1>4, <1>5, <1>7

Dispatched(p, node) == p.kind = "workflow.step-dispatched" /\ p.arg.node = node

\* The photon tells something of the node.
Concerns(p, node) ==
    \/ p.kind \in {"workflow.step-completed", "workflow.step-failed", "workflow.step-skipped",
                   "workflow.step-retry-requested", "workflow.compensation-completed"}
       /\ p.arg = node
    \/ Dispatched(p, node)
    \/ \E c : EndsDispatch(p) /\ p.act.arg = [node |-> node, compensation |-> c]

LEMMA OtherNodes ==
  ASSUME NEW l, IsLog(l), NEW p, NEW node, ~Concerns(p, node)
  PROVE  /\ DispatchesOf(Append(l, p), node) = DispatchesOf(l, node)
         /\ LastDispatch(Append(l, p), node) = LastDispatch(l, node)
         /\ Succeeded(Append(l, p), node) = Succeeded(l, node)
         /\ Skipped(Append(l, p), node) = Skipped(l, node)
         /\ Compensated(Append(l, p), node) = Compensated(l, node)
         /\ Failed(Append(l, p), node) = Failed(l, node)
         /\ Ended(Append(l, p), node) = Ended(l, node)
         /\ \A c : EndOf(Append(l, p), node, c) = EndOf(l, node, c)
         /\ Recorded(Append(l, p), node) = Recorded(l, node)
         /\ InFlight(Append(l, p), node) = InFlight(l, node)
<1> DEFINE a == Append(l, p)
           K == {"workflow.step-completed", "workflow.step-failed", "workflow.step-skipped",
                 "workflow.step-retry-requested", "workflow.compensation-completed"}
<1>1. \A kind \in K : LatestOf(a, {kind}, node) = LatestOf(l, {kind}, node)
  <2> SUFFICES ASSUME NEW kind \in K PROVE LatestOf(a, {kind}, node) = LatestOf(l, {kind}, node)
    OBVIOUS
  <2>1. ~(p.kind \in {kind} /\ p.arg = node)
    BY DEF Concerns
  <2> QED
    BY <2>1, AppendLatestOf
<1>2. DispatchesOf(a, node) = DispatchesOf(l, node) /\ LastDispatch(a, node) = LastDispatch(l, node)
  <2>1. ~(p.kind = "workflow.step-dispatched" /\ p.arg.node = node)
    BY DEF Concerns, Dispatched
  <2> QED
    BY <2>1, AppendDispatches
<1>3. ASSUME NEW c PROVE EndOf(a, node, c) = EndOf(l, node, c)
  <2>1. ~(EndsDispatch(p) /\ p.act.arg = [node |-> node, compensation |-> c])
    BY DEF Concerns
  <2> QED
    BY <2>1, AppendEndOf
<1> HIDE DEF a
<1>4. /\ Succeeded(a, node) = Succeeded(l, node) /\ Skipped(a, node) = Skipped(l, node)
      /\ Compensated(a, node) = Compensated(l, node) /\ LastRetry(a, node) = LastRetry(l, node)
  BY <1>1 DEF Succeeded, Skipped, Compensated, LastRetry
<1>5. Cleared(a, node) = Cleared(l, node)
  BY <1>2, <1>4 DEF Cleared
<1>6. Failed(a, node) = Failed(l, node)
  BY <1>1, <1>5 DEF Failed
<1>7. Ended(a, node) = Ended(l, node)
  <2>1. EndOf(a, node, FALSE) = EndOf(l, node, FALSE)
    BY <1>3, Zenon
  <2> QED
    BY <1>5, <2>1 DEF Ended
<1>8. Recorded(a, node) = Recorded(l, node)
  BY <1>4, <1>6 DEF Recorded
<1>9. InFlight(a, node) = InFlight(l, node)
  BY <1>2, <1>4, <1>8 DEF InFlight
<1> QED
  BY <1>2, <1>3, <1>4, <1>6, <1>7, <1>8, <1>9 DEF a

LEMMA EndAfter ==
  ASSUME NEW l, IsLog(l), NEW p, NEW node, NEW c
  PROVE  ~EndsDispatch(p) => EndOf(Append(l, p), node, c) = EndOf(l, node, c)
<1> DEFINE more == EndsDispatch(p) /\ p.act.arg = [node |-> node, compensation |-> c]
<1>1. EndOf(Append(l, p), node, c) = IF more THEN Len(l) + 1 ELSE EndOf(l, node, c)
  BY AppendEndOf
<1>2. ~EndsDispatch(p) => ~more
  OBVIOUS
<1> HIDE DEF more
<1> QED
  BY <1>1, <1>2

(* Only a dispatch brings a step into flight, only an end gives it something *)
(* to record, and only a failure makes it fail.                            *)
LEMMA NodeAfter ==
  ASSUME NEW l, IsLog(l), NEW p, NEW node
  PROVE  /\ Dispatched(p, node) =>
              ~Failed(Append(l, p), node) /\ Ended(Append(l, p), node) = 0
         /\ ~Dispatched(p, node) /\ InFlight(Append(l, p), node) =>
              InFlight(l, node) /\ LastDispatch(Append(l, p), node) = LastDispatch(l, node)
         /\ ~EndsDispatch(p) /\ Ended(Append(l, p), node) # 0 /\ ~Recorded(Append(l, p), node) =>
              Ended(l, node) # 0 /\ ~Recorded(l, node)
         /\ ~(p.kind = "workflow.step-failed" /\ p.arg = node) /\ Failed(Append(l, p), node) =>
              Failed(l, node)
         /\ Compensated(l, node) => Compensated(Append(l, p), node)
<1> DEFINE a == Append(l, p)
           n == Len(l) + 1
           done == LatestOf(l, {"workflow.step-completed"}, node)
           skipped == LatestOf(l, {"workflow.step-skipped"}, node)
           failed == LatestOf(l, {"workflow.step-failed"}, node)
           undone == LatestOf(l, {"workflow.compensation-completed"}, node)
           end == EndOf(l, node, FALSE)
           done2 == LatestOf(a, {"workflow.step-completed"}, node)
           skipped2 == LatestOf(a, {"workflow.step-skipped"}, node)
           failed2 == LatestOf(a, {"workflow.step-failed"}, node)
           undone2 == LatestOf(a, {"workflow.compensation-completed"}, node)
           end2 == EndOf(a, node, FALSE)
<1>1. /\ Len(l) \in Nat /\ LastDispatch(l, node) \in 0..Len(l) /\ LastRetry(l, node) \in 0..Len(l)
      /\ done \in 0..Len(l) /\ skipped \in 0..Len(l) /\ failed \in 0..Len(l)
      /\ undone \in 0..Len(l) /\ end \in 0..Len(l)
      /\ Cleared(l, node) = IF LastDispatch(l, node) >= LastRetry(l, node)
                              THEN LastDispatch(l, node) ELSE LastRetry(l, node)
  BY NodeValues
<1>2. /\ Cleared(a, node) = IF LastDispatch(a, node) >= LastRetry(a, node)
                              THEN LastDispatch(a, node) ELSE LastRetry(a, node)
      /\ end2 \in 0..n
  <2> HIDE DEF a
  <2>1. IsLog(a) /\ Len(a) = n
    BY AppendIsLog DEF a
  <2> QED
    BY <2>1, NodeValues
<1>3. /\ done2 = IF p.kind = "workflow.step-completed" /\ p.arg = node THEN n ELSE done
      /\ skipped2 = IF p.kind = "workflow.step-skipped" /\ p.arg = node THEN n ELSE skipped
      /\ failed2 = IF p.kind = "workflow.step-failed" /\ p.arg = node THEN n ELSE failed
      /\ undone2 = IF p.kind = "workflow.compensation-completed" /\ p.arg = node THEN n ELSE undone
  BY AppendLatestOf
<1>4. LastRetry(a, node) = IF p.kind = "workflow.step-retry-requested" /\ p.arg = node
                             THEN n ELSE LastRetry(l, node)
  BY AppendLatestOf DEF LastRetry
<1>5. LastDispatch(a, node) = IF Dispatched(p, node) THEN n ELSE LastDispatch(l, node)
  BY AppendDispatches DEF Dispatched
<1>6. \A c : ~EndsDispatch(p) => EndOf(a, node, c) = EndOf(l, node, c)
  BY EndAfter
<1>7. ~EndsDispatch(p) => end2 = end
  BY <1>6, Zenon
<1>8. /\ Succeeded(l, node) <=> done # 0
      /\ Skipped(l, node) <=> skipped # 0
      /\ Failed(l, node) <=> failed > Cleared(l, node)
      /\ Compensated(l, node) <=> undone # 0
      /\ Ended(l, node) = IF end > Cleared(l, node) THEN end ELSE 0
      /\ Succeeded(a, node) <=> done2 # 0
      /\ Skipped(a, node) <=> skipped2 # 0
      /\ Failed(a, node) <=> failed2 > Cleared(a, node)
      /\ Compensated(a, node) <=> undone2 # 0
      /\ Ended(a, node) = IF end2 > Cleared(a, node) THEN end2 ELSE 0
  BY DEF Succeeded, Skipped, Failed, Compensated, Ended
<1>9. n = Len(l) + 1
  OBVIOUS
<1>10. Dispatched(p, node) => p.kind = "workflow.step-dispatched"
  BY DEF Dispatched
<1> HIDE DEF a, n, done, skipped, failed, undone, end, done2, skipped2, failed2, undone2, end2
<1>11. Dispatched(p, node) => Cleared(a, node) = n
  BY <1>1, <1>2, <1>4, <1>5, <1>9, <1>10
<1>12. ~Dispatched(p, node) => Cleared(a, node) \in {n, Cleared(l, node)}
  BY <1>1, <1>2, <1>4, <1>5, <1>9
<1>13. Cleared(a, node) = Cleared(l, node) \/ Cleared(a, node) = n
  BY <1>11, <1>12
<1>14. /\ Cleared(l, node) \in 0..Len(l)
       /\ Cleared(l, node) >= LastDispatch(l, node) /\ Cleared(l, node) >= LastRetry(l, node)
  BY <1>1
<1>15. Dispatched(p, node) => ~Failed(a, node) /\ Ended(a, node) = 0
  <2> SUFFICES ASSUME Dispatched(p, node) PROVE ~Failed(a, node) /\ Ended(a, node) = 0
    OBVIOUS
  <2>1. failed2 = failed /\ Cleared(a, node) = n
    BY <1>3, <1>10, <1>11
  <2> QED
    BY <1>1, <1>2, <1>8, <1>9, <2>1
<1>16. ~Dispatched(p, node) /\ InFlight(a, node) =>
              InFlight(l, node) /\ LastDispatch(a, node) = LastDispatch(l, node)
  <2> SUFFICES ASSUME ~Dispatched(p, node), InFlight(a, node)
               PROVE  InFlight(l, node) /\ LastDispatch(a, node) = LastDispatch(l, node)
    OBVIOUS
  <2>1. /\ LastDispatch(a, node) > LastRetry(a, node)
        /\ done2 = 0 /\ skipped2 = 0 /\ ~(failed2 > Cleared(a, node))
    BY <1>8 DEF InFlight, Recorded
  <2>2. LastDispatch(a, node) = LastDispatch(l, node)
    BY <1>5
  <2>3. LastRetry(a, node) = LastRetry(l, node)
    BY <1>1, <1>4, <1>9, <2>1, <2>2
  <2>4. Cleared(a, node) = Cleared(l, node)
    BY <1>1, <1>2, <2>2, <2>3
  <2>5. done = 0 /\ skipped = 0 /\ ~(failed > Cleared(l, node))
    BY <1>1, <1>3, <1>9, <1>14, <2>1, <2>4
  <2> QED
    BY <1>8, <2>1, <2>2, <2>3, <2>5 DEF InFlight, Recorded
<1>17. ~EndsDispatch(p) /\ Ended(a, node) # 0 /\ ~Recorded(a, node) =>
              Ended(l, node) # 0 /\ ~Recorded(l, node)
  <2> SUFFICES ASSUME ~EndsDispatch(p), Ended(a, node) # 0, ~Recorded(a, node)
               PROVE  Ended(l, node) # 0 /\ ~Recorded(l, node)
    OBVIOUS
  <2>1. end2 = end /\ end > Cleared(a, node) /\ end # 0
    BY <1>7, <1>8
  <2>2. Cleared(a, node) = Cleared(l, node)
    BY <1>1, <1>9, <1>13, <2>1
  <2>3. done2 = 0 /\ skipped2 = 0 /\ ~(failed2 > Cleared(a, node))
    BY <1>8 DEF Recorded
  <2>4. done = 0 /\ skipped = 0 /\ ~(failed > Cleared(l, node))
    BY <1>1, <1>3, <1>9, <1>14, <2>2, <2>3
  <2> QED
    BY <1>8, <2>1, <2>2, <2>4 DEF Recorded
<1>18. ~(p.kind = "workflow.step-failed" /\ p.arg = node) /\ Failed(a, node) => Failed(l, node)
  BY <1>1, <1>3, <1>8, <1>9, <1>13, <1>14
<1>19. Compensated(l, node) => Compensated(a, node)
  BY <1>1, <1>3, <1>8, <1>9
<1> QED
  BY <1>15, <1>16, <1>17, <1>18, <1>19 DEF a
-----------------------------------------------------------------------------
(* The whole workflow, after one more photon *)

LEMMA SameDefinition ==
  ASSUME NEW l, IsLog(l), NEW p, p.kind # "workflow.defined"
  PROVE  /\ Defined(Append(l, p)) = Defined(l)
         /\ Positions(Append(l, p), {"workflow.defined"}) = Positions(l, {"workflow.defined"})
         /\ Defined(l) # 0 => /\ Nodes(Append(l, p)) = Nodes(l)
                              /\ Workflow(Append(l, p)) = Workflow(l)
         /\ OneByOne(Append(l, p)) => OneByOne(l)
         /\ OneByOne(l) => OneByOne(Append(l, p))
<1> DEFINE a == Append(l, p)
           K == {"workflow.defined"}
           now == Positions(a, K)
<1>1. now = Positions(l, K) \cup (IF p.kind \in K THEN {Len(l) + 1} ELSE {})
  BY AppendPositions
<1>2. p.kind \notin K
  OBVIOUS
<1> HIDE DEF now
<1>3. now = Positions(l, K)
  BY <1>1, <1>2
<1>4. Defined(a) = Defined(l)
  BY <1>3 DEF Defined, Latest, now
<1>5. Defined(l) # 0 => Defined(l) \in Positions(l, K)
  BY LatestIsLast DEF Defined
<1>6. \A i \in Positions(l, K) : a[i] = l[i]
  BY KeepsMember
<1> HIDE DEF a
<1>7. Defined(l) # 0 => Nodes(a) = Nodes(l) /\ Workflow(a) = Workflow(l)
  BY <1>4, <1>5, <1>6 DEF Nodes, Workflow
<1>8. Positions(l, K) = {Defined(l)} => Defined(l) # 0
  BY LogLen DEF Positions
<1>9. (OneByOne(a) => OneByOne(l)) /\ (OneByOne(l) => OneByOne(a))
  BY <1>3, <1>4, <1>7, <1>8 DEF OneByOne, now
<1> QED
  BY <1>3, <1>4, <1>7, <1>9 DEF a, now

LEMMA DefinedOnce ==
  ASSUME NEW l, IsLog(l), OneByOne(l)
  PROVE  Defined(l) # 0 /\ Defined(l) \in Positions(l, {"workflow.defined"})
BY LogLen DEF OneByOne, Positions

LEMMA OneDefinitionBefore ==
  ASSUME NEW l, IsLog(l), NEW p, OneByOne(Append(l, p)), p.kind = "workflow.defined"
  PROVE  Defined(l) = 0
<1> DEFINE a == Append(l, p)
           K == {"workflow.defined"}
<1>1. Defined(a) = Len(l) + 1
  BY AppendLatest DEF Defined
<1>2. Positions(l, K) \subseteq Positions(a, K)
  BY KeepsMember
<1> HIDE DEF a
<1>3. Positions(l, K) \subseteq {Len(l) + 1}
  BY <1>1, <1>2 DEF OneByOne, a
<1>4. Defined(l) \in 0..Len(l) /\ (Defined(l) # 0 => Defined(l) \in Positions(l, K))
  BY LatestIsLast DEF Defined
<1> QED
  BY <1>3, <1>4, LogLen

LEMMA SilentConcernsNone ==
  ASSUME NEW p, Silent(p), NEW node
  PROVE  ~Concerns(p, node)
BY DEF Silent, Concerns, Dispatched, StepKinds

LEMMA SameDispatches ==
  ASSUME NEW l, IsLog(l), NEW p, p.kind \notin Dispatches
  PROVE  /\ Positions(Append(l, p), Dispatches) = Positions(l, Dispatches)
         /\ Latest(Append(l, p), Dispatches) = Latest(l, Dispatches)
<1> DEFINE now == Positions(Append(l, p), Dispatches)
<1>1. now = Positions(l, Dispatches) \cup (IF p.kind \in Dispatches THEN {Len(l) + 1} ELSE {})
  BY AppendPositions
<1> HIDE DEF now
<1>2. now = Positions(l, Dispatches)
  BY <1>1
<1> QED
  BY <1>2, AppendLatest DEF now

LEMMA SilentState ==
  ASSUME NEW l, IsLog(l), NEW p, Silent(p)
  PROVE  /\ Flying(Append(l, p)) = Flying(l) /\ Done(Append(l, p)) = Done(l)
         /\ \A d : /\ StartsOfDispatch(Append(l, p), d) = StartsOfDispatch(l, d)
                   /\ EndsOfDispatch(Append(l, p), d) = EndsOfDispatch(l, d)
         /\ DispatchEnds(Append(l, p)) = DispatchEnds(l)
         /\ Positions(Append(l, p), StepResults) = Positions(l, StepResults)
         /\ Defined(l) # 0 => Stopping(Append(l, p)) = Stopping(l)
<1> DEFINE a == Append(l, p)
<1>1. \A node :
         /\ InFlight(a, node) = InFlight(l, node) /\ Failed(a, node) = Failed(l, node)
         /\ Ended(a, node) = Ended(l, node) /\ Recorded(a, node) = Recorded(l, node)
         /\ DispatchesOf(a, node) = DispatchesOf(l, node)
         /\ Compensated(a, node) = Compensated(l, node)
  BY SilentConcernsNone, OtherNodes
<1>2. Flying(a) = Flying(l) /\ Done(a) = Done(l)
  <2> HIDE DEF a
  <2> QED
    BY <1>1 DEF Flying, Done
<1>3. ~StartsDispatch(p) /\ ~EndsDispatch(p) /\ p.kind \notin StepResults /\ p.kind # "workflow.defined"
  BY DEF Silent, StepKinds, StepResults
<1>4. ASSUME NEW d
      PROVE  StartsOfDispatch(a, d) = StartsOfDispatch(l, d) /\ EndsOfDispatch(a, d) = EndsOfDispatch(l, d)
  <2> DEFINE starts == StartsOfDispatch(a, d)
             ends == EndsOfDispatch(a, d)
  <2>1. /\ starts = StartsOfDispatch(l, d) \cup
                (IF StartsDispatch(p) /\ p.act.of = d THEN {Len(l) + 1} ELSE {})
        /\ ends = EndsOfDispatch(l, d) \cup
                (IF EndsDispatch(p) /\ p.act.of = d THEN {Len(l) + 1} ELSE {})
    BY AppendOfDispatch
  <2> HIDE DEF starts, ends
  <2>2. starts = StartsOfDispatch(l, d) /\ ends = EndsOfDispatch(l, d)
    BY <1>3, <2>1
  <2> QED
    BY <2>2 DEF starts, ends
<1>5. DispatchEnds(a) = DispatchEnds(l)
  <2> DEFINE ends == DispatchEnds(a)
  <2>1. ends = DispatchEnds(l) \cup (IF EndsDispatch(p) THEN {Len(l) + 1} ELSE {})
    BY AppendEnds
  <2> HIDE DEF ends
  <2>2. ends = DispatchEnds(l)
    BY <1>3, <2>1
  <2> QED
    BY <2>2 DEF ends
<1>6. Positions(a, StepResults) = Positions(l, StepResults)
  <2> DEFINE now == Positions(a, StepResults)
  <2>1. now = Positions(l, StepResults) \cup (IF p.kind \in StepResults THEN {Len(l) + 1} ELSE {})
    BY AppendPositions
  <2> HIDE DEF now
  <2>2. now = Positions(l, StepResults)
    BY <1>3, <2>1
  <2> QED
    BY <2>2 DEF now
<1>7. Defined(l) # 0 => Stopping(a) = Stopping(l)
  <2> SUFFICES ASSUME Defined(l) # 0 PROVE Stopping(a) = Stopping(l)
    OBVIOUS
  <2>1. Nodes(a) = Nodes(l)
    BY <1>3, SameDefinition
  <2> HIDE DEF a
  <2>2. \A node : UsedUp(a, node) = UsedUp(l, node)
    BY <1>1, <2>1 DEF UsedUp, Attempts
  <2> QED
    BY <1>1, <2>1, <2>2 DEF Stopping
<1> QED
  BY <1>2, <1>4, <1>5, <1>6, <1>7

LEMMA DispatchStays ==
  ASSUME NEW l, IsLog(l), NEW p, NEW act, IsDispatch(l, act)
  PROVE  IsDispatch(Append(l, p), act)
<1>1. /\ act.of \in Positions(Append(l, p), Dispatches)
      /\ Append(l, p)[act.of] = l[act.of]
  BY KeepsMember DEF IsDispatch
<1> QED
  BY <1>1 DEF IsDispatch
-----------------------------------------------------------------------------
(* The invariant of the log *)

LEMMA StartsKept ==
  ASSUME NEW l, LogInv(l), NEW p, May(l, p)
  PROVE  StartsAreDue(Append(l, p))
<1> DEFINE a == Append(l, p)
           starts == DispatchStarts(a)
<1>1. IsLog(l) /\ StartsAreDue(l)
  BY DEF LogInv
<1>2. starts = DispatchStarts(l) \cup (IF StartsDispatch(p) THEN {Len(l) + 1} ELSE {})
  BY <1>1, AppendStarts
<1>3. \A i \in DispatchStarts(l) : a[i] = l[i]
  BY <1>1, LogMembers
<1>4. a[Len(l) + 1] = p
  BY <1>1, AppendIsLog
<1>5. \A act : IsDispatch(l, act) => IsDispatch(a, act)
  BY <1>1, DispatchStays
<1>6. StartsDispatch(p) => IsDispatch(l, p.act)
  BY DEF May, Due
<1> HIDE DEF a, starts
<1>7. \A i \in starts : IsDispatch(a, a[i].act)
  <2> SUFFICES ASSUME NEW i \in starts PROVE IsDispatch(a, a[i].act)
    OBVIOUS
  <2>1. CASE i \in DispatchStarts(l)
    <3>1. IsDispatch(l, l[i].act)
      BY <1>1, <2>1 DEF StartsAreDue
    <3> QED
      BY <1>3, <1>5, <2>1, <3>1
  <2>2. CASE i = Len(l) + 1 /\ StartsDispatch(p)
    BY <1>4, <1>5, <1>6, <2>2
  <2> QED
    BY <1>2, <2>1, <2>2
<1> QED
  BY <1>7 DEF StartsAreDue, starts, a

LEMMA EndsKept ==
  ASSUME NEW l, LogInv(l), NEW p, May(l, p)
  PROVE  EndsAreOfTheLast(Append(l, p)) /\ ActsEndOnce(Append(l, p))
<1> DEFINE a == Append(l, p)
           n == Len(l) + 1
           ends == DispatchEnds(a)
<1>1. IsLog(l) /\ EndsAreOfTheLast(l) /\ ActsEndOnce(l) /\ Len(l) \in Nat
  BY LogLen DEF LogInv
<1>2. ends = DispatchEnds(l) \cup (IF EndsDispatch(p) THEN {n} ELSE {})
  BY <1>1, AppendEnds
<1>3. \A i \in DispatchEnds(l) : i \in 1..Len(l) /\ a[i] = l[i]
  BY <1>1, LogMembers
<1>4. a[n] = p
  BY <1>1, AppendIsLog
<1>5. \A act : IsDispatch(l, act) => IsDispatch(a, act)
  BY <1>1, DispatchStays
<1>6. \A d : StartsOfDispatch(l, d) \subseteq StartsOfDispatch(a, d)
  BY <1>1, AppendOfDispatch
<1>7. \A d \in Positions(a, Dispatches) : d \in Positions(l, Dispatches) \/ d = n
  BY <1>1, AppendMember
<1>8. /\ \A d \in Positions(l, Dispatches) : d \in 1..Len(l) /\ d <= Latest(l, Dispatches)
      /\ Latest(l, Dispatches) \in 0..Len(l)
  BY <1>1, LogMembers, LatestIsLast
<1>9. EndsDispatch(p) => Running(l, p.act)
  BY DEF May
<1>10. EndsDispatch(p) => p.kind \notin Dispatches
  BY DEF EndsDispatch, Dispatches
<1>11. p.kind \notin Dispatches => Positions(a, Dispatches) = Positions(l, Dispatches)
  BY <1>1, SameDispatches
<1> HIDE DEF a, ends
<1>12. \A e \in ends :
          /\ IsDispatch(a, a[e].act) /\ a[e].act.of < e
          /\ StartsOfDispatch(a, a[e].act.of) # {}
          /\ \A d \in Positions(a, Dispatches) : d < e => d <= a[e].act.of
  <2> SUFFICES ASSUME NEW e \in ends
               PROVE  /\ IsDispatch(a, a[e].act) /\ a[e].act.of < e
                      /\ StartsOfDispatch(a, a[e].act.of) # {}
                      /\ \A d \in Positions(a, Dispatches) : d < e => d <= a[e].act.of
    OBVIOUS
  <2>1. CASE e \in DispatchEnds(l)
    <3>1. a[e] = l[e] /\ e \in 1..Len(l)
      BY <1>3, <2>1
    <3>2. /\ IsDispatch(l, l[e].act) /\ l[e].act.of < e
          /\ StartsOfDispatch(l, l[e].act.of) # {}
          /\ \A d \in Positions(l, Dispatches) : d < e => d <= l[e].act.of
      BY <1>1, <2>1 DEF EndsAreOfTheLast
    <3>3. \A d \in Positions(a, Dispatches) : d < e => d \in Positions(l, Dispatches)
      BY <1>1, <1>7, <3>1
    <3> QED
      BY <1>5, <1>6, <3>1, <3>2, <3>3
  <2>2. CASE e = n /\ EndsDispatch(p)
    <3>1. /\ IsDispatch(l, p.act) /\ p.act.of = Latest(l, Dispatches)
          /\ StartsOfDispatch(l, p.act.of) # {}
      BY <1>9, <2>2 DEF Running
    <3>2. a[e] = p /\ Positions(a, Dispatches) = Positions(l, Dispatches)
      BY <1>4, <1>10, <1>11, <2>2
    <3>3. p.act.of < e
      BY <1>1, <1>8, <2>2, <3>1
    <3> QED
      BY <1>5, <1>6, <1>8, <3>1, <3>2, <3>3
  <2> QED
    BY <1>2, <2>1, <2>2
<1>13. \A e, f \in ends : a[e].act.of = a[f].act.of => e = f
  <2>1. EndsDispatch(p) => \A e \in DispatchEnds(l) : l[e].act.of # p.act.of
    BY <1>9 DEF Running, EndsOfDispatch
  <2>2. \A e, f \in DispatchEnds(l) : l[e].act.of = l[f].act.of => e = f
    BY <1>1 DEF ActsEndOnce
  <2> QED
    BY <1>2, <1>3, <1>4, <2>1, <2>2
<1> QED
  BY <1>12, <1>13 DEF EndsAreOfTheLast, ActsEndOnce, a, ends

LEMMA FailuresKept ==
  ASSUME NEW l, LogInv(l), NEW p, May(l, p)
  PROVE  FailuresAreEnds(Append(l, p))
<1> DEFINE a == Append(l, p)
           n == Len(l) + 1
           K == {"workflow.step-failed"}
<1>1. IsLog(l) /\ FailuresAreEnds(l) /\ Len(l) \in Nat
  BY LogLen DEF LogInv
<1>2. \A f \in Positions(a, K) :
         \/ f \in Positions(l, K) /\ a[f] = l[f] /\ f \in 1..Len(l)
         \/ f = n /\ a[f] = p /\ p.kind \in K
  BY <1>1, AppendMember
<1>3. \A e \in DispatchEnds(l) : e \in 1..Len(l) /\ a[e] = l[e]
  BY <1>1, LogMembers
<1>4. DispatchEnds(l) \subseteq DispatchEnds(a)
  BY <1>1, AppendEnds
<1>5. \A node : \A d \in DispatchesOf(a, node) :
         d \in DispatchesOf(l, node) \/ (d = n /\ p.kind = "workflow.step-dispatched")
  BY <1>1, AppendDispatches
<1> HIDE DEF a
<1> SUFFICES ASSUME NEW f \in Positions(a, K)
             PROVE  \E e \in DispatchEnds(a) : IsAttemptsEnd(a, a[f].arg, e, f)
  BY DEF FailuresAreEnds, a
<1>6. CASE f \in Positions(l, K) /\ a[f] = l[f] /\ f \in 1..Len(l)
  <2>1. PICK e \in DispatchEnds(l) : IsAttemptsEnd(l, l[f].arg, e, f)
    BY <1>1, <1>6 DEF FailuresAreEnds
  <2>2. e < f /\ l[e].act.arg = [node |-> l[f].arg, compensation |-> FALSE]
    BY <2>1 DEF IsAttemptsEnd
  <2>3. \A d \in DispatchesOf(a, l[f].arg) : d < f => d \in DispatchesOf(l, l[f].arg)
    BY <1>1, <1>5, <1>6
  <2>4. \A d \in DispatchesOf(a, l[f].arg) : d < f => d <= l[e].act.of
    BY <2>1, <2>3 DEF IsAttemptsEnd
  <2>5. IsAttemptsEnd(a, a[f].arg, e, f)
    BY <1>3, <1>6, <2>2, <2>4 DEF IsAttemptsEnd
  <2> QED
    BY <1>4, <2>5
<1>7. CASE f = n /\ a[f] = p /\ p.kind \in K
  <2>1. Recordable(l, p)
    BY <1>7 DEF May, IsJoin, StepResults
  <2>2. PICK e \in DispatchEnds(l) :
            /\ l[e].act.of = LastDispatch(l, p.arg)
            /\ l[e].act.arg = [node |-> p.arg, compensation |-> FALSE]
    BY <2>1 DEF Recordable
  <2>3. \A d \in DispatchesOf(a, p.arg) : d \in DispatchesOf(l, p.arg)
    BY <1>5, <1>7
  <2>4. \A d \in DispatchesOf(l, p.arg) : d <= LastDispatch(l, p.arg)
    BY <1>1, AppendDispatches
  <2>5. e < f
    BY <1>1, <1>3, <1>7
  <2>6. IsAttemptsEnd(a, a[f].arg, e, f)
    BY <1>3, <1>7, <2>2, <2>3, <2>4, <2>5 DEF IsAttemptsEnd
  <2> QED
    BY <1>4, <2>6
<1> QED
  BY <1>2, <1>6, <1>7

LEMMA TypesKept ==
  ASSUME NEW l, LogInv(l), NEW p, May(l, p)
  PROVE  DefinitionsFirst(Append(l, p)) /\ IsTyped(Append(l, p))
<1> DEFINE a == Append(l, p)
           n == Len(l) + 1
<1>1. IsLog(l) /\ DefinitionsFirst(l) /\ IsTyped(l) /\ Len(l) \in Nat
  BY LogLen DEF LogInv
<1>2. \A kinds : \A i \in Positions(a, kinds) :
         \/ i \in Positions(l, kinds) /\ a[i] = l[i] /\ i \in 1..Len(l)
         \/ i = n /\ a[i] = p /\ p.kind \in kinds
  BY <1>1, AppendMember
<1>3. Defined(a) = IF p.kind = "workflow.defined" THEN n ELSE Defined(l)
  BY <1>1, AppendLatest DEF Defined
<1> HIDE DEF a
<1>4. \A i \in Positions(a, {"workflow.defined"}) : a[i].arg \in DOMAIN Workflows
  BY <1>1, <1>2 DEF DefinitionsFirst, May
<1>5. ASSUME Defined(a) = 0, NEW i \in Positions(a, Dispatches) PROVE FALSE
  <2>1. Defined(l) = 0
    BY <1>1, <1>3, <1>5
  <2>2. p.kind \in Dispatches
    BY <1>1, <1>2, <1>5, <2>1 DEF DefinitionsFirst
  <2> QED
    BY <2>1, <2>2 DEF May, Dispatches
<1>6. IsTyped(a)
  BY <1>1, <1>2 DEF IsTyped, May
<1> QED
  BY <1>4, <1>5, <1>6 DEF DefinitionsFirst, a

(* Only a failure asks for the workflow to stop.                           *)
LEMMA StoppingAfter ==
  ASSUME NEW l, IsLog(l), NEW p, p.kind # "workflow.defined", Defined(l) # 0,
         NEW node \in Stopping(Append(l, p)),
         ~(p.kind = "workflow.step-failed" /\ p.arg = node)
  PROVE  node \in Stopping(l)
<1> DEFINE a == Append(l, p)
<1>1. Nodes(a) = Nodes(l)
  BY SameDefinition
<1>2. /\ node \in DOMAIN Nodes(a) /\ Failed(a, node) /\ UsedUp(a, node)
      /\ \/ Nodes(a)[node].policy = "stop"
         \/ Nodes(a)[node].policy = "compensate" /\ ~Compensated(a, node)
  BY DEF Stopping
<1>3. ~Dispatched(p, node) /\ Failed(l, node) /\ (Compensated(l, node) => Compensated(a, node))
  BY <1>2, NodeAfter
<1>4. DispatchesOf(a, node) = DispatchesOf(l, node)
  <2> DEFINE now == DispatchesOf(a, node)
  <2>1. now = DispatchesOf(l, node) \cup (IF Dispatched(p, node) THEN {Len(l) + 1} ELSE {})
    BY AppendDispatches DEF Dispatched
  <2> HIDE DEF now
  <2>2. now = DispatchesOf(l, node)
    BY <1>3, <2>1
  <2> QED
    BY <2>2 DEF now
<1> HIDE DEF a
<1>5. UsedUp(l, node)
  BY <1>1, <1>2, <1>4 DEF UsedUp, Attempts
<1> QED
  BY <1>1, <1>2, <1>3, <1>5 DEF Stopping

LEMMA InFlightIsDispatched ==
  ASSUME NEW l, IsLog(l), NEW node, InFlight(l, node)
  PROVE  /\ LastDispatch(l, node) # 0
         /\ LastDispatch(l, node) \in DispatchesOf(l, node)
         /\ LastDispatch(l, node) \in Positions(l, Dispatches)
         /\ l[LastDispatch(l, node)].kind = "workflow.step-dispatched"
<1>1. LastDispatch(l, node) # 0
  BY NodeValues DEF InFlight
<1>2. LastDispatch(l, node) \in DispatchesOf(l, node)
  BY <1>1, AppendDispatches
<1> QED
  BY <1>1, <1>2 DEF DispatchesOf, Positions, Dispatches

LEMMA CoveredKept ==
  ASSUME NEW l, LogInv(l), NEW p, May(l, p)
  PROVE  NothingIsCovered(Append(l, p))
<1> DEFINE a == Append(l, p)
           n == Len(l) + 1
           d == Latest(l, Dispatches)
<1> SUFFICES ASSUME OneByOne(a)
             PROVE  /\ Waiting(a) => Done(a) = {} /\ Stopping(a) = {}
                    /\ \A node \in Flying(a) :
                          LastDispatch(a, node) # Latest(a, Dispatches) =>
                              StartsOfDispatch(a, LastDispatch(a, node)) # {}
  BY DEF NothingIsCovered
<1>1. IsLog(l) /\ Len(l) \in Nat /\ DefinitionsFirst(l) /\ NothingIsCovered(l) /\ IsLog(a)
  BY LogLen, AppendIsLog DEF LogInv
<1>2. Latest(a, Dispatches) = IF p.kind \in Dispatches THEN n ELSE d
  BY <1>1, AppendLatest
<1>3. d \in 0..Len(l) /\ (d # 0 => d \in Positions(l, Dispatches) /\ a[d] = l[d])
  BY <1>1, LatestIsLast, LogMembers
<1>4. a[n] = p
  BY <1>1, AppendIsLog
<1>5. \A e : StartsOfDispatch(l, e) \subseteq StartsOfDispatch(a, e)
  BY <1>1, AppendOfDispatch
<1>6. \A node : /\ ~Dispatched(p, node) /\ InFlight(a, node) =>
                      InFlight(l, node) /\ LastDispatch(a, node) = LastDispatch(l, node)
                /\ ~EndsDispatch(p) /\ Ended(a, node) # 0 /\ ~Recorded(a, node) =>
                      Ended(l, node) # 0 /\ ~Recorded(l, node)
                /\ Dispatched(p, node) => LastDispatch(a, node) = n
  BY <1>1, NodeAfter, AppendDispatches DEF Dispatched
<1>7. \A node : InFlight(a, node) => LastDispatch(a, node) \in Positions(a, Dispatches)
  BY <1>1, InFlightIsDispatched
<1>8. \A node : InFlight(l, node) => /\ LastDispatch(l, node) # 0
                                     /\ l[LastDispatch(l, node)].kind = "workflow.step-dispatched"
  BY <1>1, InFlightIsDispatched
<1>9. p.kind # "workflow.defined" =>
         /\ OneByOne(l) /\ Defined(l) # 0
         /\ \A node \in Stopping(a) :
               ~(p.kind = "workflow.step-failed" /\ p.arg = node) => node \in Stopping(l)
  BY <1>1, SameDefinition, DefinedOnce, StoppingAfter
<1>10. p.kind \notin Dispatches => Positions(a, Dispatches) = Positions(l, Dispatches)
  BY <1>1, SameDispatches
<1>11. p.kind = "workflow.defined" => Defined(l) = 0
  BY <1>1, OneDefinitionBefore
<1> HIDE DEF a, n, d
<1>12. CASE p.kind = "workflow.defined"
  <2>1. p.kind \notin Dispatches /\ Positions(l, Dispatches) = {}
    BY <1>1, <1>11, <1>12 DEF DefinitionsFirst, Dispatches
  <2>2. Latest(a, Dispatches) = 0 /\ Positions(a, Dispatches) = {}
    BY <1>2, <1>3, <1>10, <2>1
  <2>3. ~Waiting(a)
    BY <2>2 DEF Waiting
  <2>4. Flying(a) = {}
    BY <1>7, <2>2 DEF Flying
  <2> QED
    BY <2>3, <2>4
<1>13. CASE p.kind = "workflow.step-dispatched"
  <2>1. Flying(l) = {} /\ Done(l) = {} /\ Stopping(l) = {}
    BY <1>9, <1>13 DEF May
  <2>2. ~EndsDispatch(p)
    BY <1>13 DEF EndsDispatch
  <2>3. Done(a) = {}
    BY <1>6, <2>1, <2>2 DEF Done
  <2>4. Stopping(a) = {}
    BY <1>9, <1>13, <2>1
  <2>5. \A node \in Flying(a) : Dispatched(p, node)
    BY <1>6, <2>1 DEF Flying
  <2>6. Latest(a, Dispatches) = n
    BY <1>2, <1>13 DEF Dispatches
  <2> QED
    BY <1>6, <2>3, <2>4, <2>5, <2>6
<1>14. CASE p.kind = "workflow.compensation-dispatched"
  <2>1. Latest(a, Dispatches) = n
    BY <1>2, <1>14 DEF Dispatches
  <2>2. ~Waiting(a)
    BY <1>4, <1>14, <2>1 DEF Waiting
  <2>3. OneByOne(l) /\ Stopping(l) # {}
    BY <1>9, <1>14 DEF May
  <2>4. ~Waiting(l)
    BY <1>1, <2>3 DEF NothingIsCovered
  <2>5. ASSUME NEW node \in Flying(a)
        PROVE  StartsOfDispatch(a, LastDispatch(a, node)) # {}
    <3>1. ~Dispatched(p, node)
      BY <1>14 DEF Dispatched
    <3>2. InFlight(l, node) /\ LastDispatch(a, node) = LastDispatch(l, node) /\ node \in Flying(l)
      BY <1>6, <2>5, <3>1 DEF Flying
    <3>3. StartsOfDispatch(l, LastDispatch(l, node)) # {}
      <4>1. CASE LastDispatch(l, node) = d
        BY <1>8, <2>4, <3>2, <4>1 DEF Waiting, d
      <4>2. CASE LastDispatch(l, node) # d
        BY <1>1, <2>3, <3>2, <4>2 DEF NothingIsCovered, d
      <4> QED
        BY <4>1, <4>2
    <3> QED
      BY <1>5, <3>2, <3>3
  <2> QED
    BY <2>2, <2>5
<1>15. CASE p.kind \notin Dispatches /\ p.kind # "workflow.defined"
  <2>1. Latest(a, Dispatches) = d /\ OneByOne(l)
    BY <1>2, <1>9, <1>15
  <2>2. ASSUME Waiting(a) PROVE Done(a) = {} /\ Stopping(a) = {}
    <3>1. Waiting(l)
      BY <1>3, <1>5, <2>1, <2>2 DEF Waiting, d
    <3>2. Done(l) = {} /\ Stopping(l) = {}
      BY <1>1, <2>1, <3>1 DEF NothingIsCovered
    <3>3. ~EndsDispatch(p)
      BY <3>1 DEF May, Running, Waiting
    <3>4. Done(a) = {}
      BY <1>6, <3>2, <3>3 DEF Done
    <3>5. p.kind # "workflow.step-failed"
      BY <3>2 DEF May, Recordable, IsJoin, StepResults
    <3>6. Stopping(a) = {}
      BY <1>9, <1>15, <3>2, <3>5
    <3> QED
      BY <3>4, <3>6
  <2>3. ASSUME NEW node \in Flying(a), LastDispatch(a, node) # Latest(a, Dispatches)
        PROVE  StartsOfDispatch(a, LastDispatch(a, node)) # {}
    <3>1. ~Dispatched(p, node)
      BY <1>15 DEF Dispatched, Dispatches
    <3>2. node \in Flying(l) /\ LastDispatch(a, node) = LastDispatch(l, node)
      BY <1>6, <2>3, <3>1 DEF Flying
    <3>3. StartsOfDispatch(l, LastDispatch(l, node)) # {}
      BY <1>1, <2>1, <2>3, <3>2 DEF NothingIsCovered, d
    <3> QED
      BY <1>5, <3>2, <3>3
  <2> QED
    BY <2>2, <2>3
<1> QED
  BY <1>12, <1>13, <1>14, <1>15 DEF Dispatches

LEMMA LogKept ==
  ASSUME NEW l, LogInv(l), NEW p, May(l, p)
  PROVE  LogInv(Append(l, p))
<1>1. IsLog(Append(l, p))
  BY AppendIsLog DEF LogInv
<1>2. /\ StartsAreDue(Append(l, p)) /\ EndsAreOfTheLast(Append(l, p))
      /\ ActsEndOnce(Append(l, p)) /\ FailuresAreEnds(Append(l, p))
      /\ DefinitionsFirst(Append(l, p)) /\ IsTyped(Append(l, p))
      /\ NothingIsCovered(Append(l, p))
  BY StartsKept, EndsKept, FailuresKept, TypesKept, CoveredKept
<1> QED
  BY <1>1, <1>2 DEF LogInv
-----------------------------------------------------------------------------
(* What Clotho proposes *)

LEMMA LeastOf ==
  ASSUME NEW S \in SUBSET Nat, S # {}
  PROVE  Min(S) \in S /\ \A k \in S : Min(S) <= k
<1>1. \E m \in S : \A k \in S : m <= k
  BY Least
<1> QED
  BY <1>1 DEF Min

(* The Act of a step answers a dispatch of that step.                      *)
LEMMA EndOfStep ==
  ASSUME NEW l, LogInv(l), NEW node, NEW e \in DispatchEnds(l),
         l[e].act.arg = [node |-> node, compensation |-> FALSE]
  PROVE  l[e].act.of \in DispatchesOf(l, node)
<1> DEFINE d == l[e].act.of
<1>1. /\ d \in Positions(l, Dispatches)
      /\ l[e].act.arg = [node |-> l[d].arg.node,
                         compensation |-> l[d].kind = "workflow.compensation-dispatched"]
  BY DEF LogInv, EndsAreOfTheLast, IsDispatch
<1>3. l[d].arg.node = node /\ ~(l[d].kind = "workflow.compensation-dispatched")
  <2> DEFINE isCompensation == l[d].kind = "workflow.compensation-dispatched"
             asked == l[d].arg.node
  <2>1. l[e].act.arg = [node |-> asked, compensation |-> isCompensation]
    BY <1>1
  <2> HIDE DEF isCompensation, asked, d
  <2>2. \A n, c, m, b : [node |-> n, compensation |-> c] = [node |-> m, compensation |-> b] =>
            n = m /\ c = b
    <3> SUFFICES ASSUME NEW n, NEW c, NEW m, NEW b,
                        [node |-> n, compensation |-> c] = [node |-> m, compensation |-> b]
                 PROVE  n = m /\ c = b
      OBVIOUS
    <3>1. [node |-> n, compensation |-> c].node = n /\ [node |-> n, compensation |-> c].compensation = c
      OBVIOUS
    <3>2. [node |-> m, compensation |-> b].node = m /\ [node |-> m, compensation |-> b].compensation = b
      OBVIOUS
    <3> QED
      BY <3>1, <3>2
  <2>3. asked = node /\ ~isCompensation
    BY <2>1, <2>2, Zenon
  <2> QED
    BY <2>3 DEF asked, isCompensation
<1> HIDE DEF d
<1>4. l[d].kind = "workflow.step-dispatched" /\ d \in DOMAIN l
  BY <1>1, <1>3 DEF Positions, Dispatches
<1>5. d \in DispatchesOf(l, node)
  BY <1>3, <1>4 DEF DispatchesOf, Positions
<1> QED
  BY <1>5 DEF d

(* What a step has to be recorded is the end of its last attempt, which is *)
(* not recorded yet.                                                       *)
LEMMA RecordMay ==
  ASSUME NEW l, LogInv(l), NEW node \in Done(l)
  PROVE  Recordable(l, Said(IF l[Ended(l, node)].kind = "act.completed"
                              THEN "workflow.step-completed" ELSE "workflow.step-failed", node))
<1> DEFINE e == Ended(l, node)
           d == LastDispatch(l, node)
           kind == IF l[e].kind = "act.completed"
                     THEN "workflow.step-completed" ELSE "workflow.step-failed"
           arg == [node |-> node, compensation |-> FALSE]
           p == Said(kind, node)
<1>1. /\ IsLog(l) /\ EndsAreOfTheLast(l) /\ ActsEndOnce(l) /\ FailuresAreEnds(l)
      /\ Len(l) \in Nat
  BY LogLen DEF LogInv
<1>2. e # 0 /\ ~Recorded(l, node)
  BY DEF Done
<1>3. e = EndOf(l, node, FALSE) /\ e > Cleared(l, node)
  BY <1>2 DEF Ended
<1>4. EndOf(l, node, FALSE) # 0 =>
          /\ EndOf(l, node, FALSE) \in DispatchEnds(l)
          /\ l[EndOf(l, node, FALSE)].act.arg = arg
  <2> HIDE DEF e, d, kind, p
  <2>1. \A c : EndOf(l, node, c) # 0 =>
            /\ EndOf(l, node, c) \in DispatchEnds(l)
            /\ l[EndOf(l, node, c)].act.arg = [node |-> node, compensation |-> c]
    BY <1>1, AppendEndOf
  <2> QED
    BY <2>1, Zenon
<1>5. e \in DispatchEnds(l) /\ l[e].act.arg = arg
  BY <1>2, <1>3, <1>4
<1>6. /\ d \in 0..Len(l) /\ Cleared(l, node) \in Nat /\ d <= Cleared(l, node)
      /\ \A i \in DispatchesOf(l, node) : i <= d
      /\ d # 0 => d \in DispatchesOf(l, node)
  <2>1. /\ d \in 0..Len(l) /\ LastRetry(l, node) \in 0..Len(l)
        /\ Cleared(l, node) = IF d >= LastRetry(l, node) THEN d ELSE LastRetry(l, node)
    BY <1>1, NodeValues
  <2>2. /\ \A i \in DispatchesOf(l, node) : i <= d
        /\ d # 0 => d \in DispatchesOf(l, node)
    BY <1>1, AppendDispatches
  <2> HIDE DEF d
  <2> QED
    BY <1>1, <2>1, <2>2
<1>7. \A f \in DispatchEnds(l) : l[f].act.arg = arg => l[f].act.of \in DispatchesOf(l, node)
  BY EndOfStep
<1>8. /\ \A i \in DispatchEnds(l) : i \in 1..Len(l)
      /\ \A i \in DispatchesOf(l, node) : i \in 1..Len(l)
  BY <1>1, LogMembers
<1> HIDE DEF e, d, arg
<1>14. e \in Nat /\ \A k \in Nat : k <= Cleared(l, node) => k < e
  <2>1. e \in 1..Len(l)
    BY <1>5, <1>8
  <2>2. e > Cleared(l, node)
    BY <1>3, Zenon
  <2> QED
    BY <1>1, <1>6, <2>1, <2>2
<1>9. l[e].act.of = d /\ d # 0
  <2>1. l[e].act.of \in DispatchesOf(l, node)
    BY <1>5, <1>7
  <2>2. l[e].act.of <= d /\ l[e].act.of \in 1..Len(l)
    BY <1>6, <1>8, <2>1
  <2>3. d # 0 /\ d \in DispatchesOf(l, node)
    BY <1>1, <1>6, <2>2
  <2>4. d \in Positions(l, Dispatches)
    BY <2>3 DEF DispatchesOf, Positions, Dispatches
  <2>5. d < e
    BY <1>1, <1>6, <1>14
  <2>6. d <= l[e].act.of
    BY <1>1, <1>5, <2>4, <2>5 DEF EndsAreOfTheLast
  <2> QED
    BY <1>1, <1>6, <2>2, <2>3, <2>6
<1>10. ASSUME NEW i \in Positions(l, StepResults), l[i].arg = node
       PROVE  i < d
  <2>1. i \in 1..Len(l)
    BY <1>1, LogMembers
  <2>2. l[i].kind # "workflow.step-completed"
    <3> SUFFICES ASSUME l[i].kind = "workflow.step-completed" PROVE FALSE
      OBVIOUS
    <3>1. i \in Positions(l, {"workflow.step-completed"})
      BY DEF Positions
    <3>2. /\ i <= LatestOf(l, {"workflow.step-completed"}, node)
          /\ LatestOf(l, {"workflow.step-completed"}, node) \in 0..Len(l)
      BY <1>1, <1>10, <3>1, AppendLatestOf
    <3>3. LatestOf(l, {"workflow.step-completed"}, node) # 0
      BY <1>1, <2>1, <3>2
    <3> QED
      BY <1>2, <3>3 DEF Recorded, Succeeded
  <2>3. i \in Positions(l, {"workflow.step-failed"})
    BY <2>2 DEF Positions, StepResults
  <2>4. /\ i <= LatestOf(l, {"workflow.step-failed"}, node)
        /\ LatestOf(l, {"workflow.step-failed"}, node) \in 0..Len(l)
    BY <1>1, <1>10, <2>3, AppendLatestOf
  <2>5. ~(LatestOf(l, {"workflow.step-failed"}, node) > Cleared(l, node))
    BY <1>2 DEF Recorded, Failed
  <2>6. i < e
    <3> DEFINE failed == LatestOf(l, {"workflow.step-failed"}, node)
    <3>1. i <= failed /\ failed \in 0..Len(l) /\ ~(failed > Cleared(l, node))
      BY <2>4, <2>5
    <3> HIDE DEF failed
    <3>2. i \in Nat /\ i <= Cleared(l, node)
      BY <1>1, <1>6, <2>1, <3>1
    <3> QED
      BY <1>14, <3>2
  <2>7. PICK f \in DispatchEnds(l) : IsAttemptsEnd(l, node, f, i)
    BY <1>1, <1>10, <2>3 DEF FailuresAreEnds
  <2>8. /\ f < i /\ l[f].act.arg = arg
        /\ \A j \in DispatchesOf(l, node) : j < i => j <= l[f].act.of
    BY <2>7 DEF IsAttemptsEnd, arg
  <2>9. l[f].act.of <= d /\ l[f].act.of \in 1..Len(l)
    BY <1>6, <1>7, <1>8, <2>8
  <2>10. l[f].act.of # d
    <3> SUFFICES ASSUME l[f].act.of = d PROVE FALSE
      OBVIOUS
    <3>1. f = e
      BY <1>1, <1>5, <1>9 DEF ActsEndOnce
    <3> QED
      BY <1>1, <1>8, <2>1, <2>6, <2>8, <3>1
  <2>11. ~(d < i)
    BY <1>1, <1>6, <1>9, <2>8, <2>9, <2>10
  <2>12. i # d
    BY <1>6, <1>9, <2>3 DEF DispatchesOf, Positions
  <2> QED
    BY <1>1, <1>6, <2>1, <2>11, <2>12
<1>11. p.kind = kind /\ p.arg = node
  BY DEF Said, Photon
<1>12. l[e].kind = IF p.kind = "workflow.step-completed" THEN "act.completed" ELSE "act.failed"
  BY <1>5, <1>11 DEF DispatchEnds, Positions
<1> HIDE DEF p, kind
<1>13. Recordable(l, p)
  <2>1. \A i \in Positions(l, StepResults) : l[i].arg = p.arg => i < LastDispatch(l, p.arg)
    BY <1>10, <1>11 DEF d
  <2> QED
    BY <1>5, <1>9, <1>11, <1>12, <2>1 DEF Recordable, d, arg
<1> QED
  BY <1>13 DEF p, kind, e

LEMMA NodesAreOurs ==
  ASSUME NEW l, LogInv(l), Defined(l) # 0
  PROVE  /\ DOMAIN Nodes(l) \subseteq AllNodes
         /\ \A n \in DOMAIN Nodes(l) :
               Nodes(l)[n].group = "none" \/ Workflow(l).groups[Nodes(l)[n].group] \in Nat \ {0}
         /\ AllNodes \in SUBSET Nat /\ IsFiniteSet(AllNodes)
<1>1. Defined(l) \in Positions(l, {"workflow.defined"})
  BY LatestIsLast DEF LogInv, Defined
<1>2. l[Defined(l)].arg \in DOMAIN Workflows
  BY <1>1 DEF LogInv, DefinitionsFirst
<1> DEFINE w == l[Defined(l)].arg
<1>3. Nodes(l) = Expanded[w] /\ Workflow(l) = Workflows[w] /\ w \in DOMAIN Workflows
  BY <1>2 DEF Nodes, Workflow
<1> HIDE DEF w
<1>4. DOMAIN Nodes(l) \subseteq AllNodes
  BY <1>3 DEF AllNodes
<1> QED
  BY <1>3, <1>4, WorkflowsAssumption

\* The parts of what Clotho offers.
ReadyNodes(l) == {n \in DOMAIN Nodes(l) : Ready(l, n)}
PeersOf(l, set, n) ==
    {m \in set \cap DOMAIN Nodes(l) : Nodes(l)[m].group = Nodes(l)[n].group}
Smaller(set, n) == {m \in set : m < n}
Eligible(l) ==
    {n \in ReadyNodes(l) :
        Nodes(l)[n].group # "none" =>
            Cardinality(PeersOf(l, Flying(l), n))
              + Cardinality(Smaller(PeersOf(l, ReadyNodes(l), n), n))
                < Workflow(l).groups[Nodes(l)[n].group]}

LEMMA OfferedIs ==
  ASSUME NEW l
  PROVE  Offered(l) = {n \in Eligible(l) :
            Cardinality(Flying(l)) + Cardinality(Smaller(Eligible(l), n)) < Workflow(l).parallel}
BY DEF Offered, Eligible, ReadyNodes, PeersOf, Smaller, Flying

(* A workflow whose steps go one by one offers one when nothing flies.     *)
LEMMA OfferedRoom ==
  ASSUME NEW l, LogInv(l), OneByOne(l), NEW n \in Offered(l)
  PROVE  Flying(l) = {}
<1>1. /\ DOMAIN Nodes(l) \subseteq AllNodes /\ IsFiniteSet(AllNodes)
  BY DefinedOnce, NodesAreOurs DEF LogInv
<1>2. Workflow(l).parallel = 1
  BY DEF OneByOne
<1>3. Eligible(l) \subseteq AllNodes /\ Flying(l) \subseteq AllNodes
  BY <1>1 DEF Eligible, ReadyNodes, Flying
<1>4. Smaller(Eligible(l), n) \subseteq AllNodes
  BY <1>3 DEF Smaller
<1>5. IsFiniteSet(Flying(l)) /\ IsFiniteSet(Smaller(Eligible(l), n))
  BY <1>1, <1>3, <1>4, FS_Subset
<1> DEFINE x == Cardinality(Flying(l))
           y == Cardinality(Smaller(Eligible(l), n))
<1>6. x \in Nat /\ y \in Nat
  BY <1>5, FS_CardinalityType
<1>7. x + y < 1
  BY <1>2, OfferedIs
<1> HIDE DEF x, y
<1>8. x = 0
  BY <1>6, <1>7
<1> QED
  BY <1>5, <1>8, FS_EmptySet DEF x

LEMMA NoneSmaller ==
  ASSUME NEW S \in SUBSET Nat, S # {}
  PROVE  Min(S) \in S /\ Cardinality(Smaller(S, Min(S))) = 0
<1>1. Min(S) \in S /\ \A k \in S : Min(S) <= k
  BY LeastOf
<1> DEFINE m == Min(S)
<1>2. m \in Nat /\ m \in S /\ \A k \in S : k \in Nat /\ m <= k
  BY <1>1
<1> HIDE DEF m
<1>3. Smaller(S, m) = {}
  <2>1. \A k \in S : ~(k < m)
    BY <1>2
  <2> QED
    BY <2>1 DEF Smaller
<1> QED
  BY <1>2, <1>3, FS_EmptySet DEF m

(* When nothing flies and nothing is offered, nothing is ready.            *)
LEMMA NothingIsReady ==
  ASSUME NEW l, LogInv(l), OneByOne(l), Flying(l) = {}, Offered(l) = {}
  PROVE  ReadyNodes(l) = {}
<1>1. /\ DOMAIN Nodes(l) \subseteq AllNodes /\ AllNodes \in SUBSET Nat
      /\ \A n \in DOMAIN Nodes(l) :
            Nodes(l)[n].group = "none" \/ Workflow(l).groups[Nodes(l)[n].group] \in Nat \ {0}
  BY DefinedOnce, NodesAreOurs DEF LogInv
<1>2. Workflow(l).parallel = 1
  BY DEF OneByOne
<1>3. ReadyNodes(l) \in SUBSET Nat /\ ReadyNodes(l) \subseteq DOMAIN Nodes(l)
  BY <1>1 DEF ReadyNodes
<1>4. Cardinality({}) = 0
  BY FS_EmptySet
<1> SUFFICES ASSUME ReadyNodes(l) # {} PROVE FALSE
  OBVIOUS
<1> DEFINE m == Min(ReadyNodes(l))
<1>5. m \in ReadyNodes(l) /\ \A k \in ReadyNodes(l) : m <= k
  BY <1>3, LeastOf
<1> HIDE DEF m
<1>6. Smaller(PeersOf(l, ReadyNodes(l), m), m) = {}
  <2>1. m \in Nat /\ \A k \in ReadyNodes(l) : k \in Nat /\ m <= k
    BY <1>3, <1>5
  <2> QED
    BY <2>1 DEF Smaller, PeersOf
<1>7. PeersOf(l, Flying(l), m) = {}
  BY DEF PeersOf
<1>8. m \in Eligible(l)
  BY <1>1, <1>3, <1>4, <1>5, <1>6, <1>7 DEF Eligible
<1>9. Eligible(l) \in SUBSET Nat /\ Eligible(l) # {}
  BY <1>3, <1>8 DEF Eligible
<1> DEFINE k == Min(Eligible(l))
<1>10. k \in Eligible(l) /\ Cardinality(Smaller(Eligible(l), k)) = 0
  BY <1>9, NoneSmaller
<1> HIDE DEF k
<1>11. k \in Offered(l)
  <2>1. Cardinality(Flying(l)) + Cardinality(Smaller(Eligible(l), k)) < Workflow(l).parallel
    BY <1>2, <1>4, <1>10
  <2> QED
    BY <1>10, <2>1, OfferedIs
<1> QED
  BY <1>11

\* The steps that have been undone, which is to be recorded.
Undone(l) == {n \in AllNodes : EndOf(l, n, TRUE) # 0 /\ ~Compensated(l, n)}

Recording(kind, l, n, end) ==
    Step(kind, l, [node |-> n, end |-> end, ok |-> l[end].kind = "act.completed"])

(* The cases of Clotho's view.                                             *)
LEMMA ClothoCases ==
  ASSUME NEW l, NEW act \in ClothoView(l)
  PROVE  /\ ~Halted(l)
         /\ \/ /\ Done(l) # {}
               /\ act = Recording("workflow.record-step", l, Min(Done(l)), Ended(l, Min(Done(l))))
            \/ act = Recording("workflow.record-compensation", l, Min(Undone(l)),
                               EndOf(l, Min(Undone(l)), TRUE))
            \/ /\ Stopping(l) # {}
               /\ act = Step("workflow.compensate", l, [node |-> Min(Stopping(l))])
            \/ /\ Done(l) = {} /\ Stopping(l) = {}
               /\ \E n \in Offered(l) :
                     act = Step("workflow.step", l, [node |-> n, attempt |-> Attempts(l, n) + 1,
                                                     skip |-> ~Condition(l, n)])
<1> USE DEF Recording
<1>1. CASE Halted(l)
  BY <1>1 DEF ClothoView
<1>2. CASE ~Halted(l) /\ Done(l) # {}
  BY <1>2 DEF ClothoView, Done
<1>3. CASE ~Halted(l) /\ Done(l) = {} /\ Undone(l) # {}
  BY <1>3 DEF ClothoView, Done, Undone
<1>4. CASE ~Halted(l) /\ Done(l) = {} /\ Undone(l) = {} /\ Stopping(l) # {}
  BY <1>4 DEF ClothoView, Done, Undone
<1>5. CASE ~Halted(l) /\ Done(l) = {} /\ Undone(l) = {} /\ Stopping(l) = {}
  BY <1>5 DEF ClothoView, Done, Undone
<1> QED
  BY <1>1, <1>2, <1>3, <1>4, <1>5

LEMMA ClothoIsDone ==
  ASSUME NEW l, ClothoView(l) = {}, ~Halted(l)
  PROVE  Done(l) = {} /\ (Stopping(l) = {} => Offered(l) = {})
<1>1. Done(l) = {}
  <2> SUFFICES ASSUME Done(l) # {} PROVE FALSE
    OBVIOUS
  <2> QED
    BY DEF ClothoView, Done
<1>2. Undone(l) = {}
  <2> SUFFICES ASSUME Undone(l) # {} PROVE FALSE
    OBVIOUS
  <2> QED
    BY <1>1 DEF ClothoView, Done, Undone
<1>3. ASSUME Stopping(l) = {}, NEW n \in Offered(l) PROVE FALSE
  <2>1. Step("workflow.step", l, [node |-> n, attempt |-> Attempts(l, n) + 1,
                                  skip |-> ~Condition(l, n)]) \in ClothoView(l)
    BY <1>1, <1>2, <1>3 DEF ClothoView, Done, Undone
  <2> QED
    BY <2>1
<1> QED
  BY <1>1, <1>3

LEMMA SaidIs == ASSUME NEW kind, NEW arg PROVE Said(kind, arg).kind = kind /\ Said(kind, arg).arg = arg
BY DEF Said, Photon

(* What may be said without a condition.                                   *)
LEMMA FreeToSay ==
  ASSUME NEW l, NEW p,
         p.kind \in {"workflow.step-skipped", "workflow.step-retry-requested",
                     "workflow.compensation-completed", "workflow.compensation-failed",
                     "workflow.paused", "workflow.resumed", "workflow.cancelled"}
  PROVE  ToSay(l, p)
BY DEF ToSay, May, ClothoPhotons, StepKinds, StartsDispatch, EndsDispatch, StepResults, ChildEnds

LEMMA ClothoMay ==
  ASSUME NEW l, LogInv(l), NEW act \in ClothoView(l)
  PROVE  /\ act.kind \in ClothoActs /\ ToSay(l, ClothoEmits(l, act))
         /\ Defined(l) # 0
<1>1. ~Halted(l) /\ Defined(l) # 0
  BY ClothoCases DEF Halted
<1>2. AllNodes \in SUBSET Nat
  BY <1>1, NodesAreOurs
<1> USE DEF Step, Act
<1>3. CASE /\ Done(l) # {}
           /\ act = Recording("workflow.record-step", l, Min(Done(l)), Ended(l, Min(Done(l))))
  <2> DEFINE n == Min(Done(l))
             kind == IF l[Ended(l, n)].kind = "act.completed"
                       THEN "workflow.step-completed" ELSE "workflow.step-failed"
             p == Said(kind, n)
  <2>1. n \in Done(l)
    BY <1>2, <1>3, LeastOf DEF Done
  <2>2. Recordable(l, p)
    BY <2>1, RecordMay
  <2> HIDE DEF n
  <2>3. act.kind = "workflow.record-step" /\ ClothoEmits(l, act) = p
    BY <1>3 DEF Recording, ClothoEmits, n
  <2>4. p.kind \in StepResults
    BY SaidIs DEF StepResults
  <2> HIDE DEF p
  <2>5. ToSay(l, p)
    BY <2>2, <2>4 DEF ToSay, May, ClothoPhotons, StepKinds, StartsDispatch, EndsDispatch,
                      StepResults, ChildEnds
  <2> QED
    BY <1>1, <2>3, <2>5 DEF ClothoActs
<1>4. CASE act = Recording("workflow.record-compensation", l, Min(Undone(l)),
                           EndOf(l, Min(Undone(l)), TRUE))
  <2> DEFINE p == ClothoEmits(l, act)
  <2>1. act.kind = "workflow.record-compensation"
    BY <1>4 DEF Recording
  <2>2. p.kind \in {"workflow.compensation-completed", "workflow.compensation-failed"}
    BY <2>1, SaidIs DEF ClothoEmits
  <2> HIDE DEF p
  <2>3. ToSay(l, p)
    BY <2>2, FreeToSay
  <2> QED
    BY <1>1, <2>1, <2>3 DEF ClothoActs, p
<1>5. CASE /\ Stopping(l) # {}
           /\ act = Step("workflow.compensate", l, [node |-> Min(Stopping(l))])
  <2> DEFINE p == ClothoEmits(l, act)
  <2>1. act.kind = "workflow.compensate"
    BY <1>5
  <2>2. p.kind = "workflow.compensation-dispatched"
    BY <2>1, SaidIs DEF ClothoEmits
  <2> HIDE DEF p
  <2>3. ToSay(l, p)
    BY <1>1, <1>5, <2>2 DEF ToSay, May, ClothoPhotons, StepKinds, StartsDispatch, EndsDispatch,
                            StepResults, ChildEnds
  <2> QED
    BY <1>1, <2>1, <2>3 DEF ClothoActs, p
<1>6. ASSUME Done(l) = {}, Stopping(l) = {}, NEW n \in Offered(l),
             act = Step("workflow.step", l, [node |-> n, attempt |-> Attempts(l, n) + 1,
                                             skip |-> ~Condition(l, n)])
      PROVE  act.kind \in ClothoActs /\ ToSay(l, ClothoEmits(l, act))
  <2> DEFINE p == ClothoEmits(l, act)
  <2>1. act.kind = "workflow.step" /\ act.arg.node = n
    BY <1>6
  <2>2. p = IF act.arg.skip THEN Said("workflow.step-skipped", n)
            ELSE IF Nodes(l)[n].does = "join" THEN Said("workflow.step-completed", n)
            ELSE Said("workflow.step-dispatched",
                      [node |-> n, concrete |-> Nodes(l)[n].concrete])
    BY <2>1 DEF ClothoEmits
  <2> HIDE DEF p
  <2>3. CASE act.arg.skip
    <3>1. p.kind = "workflow.step-skipped"
      BY <2>2, <2>3, SaidIs
    <3> QED
      BY <2>1, <3>1, FreeToSay DEF ClothoActs, p
  <2>4. CASE ~act.arg.skip /\ Nodes(l)[n].does = "join"
    <3>1. p.kind = "workflow.step-completed" /\ p.arg = n
      BY <2>2, <2>4, SaidIs
    <3>2. IsJoin(l, p)
      BY <1>1, <2>4, <3>1 DEF IsJoin
    <3>3. ToSay(l, p)
      BY <3>1, <3>2 DEF ToSay, May, ClothoPhotons, StepKinds, StartsDispatch, EndsDispatch,
                        StepResults, ChildEnds
    <3> QED
      BY <2>1, <3>3 DEF ClothoActs, p
  <2>5. CASE ~act.arg.skip /\ Nodes(l)[n].does # "join"
    <3>1. p.kind = "workflow.step-dispatched"
      BY <2>2, <2>5, SaidIs
    <3>2. OneByOne(l) => Flying(l) = {}
      BY <1>6, OfferedRoom
    <3>3. ToSay(l, p)
      BY <1>1, <1>6, <3>1, <3>2 DEF ToSay, May, ClothoPhotons, StepKinds, StartsDispatch,
                                    EndsDispatch, StepResults, ChildEnds
    <3> QED
      BY <2>1, <3>3 DEF ClothoActs, p
  <2> QED
    BY <2>3, <2>4, <2>5
<1> QED
  BY <1>1, <1>3, <1>4, <1>5, <1>6, ClothoCases
-----------------------------------------------------------------------------
(* What the view proposes *)

LEMMA JanusCases ==
  ASSUME NEW l
  PROVE  \/ JanusView(l) = NoAct
         \/ JanusView(l).kind = "ray.terminate"
         \/ JanusView(l).kind = "model.call" /\ Latest(l, {"user.input"}) # 0
<1> DEFINE state == JanusState(l)
<1>1. CASE state \in {"budget_exhausted", "oscillation_stopped"}
  BY <1>1 DEF JanusView, Act
<1>2. CASE state = "need_model"
  <2>1. Latest(l, {"user.input"}) # 0
    BY <1>2 DEF JanusState
  <2>2. JanusView(l).kind = "model.call"
    BY <1>2 DEF JanusView, Act
  <2> QED
    BY <2>1, <2>2
<1>3. CASE state \notin {"budget_exhausted", "oscillation_stopped", "need_model"}
  BY <1>3 DEF JanusView
<1> QED
  BY <1>1, <1>2, <1>3

LEMMA TechorCases ==
  ASSUME NEW l, LogInv(l)
  PROVE  /\ TechorView(l) # NoAct =>
              TechorView(l).kind = "tool" \/ Due(l, TechorView(l))
         /\ /\ TechorView(l) = NoAct /\ Latest(l, Dispatches) # 0
            /\ l[Latest(l, Dispatches)].arg.concrete
            => StartsOfDispatch(l, Latest(l, Dispatches)) # {}
<1> DEFINE d == Latest(l, Dispatches)
           act == Act("dispatch", d, [node |-> l[d].arg.node,
                      compensation |-> l[d].kind = "workflow.compensation-dispatched"])
<1>1. Latest(l, {"code.frame"}) = 0
  BY LatestIsLast DEF LogInv, IsTyped
<1>2. NextInstruction(l) = 0
  BY <1>1 DEF NextInstruction
<1>3. TechorView(l) = IF WaitingDispatch(l) # 0 THEN DispatchProposal(l) ELSE CallProposal(l)
  BY <1>2 DEF TechorView
<1>4. StartsOfDispatch(l, d) = {i \in Positions(l, {"act.started"}) :
                                   l[i].act.kind = "dispatch" /\ l[i].act.of = d}
  BY DEF StartsOfDispatch, DispatchStarts
<1>5. /\ WaitingDispatch(l) = IF StartsOfDispatch(l, d) = {} THEN d ELSE 0
      /\ WaitingDispatch(l) = d => DispatchProposal(l) =
            IF d # 0 /\ l[d].arg.concrete THEN act ELSE NoAct
  BY <1>4 DEF WaitingDispatch, DispatchProposal
<1>6. CallProposal(l) = NoAct \/ CallProposal(l).kind = "tool"
  BY DEF CallProposal, Act
<1>7. d # 0 => d \in Positions(l, Dispatches)
  BY LatestIsLast DEF LogInv
<1>8. act.kind = "dispatch" /\ act # NoAct /\ act.of = d
      /\ act.arg = [node |-> l[d].arg.node,
                    compensation |-> l[d].kind = "workflow.compensation-dispatched"]
  BY DEF Act, NoAct
<1> HIDE DEF act, d
<1>9. d # 0 /\ l[d].arg.concrete /\ StartsOfDispatch(l, d) = {} => Due(l, act)
  BY <1>7, <1>8 DEF Due, IsDispatch, d
<1> QED
  BY <1>3, <1>5, <1>6, <1>8, <1>9 DEF d

(* Nobody proposes anything: the workflow is settled.                      *)
LEMMA NothingToDoIsSettled ==
  ASSUME NEW l, LogInv(l), ClothoView(l) = {}, TechorView(l) = NoAct
  PROVE  Settled(l)
<1> SUFFICES ASSUME ~Halted(l), OneByOne(l), Stopping(l) = {}
             PROVE  /\ \A n \in Flying(l) :
                           /\ l[LastDispatch(l, n)].arg.concrete <=>
                                 \E i \in StartsOfDispatch(l, LastDispatch(l, n)) :
                                    l[i].act.arg = [node |-> n, compensation |-> FALSE]
                           /\ EndsOfDispatch(l, LastDispatch(l, n)) = {}
                    /\ Flying(l) = {} => \A n \in DOMAIN Nodes(l) :
                           \/ Recorded(l, n)
                           \/ \E d \in Nodes(l)[n].needs :
                                 ~Succeeded(l, d) /\ ~Skipped(l, d) /\ ~PassedOver(l, d)
  BY DEF Settled
<1>1. /\ IsLog(l) /\ StartsAreDue(l) /\ EndsAreOfTheLast(l) /\ NothingIsCovered(l)
      /\ Len(l) \in Nat
  BY LogLen DEF LogInv
<1>2. Done(l) = {} /\ Offered(l) = {}
  BY ClothoIsDone
<1>3. ASSUME NEW n \in Flying(l)
      PROVE  /\ l[LastDispatch(l, n)].arg.concrete <=>
                    \E i \in StartsOfDispatch(l, LastDispatch(l, n)) :
                        l[i].act.arg = [node |-> n, compensation |-> FALSE]
             /\ EndsOfDispatch(l, LastDispatch(l, n)) = {}
  <2> DEFINE d == LastDispatch(l, n)
             arg == [node |-> n, compensation |-> FALSE]
  <2>1. InFlight(l, n) /\ n \in AllNodes
    BY <1>3 DEF Flying
  <2>2. /\ d # 0 /\ d \in DispatchesOf(l, n) /\ l[d].kind = "workflow.step-dispatched"
    BY <1>1, <2>1, InFlightIsDispatched
  <2>3. l[d].arg.node = n
    BY <2>2 DEF DispatchesOf
  <2>4. \A a : IsDispatch(l, a) /\ a.of = d => a.arg = arg
    <3> SUFFICES ASSUME NEW a, IsDispatch(l, a), a.of = d PROVE a.arg = arg
      OBVIOUS
    <3>1. a.arg = [node |-> l[d].arg.node,
                   compensation |-> l[d].kind = "workflow.compensation-dispatched"]
      BY DEF IsDispatch
    <3>2. (l[d].kind = "workflow.compensation-dispatched") = FALSE
      BY <2>2
    <3> QED
      BY <2>3, <3>1, <3>2
  <2>5. l[d].arg.concrete => StartsOfDispatch(l, d) # {}
    <3>1. CASE d = Latest(l, Dispatches)
      BY <2>2, <3>1, TechorCases
    <3>2. CASE d # Latest(l, Dispatches)
      BY <1>1, <1>3, <3>2 DEF NothingIsCovered
    <3> QED
      BY <3>1, <3>2
  <2>6. \A i \in StartsOfDispatch(l, d) : IsDispatch(l, l[i].act) /\ l[i].act.of = d
    BY <1>1 DEF StartsOfDispatch, StartsAreDue
  <2>7. \A i \in StartsOfDispatch(l, d) : l[i].act.arg = arg /\ l[d].arg.concrete
    BY <2>4, <2>6 DEF IsDispatch
  <2>8. l[d].arg.concrete <=> \E i \in StartsOfDispatch(l, d) : l[i].act.arg = arg
    BY <2>5, <2>7
  <2>9. ASSUME NEW e \in EndsOfDispatch(l, d) PROVE FALSE
    <3>1. e \in DispatchEnds(l) /\ l[e].act.of = d
      BY <2>9 DEF EndsOfDispatch
    <3>2. IsDispatch(l, l[e].act) /\ d < e
      BY <1>1, <3>1 DEF EndsAreOfTheLast
    <3>3. l[e].act.arg = arg
      BY <2>4, <3>1, <3>2
    <3> DEFINE end == EndOf(l, n, FALSE)
    <3>4. \A c : \A f \in DispatchEnds(l) :
              l[f].act.arg = [node |-> n, compensation |-> c] => f <= EndOf(l, n, c)
      BY <1>1, AppendEndOf
    <3>5. e <= end
      BY <3>1, <3>3, <3>4, Zenon
    <3>6. end \in 0..Len(l)
      BY <1>1, NodeValues
    <3>7. /\ LastRetry(l, n) \in 0..Len(l) /\ d \in 0..Len(l)
          /\ Cleared(l, n) = IF d >= LastRetry(l, n) THEN d ELSE LastRetry(l, n)
      BY <1>1, NodeValues
    <3>8. d > LastRetry(l, n) /\ ~Recorded(l, n)
      BY <2>1 DEF InFlight
    <3>9. e \in 1..Len(l)
      BY <1>1, <3>1, LogMembers
    <3>10. Ended(l, n) = IF end > Cleared(l, n) THEN end ELSE 0
      BY DEF Ended
    <3> HIDE DEF end, d
    <3>11. Ended(l, n) # 0
      BY <1>1, <3>2, <3>5, <3>6, <3>7, <3>8, <3>9, <3>10
    <3> QED
      BY <1>2, <2>1, <3>8, <3>11 DEF Done
  <2> QED
    BY <2>8, <2>9
<1>4. ASSUME Flying(l) = {}, NEW n \in DOMAIN Nodes(l), ~Recorded(l, n)
      PROVE  \E d \in Nodes(l)[n].needs :
                ~Succeeded(l, d) /\ ~Skipped(l, d) /\ ~PassedOver(l, d)
  <2>1. ReadyNodes(l) = {}
    BY <1>2, <1>4, NothingIsReady
  <2>2. n \in AllNodes
    BY DefinedOnce, NodesAreOurs DEF LogInv
  <2>3. ~InFlight(l, n)
    BY <1>4, <2>2 DEF Flying
  <2>4. ~Succeeded(l, n) /\ ~Skipped(l, n) /\ ~Failed(l, n)
    BY <1>4 DEF Recorded
  <2>5. ~Ready(l, n)
    BY <1>4, <2>1 DEF ReadyNodes
  <2> QED
    BY <2>3, <2>4, <2>5 DEF Ready
<1> QED
  BY <1>3, <1>4

LEMMA PlainMay == ASSUME NEW l, NEW p, Plain(p) PROVE May(l, p)
BY DEF Plain, Silent, May, StepKinds, StepResults

(* The view proposes what is due, and nothing only when all is settled.    *)
LEMMA ViewMay ==
  ASSUME LogInv(log), NEW act \in Proposals
  PROVE  /\ act # NoAct => May(log, Photon("act.started", act, 0))
         /\ act = NoAct => Settled(log)
         /\ act.kind = "dispatch" => Due(log, act)
         /\ act.kind \in ClothoActs => ToSay(log, ClothoEmits(log, act)) /\ Defined(log) # 0
         /\ act.kind = "model.call" => Latest(log, {"user.input"}) # 0
<1> DEFINE p == Photon("act.started", act, 0)
<1>1. p.kind = "act.started" /\ p.act = act
  BY DEF Photon
<1> HIDE DEF p
<1>2. ASSUME act.kind # "dispatch" PROVE May(log, p)
  BY <1>1, <1>2 DEF May, StartsDispatch, EndsDispatch, StepResults, ChildEnds
<1>3. ASSUME Due(log, act) PROVE May(log, p)
  BY <1>1, <1>3 DEF May, StartsDispatch, EndsDispatch, StepResults, ChildEnds
<1>4. NoAct.kind = "none"
  BY DEF NoAct, Act
<1>5. CASE JanusView(log) # NoAct
  <2>1. act = JanusView(log)
    BY <1>5 DEF Proposals
  <2>2. act.kind = "ray.terminate" \/ (act.kind = "model.call" /\ Latest(log, {"user.input"}) # 0)
    BY <1>5, <2>1, JanusCases
  <2> QED
    BY <1>2, <1>5, <2>1, <2>2 DEF ClothoActs, p
<1>6. CASE JanusView(log) = NoAct /\ ClothoView(log) # {}
  <2>1. act \in ClothoView(log)
    BY <1>6 DEF Proposals
  <2>2. act.kind \in ClothoActs /\ ToSay(log, ClothoEmits(log, act)) /\ Defined(log) # 0
    BY <2>1, ClothoMay
  <2>3. act.kind # "dispatch" /\ act.kind # "model.call" /\ act.kind # "none"
    BY <2>2 DEF ClothoActs
  <2> QED
    BY <1>2, <1>4, <2>2, <2>3 DEF p
<1>7. CASE JanusView(log) = NoAct /\ ClothoView(log) = {}
  <2>1. act = TechorView(log)
    BY <1>7 DEF Proposals
  <2>2. CASE act = NoAct
    BY <1>4, <1>7, <2>1, <2>2, NothingToDoIsSettled DEF ClothoActs
  <2>3. CASE act # NoAct
    <3>1. act.kind = "tool" \/ Due(log, act)
      BY <2>1, <2>3, TechorCases
    <3>2. Due(log, act) => act.kind = "dispatch"
      BY DEF Due, IsDispatch
    <3> QED
      BY <1>2, <1>3, <2>3, <3>1, <3>2 DEF ClothoActs, p
  <2> QED
    BY <2>2, <2>3
<1> QED
  BY <1>5, <1>6, <1>7
-----------------------------------------------------------------------------
(* What stays due while nothing happens to the workflow *)

LEMMA RunningStays ==
  ASSUME NEW l, IsLog(l), NEW p, p.kind \notin Dispatches, ~EndsDispatch(p),
         NEW act, Running(l, act)
  PROVE  Running(Append(l, p), act)
<1> DEFINE a == Append(l, p)
           ends == EndsOfDispatch(a, act.of)
<1>1. IsDispatch(a, act) /\ act.of = Latest(a, Dispatches)
  BY DispatchStays, SameDispatches DEF Running
<1>2. StartsOfDispatch(a, act.of) # {}
  BY AppendOfDispatch DEF Running
<1>3. ends = EndsOfDispatch(l, act.of) \cup
                (IF EndsDispatch(p) /\ p.act.of = act.of THEN {Len(l) + 1} ELSE {})
  BY AppendOfDispatch
<1> HIDE DEF ends
<1>4. ends = {}
  BY <1>3 DEF Running
<1> QED
  BY <1>1, <1>2, <1>4 DEF Running, ends

LEMMA ToSayStays ==
  ASSUME NEW l, LogInv(l), NEW p, Silent(p), NEW q, ToSay(l, q)
  PROVE  ToSay(Append(l, p), q)
<1> DEFINE a == Append(l, p)
<1>1. IsLog(l) /\ p.kind # "workflow.defined" /\ p.kind \notin StepKinds
  BY DEF LogInv, Silent, StepKinds
<1>2. q.kind \in ClothoPhotons /\ May(l, q)
  BY DEF ToSay
<1>3. /\ Flying(a) = Flying(l) /\ Done(a) = Done(l)
      /\ DispatchEnds(a) = DispatchEnds(l)
      /\ Positions(a, StepResults) = Positions(l, StepResults)
      /\ Defined(l) # 0 => Stopping(a) = Stopping(l)
  BY <1>1, SilentState
<1>4. /\ Defined(a) = Defined(l) /\ (OneByOne(a) => OneByOne(l))
      /\ Defined(l) # 0 => Nodes(a) = Nodes(l)
  BY <1>1, SameDefinition
<1>5. LastDispatch(a, q.arg) = LastDispatch(l, q.arg)
  BY <1>1, SilentConcernsNone, OtherNodes
<1>6. /\ \A i \in DispatchEnds(l) : a[i] = l[i]
      /\ \A i \in Positions(l, StepResults) : a[i] = l[i]
  BY <1>1, LogMembers
<1> HIDE DEF a
<1>7. IsJoin(l, q) => IsJoin(a, q)
  BY <1>4 DEF IsJoin
<1>8. Recordable(l, q) => Recordable(a, q)
  BY <1>3, <1>5, <1>6 DEF Recordable
<1>9. ~StartsDispatch(q) /\ ~EndsDispatch(q) /\ q.kind \notin ChildEnds
      /\ q.kind \notin {"child.started", "user.input", "code.frame", "ray.darkened"}
  BY <1>2 DEF ClothoPhotons, StepKinds, StartsDispatch, EndsDispatch, ChildEnds
<1>10. May(a, q)
  <2>1. q.kind \in StepResults => IsJoin(a, q) \/ Recordable(a, q)
    BY <1>2, <1>7, <1>8 DEF May
  <2>2. q.kind = "workflow.step-dispatched" =>
          Defined(a) # 0 /\ (OneByOne(a) => Flying(a) = {} /\ Done(a) = {} /\ Stopping(a) = {})
    BY <1>2, <1>3, <1>4 DEF May
  <2>3. q.kind = "workflow.compensation-dispatched" =>
          Defined(a) # 0 /\ (OneByOne(a) => Stopping(a) # {})
    BY <1>2, <1>3, <1>4 DEF May
  <2>4. q.kind = "workflow.defined" => q.arg \in DOMAIN Workflows
    BY <1>2 DEF May
  <2> QED
    BY <1>9, <2>1, <2>2, <2>3, <2>4 DEF May
<1> QED
  BY <1>2, <1>10 DEF ToSay, a

LEMMA EmitsStay ==
  ASSUME NEW l, IsLog(l), NEW p, p.kind # "workflow.defined", NEW act, Defined(l) # 0
  PROVE  ClothoEmits(Append(l, p), act) = ClothoEmits(l, act)
<1>1. Nodes(Append(l, p)) = Nodes(l)
  BY SameDefinition
<1> QED
  BY <1>1 DEF ClothoEmits
-----------------------------------------------------------------------------
(* What a step may do *)

(* A step leaves the log as it is, or appends one photon that it may append. *)
Grows(l2) == l2 = log \/ \E p : l2 = Append(log, p) /\ May(log, p)
Kept == Grows(log') /\ FrameInv(log', beat')

LEMMA RestingFrame ==
  ASSUME NEW l, NEW b, DOMAIN b = {"pc", "beats", "act", "todo", "result", "once"},
         b.pc \in {"idle", "check", "view", "dark", "abort", "recover"}
  PROVE  FrameInv(l, b)
BY DEF FrameInv, IsFrame

LEMMA IdleFrames ==
  ASSUME NEW l
  PROVE  /\ FrameInv(l, Idle) /\ FrameInv(l, [Idle EXCEPT !.pc = "check"])
         /\ FrameInv(l, [Idle EXCEPT !.pc = "dark"])
         /\ \A n : FrameInv(l, [Idle EXCEPT !.pc = "check", !.beats = n])
<1> DEFINE fields == {"pc", "beats", "act", "todo", "result", "once"}
<1>1. DOMAIN Idle = fields /\ Idle.pc = "idle"
  BY DEF Idle
<1>2. \A pc : DOMAIN [Idle EXCEPT !.pc = pc] = fields /\ [Idle EXCEPT !.pc = pc].pc = pc
  BY <1>1
<1>3. \A pc, n : /\ DOMAIN [Idle EXCEPT !.pc = pc, !.beats = n] = fields
                 /\ [Idle EXCEPT !.pc = pc, !.beats = n].pc = pc
  BY <1>1
<1>4. FrameInv(l, Idle)
  BY <1>1, RestingFrame
<1>5. ASSUME NEW pc \in {"check", "dark"} PROVE FrameInv(l, [Idle EXCEPT !.pc = pc])
  BY <1>2, RestingFrame
<1>6. ASSUME NEW n PROVE FrameInv(l, [Idle EXCEPT !.pc = "check", !.beats = n])
  <2> DEFINE b == [Idle EXCEPT !.pc = "check", !.beats = n]
  <2>1. DOMAIN b = fields /\ b.pc = "check"
    BY <1>3
  <2> HIDE DEF b
  <2>2. FrameInv(l, b)
    BY <2>1, RestingFrame
  <2> QED
    BY <2>2 DEF b
<1> QED
  BY <1>4, <1>5, <1>6

LEMMA AppendsKept ==
  ASSUME NEW p, NEW frame, NEW failed, Appends(p, frame, failed), May(log, p),
         FrameInv(Append(log, p), frame), FrameInv(log, failed)
  PROVE  Kept
BY DEF Appends, Kept, Grows

(* Photons that are told by the engine about an Act, or about none.        *)
LEMMA EnginePhotons ==
  /\ \A kind \in {"act.rejected", "ray.budget-exhausted", "ray.cancelled", "model.requested"} :
        \A arg : Plain(Said(kind, arg))
  /\ \A act : Plain(Photon("act.rejected", act, 0)) /\ Plain(Photon("act.outcome-unknown", act, 0))
  /\ \A act : act.kind # "dispatch" =>
        /\ Plain(Photon("act.completed", act, 0)) /\ Plain(Photon("act.failed", act, 0))
        /\ Plain(Photon("act.started", act, 0))
BY DEF Plain, Silent, StartsDispatch, EndsDispatch, StepKinds, ChildEnds, Said, Photon

LEMMA PlainKeeps ==
  ASSUME NEW l, IsLog(l), NEW p, Plain(p), NEW act, Running(l, act)
  PROVE  Running(Append(l, p), act)
BY RunningStays DEF Plain, Silent, StepKinds, Dispatches

LEMMA EndsFrame ==
  ASSUME WorkflowInv, beat.pc \in {"run", "emit"}, NEW result \in Results
  PROVE  FrameInv(log, Ends(result))
BY DEF WorkflowInv, FrameInv, IsFrame, Ends

LEMMA SubmitKept ==
  ASSUME WorkflowInv, Submit("local-chat")
  PROVE  Kept
<1> DEFINE p == Said("user.input", "local-chat")
<1>1. p.kind = "user.input" /\ p.arg = "local-chat"
  BY SaidIs
<1>2. Appends(p, [Idle EXCEPT !.pc = "check"], Idle)
  BY DEF Submit
<1> HIDE DEF p
<1>3. May(log, p)
  BY <1>1 DEF May, StartsDispatch, EndsDispatch, StepResults, ChildEnds
<1> QED
  BY <1>2, <1>3, IdleFrames, AppendsKept

LEMMA CheckKept ==
  ASSUME WorkflowInv, Check
  PROVE  Kept
<1>1. CASE Appends(Said("ray.budget-exhausted", 0), Idle, Idle)
  BY <1>1, EnginePhotons, PlainMay, IdleFrames, AppendsKept
<1>2. CASE Appends(Said("ray.cancelled", 0), Idle, Idle)
  BY <1>2, EnginePhotons, PlainMay, IdleFrames, AppendsKept
<1>3. CASE beat' = [beat EXCEPT !.pc = "view"] /\ log' = log
  <2>1. FrameInv(log, [beat EXCEPT !.pc = "view"])
    BY RestingFrame DEF WorkflowInv, FrameInv, IsFrame
  <2> QED
    BY <1>3, <2>1 DEF Kept, Grows
<1> QED
  BY <1>1, <1>2, <1>3 DEF Check

LEMMA AbortKept ==
  ASSUME WorkflowInv, Abort
  PROVE  Kept
BY EnginePhotons, PlainMay, IdleFrames, AppendsKept DEF Abort

LEMMA EmitKept ==
  ASSUME WorkflowInv, Emit
  PROVE  Kept
<1>0. /\ IsLog(log) /\ IsFrame(beat) /\ beat.pc = "emit" /\ IsLog(beat.todo)
      /\ \/ \A i \in DOMAIN beat.todo : Plain(beat.todo[i])
         \/ beat.act.kind # "dispatch" /\ \E p : beat.todo = <<p>> /\ ToSay(log, p)
      /\ beat.act.kind = "dispatch" => Running(log, beat.act)
  BY DEF Emit, WorkflowInv, LogInv, FrameInv
<1>1. CASE beat.todo = <<>> /\ beat' = Ends(beat.result) /\ log' = log
  <2>1. beat.result \in Results
    BY <1>0 DEF IsFrame
  <2> QED
    BY <1>0, <1>1, <2>1, EndsFrame DEF Kept, Grows
<1>2. CASE beat' = Ends("cancelled") /\ log' = log
  BY <1>0, <1>2, EndsFrame DEF Kept, Grows, Results
<1>3. CASE beat.todo # <<>> /\ Appends(Head(beat.todo), [beat EXCEPT !.todo = Tail(@)], Ends("error"))
  <2> DEFINE p == Head(beat.todo)
             rest == Tail(beat.todo)
             b == [beat EXCEPT !.todo = rest]
             a == Append(log, p)
  <2>1. /\ p = beat.todo[1] /\ 1 \in DOMAIN beat.todo /\ IsLog(rest)
        /\ Len(beat.todo) \in Nat /\ DOMAIN beat.todo = 1..Len(beat.todo)
        /\ DOMAIN rest = 1..(Len(beat.todo) - 1)
        /\ \A i \in DOMAIN rest : rest[i] = beat.todo[i + 1]
    BY <1>0, <1>3, TailIsLog
  <2>2. /\ IsFrame(b) /\ b.pc = "emit" /\ b.act = beat.act /\ b.todo = rest
    BY <1>0 DEF IsFrame
  <2>3. FrameInv(log, Ends("error"))
    BY <1>0, EndsFrame DEF Results
  <2>4. Appends(p, b, Ends("error"))
    BY <1>3
  <2> HIDE DEF p, rest, b
  <2>5. ASSUME \A i \in DOMAIN beat.todo : Plain(beat.todo[i])
        PROVE  May(log, p) /\ FrameInv(a, b)
    <3>1. Plain(p)
      BY <2>1, <2>5
    <3>2. \A i \in DOMAIN rest : Plain(rest[i])
      <4>1. \A i \in DOMAIN rest : i + 1 \in DOMAIN beat.todo
        BY <2>1
      <4> QED
        BY <2>1, <2>5, <4>1
    <3>3. b.act.kind = "dispatch" => Running(a, b.act)
      BY <1>0, <2>2, <3>1, PlainKeeps
    <3>4. FrameInv(a, b)
      BY <2>1, <2>2, <3>2, <3>3 DEF FrameInv
    <3> QED
      BY <3>1, <3>4, PlainMay
  <2>6. ASSUME NEW q, beat.todo = <<q>>, ToSay(log, q), beat.act.kind # "dispatch"
        PROVE  May(log, p) /\ FrameInv(a, b)
    <3>1. p = q /\ DOMAIN rest = {}
      <4>1. DOMAIN beat.todo = {1} /\ beat.todo[1] = q
        BY <2>6, OnePhoton
      <4>2. 1..Len(beat.todo) = {1}
        BY <2>1, <4>1
      <4>3. \A n \in Nat : 1..n = {1} => n = 1
        <5>1. ASSUME NEW n \in Nat, 1..n = {1}, n # 1 PROVE FALSE
          <6>1. 2 \in 1..n \/ n = 0
            BY <5>1
          <6>2. 1 \in 1..n
            BY <5>1
          <6> QED
            BY <5>1, <6>1, <6>2
        <5> QED
          BY <5>1
      <4>4. Len(beat.todo) = 1
        BY <2>1, <4>2, <4>3
      <4> QED
        BY <2>1, <4>1, <4>4
    <3>2. FrameInv(a, b)
      BY <2>1, <2>2, <2>6, <3>1 DEF FrameInv
    <3> QED
      BY <2>6, <3>1, <3>2 DEF ToSay
  <2>7. May(log, p) /\ FrameInv(a, b)
    BY <1>0, <2>5, <2>6
  <2> QED
    BY <2>3, <2>4, <2>7, AppendsKept
<1> QED
  BY <1>1, <1>2, <1>3 DEF Emit

LEMMA FinishKept ==
  ASSUME WorkflowInv, Finish
  PROVE  Kept
<1>0. /\ IsLog(log) /\ IsFrame(beat) /\ beat.pc = "finish" /\ beat.result \in Results
      /\ beat.act.kind = "dispatch" => Running(log, beat.act)
  BY DEF Finish, WorkflowInv, LogInv, FrameInv, IsFrame
<1>1. ASSUME NEW kind \in {"act.completed", "act.failed", "act.rejected"}
      PROVE  May(log, Photon(kind, beat.act, 0))
  <2> DEFINE p == Photon(kind, beat.act, 0)
  <2>1. CASE beat.act.kind # "dispatch" \/ kind = "act.rejected"
    BY <1>1, <2>1, EnginePhotons, PlainMay
  <2>2. CASE beat.act.kind = "dispatch"
    <3>1. p.kind = kind /\ p.act = beat.act
      BY DEF Photon
    <3> HIDE DEF p
    <3>2. May(log, p)
      BY <1>0, <1>1, <2>2, <3>1 DEF May, StartsDispatch, StepResults, ChildEnds
    <3> QED
      BY <3>2 DEF p
  <2> QED
    BY <2>1, <2>2
<1>2. \A l : FrameInv(l, [beat EXCEPT !.pc = "abort"])
  BY <1>0, RestingFrame DEF IsFrame
<1>3. CASE beat.result \in DOMAIN TerminalOf
  <2> DEFINE frame == IF beat.once THEN Idle
                      ELSE [Idle EXCEPT !.pc = "check", !.beats = beat.beats + 1]
             kind == TerminalOf[beat.result]
  <2>1. kind \in {"act.completed", "act.failed", "act.rejected"}
    BY <1>3 DEF TerminalOf
  <2>2. Appends(Photon(kind, beat.act, 0), frame, Idle)
    BY <1>3 DEF Finish, TerminalOf
  <2>3. \A l : FrameInv(l, frame)
    BY IdleFrames
  <2> HIDE DEF kind, frame
  <2> QED
    BY <1>1, <2>1, <2>2, <2>3, IdleFrames, AppendsKept
<1>4. CASE beat.result = "error"
  <2>1. Appends(Photon("act.failed", beat.act, 0), Idle, Idle)
    BY <1>4 DEF Finish, TerminalOf
  <2> QED
    BY <1>1, <2>1, IdleFrames, AppendsKept
<1>5. CASE beat.result = "cancelled"
  <2>1. Appends(Photon("act.failed", beat.act, 0), [beat EXCEPT !.pc = "abort"], Idle)
    BY <1>5 DEF Finish, TerminalOf
  <2> QED
    BY <1>1, <1>2, <2>1, IdleFrames, AppendsKept
<1> QED
  BY <1>0, <1>3, <1>4, <1>5 DEF Results, TerminalOf

LEMMA CrashKept == ASSUME Crash PROVE Kept
<1> DEFINE b == [Idle EXCEPT !.pc = "recover"]
<1>1. DOMAIN b = {"pc", "beats", "act", "todo", "result", "once"} /\ b.pc = "recover"
  BY DEF Idle
<1>2. beat' = b /\ log' = log
  BY DEF Crash
<1> HIDE DEF b
<1>3. FrameInv(log', b)
  BY <1>1, RestingFrame
<1> QED
  BY <1>2, <1>3 DEF Kept, Grows

LEMMA RecoverKept ==
  ASSUME WorkflowInv, Recover
  PROVE  Kept
<1>1. CASE beat' = Idle /\ log' = log
  BY <1>1, IdleFrames DEF Kept, Grows
<1>2. ASSUME NEW act, log' = Append(log, Photon("act.outcome-unknown", act, 0)), beat' = beat
      PROVE  Kept
  <2>1. May(log, Photon("act.outcome-unknown", act, 0))
    BY EnginePhotons, PlainMay
  <2>2. FrameInv(log', beat)
    BY RestingFrame DEF Recover, WorkflowInv, FrameInv, IsFrame
  <2> QED
    BY <1>2, <2>1, <2>2 DEF Kept, Grows
<1> QED
  BY <1>1, <1>2 DEF Recover

(* The Act of a dispatch that is due runs once it has started.             *)
LEMMA StartRuns ==
  ASSUME NEW l, LogInv(l), NEW act, Due(l, act), NEW p, p.kind = "act.started", p.act = act
  PROVE  Running(Append(l, p), act)
<1> DEFINE a == Append(l, p)
           starts == StartsOfDispatch(a, act.of)
           ends == EndsOfDispatch(a, act.of)
<1>1. IsLog(l) /\ EndsAreOfTheLast(l)
  BY DEF LogInv
<1>2. p.kind \notin Dispatches /\ ~EndsDispatch(p) /\ StartsDispatch(p)
  BY DEF Dispatches, EndsDispatch, StartsDispatch, Due, IsDispatch
<1>3. IsDispatch(a, act) /\ act.of = Latest(a, Dispatches)
  BY <1>1, <1>2, DispatchStays, SameDispatches DEF Due
<1>4. /\ starts = StartsOfDispatch(l, act.of) \cup
                    (IF StartsDispatch(p) /\ p.act.of = act.of THEN {Len(l) + 1} ELSE {})
      /\ ends = EndsOfDispatch(l, act.of) \cup
                    (IF EndsDispatch(p) /\ p.act.of = act.of THEN {Len(l) + 1} ELSE {})
  BY <1>1, AppendOfDispatch
<1>5. EndsOfDispatch(l, act.of) = {}
  BY <1>1 DEF Due, EndsAreOfTheLast, EndsOfDispatch
<1> HIDE DEF starts, ends
<1>6. starts # {} /\ ends = {}
  BY <1>2, <1>4, <1>5
<1> QED
  BY <1>3, <1>6 DEF Running, starts, ends

LEMMA ClothoStays ==
  ASSUME NEW l, LogInv(l), NEW p, Silent(p), NEW act, Defined(l) # 0,
         ToSay(l, ClothoEmits(l, act))
  PROVE  ToSay(Append(l, p), ClothoEmits(Append(l, p), act))
<1>1. IsLog(l) /\ p.kind # "workflow.defined"
  BY DEF LogInv, Silent, StepKinds
<1>2. ClothoEmits(Append(l, p), act) = ClothoEmits(l, act)
  BY <1>1, EmitsStay
<1>3. ToSay(Append(l, p), ClothoEmits(l, act))
  BY ToSayStays
<1> QED
  BY <1>2, <1>3

LEMMA ViewKept ==
  ASSUME WorkflowInv, NEW act \in Proposals, NEW admitted, View(act, admitted)
  PROVE  Kept
<1>0. LogInv(log) /\ IsLog(log) /\ IsFrame(beat)
  BY DEF WorkflowInv, LogInv, FrameInv
<1>1. CASE act = NoAct
  <2> DEFINE p == Said("ray.darkened", 0)
  <2>1. p.kind = "ray.darkened"
    BY SaidIs
  <2>2. Appends(p, [Idle EXCEPT !.pc = "dark"], Idle)
    BY <1>1 DEF View
  <2> HIDE DEF p
  <2>3. May(log, p)
    BY <1>0, <1>1, <2>1, ViewMay DEF May, StartsDispatch, EndsDispatch, StepResults, ChildEnds
  <2> QED
    BY <2>2, <2>3, IdleFrames, AppendsKept
<1>2. CASE act # NoAct /\ ~admitted
  <2>1. Appends(Said("act.rejected", 0), Idle, Idle)
    BY <1>2 DEF View
  <2> QED
    BY <2>1, EnginePhotons, PlainMay, IdleFrames, AppendsKept
<1>3. CASE act # NoAct /\ admitted
  <2> DEFINE p == Photon("act.started", act, 0)
             a == Append(log, p)
             b == [beat EXCEPT !.pc = "run", !.act = act]
  <2>1. p.kind = "act.started" /\ p.act = act
    BY DEF Photon
  <2>2. Appends(p, b, Idle)
    BY <1>3 DEF View
  <2>3. May(log, p)
    BY <1>0, <1>3, ViewMay
  <2>4. IsFrame(b) /\ b.pc = "run" /\ b.act = act
    BY <1>0 DEF IsFrame
  <2> HIDE DEF p, b
  <2>5. act.kind = "dispatch" => Running(a, act)
    BY <1>0, <2>1, ViewMay, StartRuns
  <2>6. act.kind \in ClothoActs => ToSay(a, ClothoEmits(a, act))
    <3> SUFFICES ASSUME act.kind \in ClothoActs PROVE ToSay(a, ClothoEmits(a, act))
      OBVIOUS
    <3>1. Silent(p)
      BY <2>1 DEF Silent, StepKinds, StartsDispatch, EndsDispatch, ClothoActs
    <3>2. ToSay(log, ClothoEmits(log, act)) /\ Defined(log) # 0
      BY <1>0, ViewMay
    <3> QED
      BY <1>0, <3>1, <3>2, ClothoStays
  <2>7. act.kind = "model.call" => Latest(a, {"user.input"}) # 0
    <3> DEFINE last == Latest(a, {"user.input"})
    <3>1. last = IF p.kind \in {"user.input"} THEN Len(log) + 1 ELSE Latest(log, {"user.input"})
      BY <1>0, AppendLatest
    <3> HIDE DEF last
    <3>2. last = Latest(log, {"user.input"})
      BY <2>1, <3>1
    <3> QED
      BY <1>0, <3>2, ViewMay DEF last
  <2> HIDE DEF a
  <2>8. FrameInv(a, b)
    BY <2>4, <2>5, <2>6, <2>7 DEF FrameInv
  <2> QED
    BY <2>2, <2>3, <2>8, IdleFrames, AppendsKept DEF a
<1> QED
  BY <1>1, <1>2, <1>3
-----------------------------------------------------------------------------
(* What the Lenses do *)

LEMMA IdleKept == ASSUME beat' = Idle, UNCHANGED log PROVE Kept
BY IdleFrames DEF Kept, Grows

(* A Lens that emits plain photons, and whatever its Act is.               *)
LEMMA PlainFrame ==
  ASSUME NEW l, IsFrame(beat), beat.act.kind = "dispatch" => Running(l, beat.act),
         NEW todo, IsLog(todo), \A i \in DOMAIN todo : Plain(todo[i]),
         NEW result \in Results
  PROVE  FrameInv(l, [beat EXCEPT !.pc = "emit", !.todo = todo, !.result = result])
<1> DEFINE b == [beat EXCEPT !.pc = "emit", !.todo = todo, !.result = result]
<1>1. /\ DOMAIN b = DOMAIN beat /\ b.pc = "emit" /\ b.act = beat.act
      /\ b.todo = todo /\ b.result = result
  BY DEF IsFrame
<1> HIDE DEF b
<1>2. FrameInv(l, b)
  BY <1>1 DEF FrameInv, IsFrame
<1> QED
  BY <1>2 DEF b

LEMMA RunsKept ==
  ASSUME WorkflowInv, beat.pc = "run", NEW todo, NEW result \in Results, Runs(todo, result),
         IsLog(todo), \A i \in DOMAIN todo : Plain(todo[i])
  PROVE  Kept
<1>1. IsFrame(beat) /\ (beat.act.kind = "dispatch" => Running(log, beat.act))
  BY DEF WorkflowInv, FrameInv
<1> QED
  BY <1>1, PlainFrame DEF Runs, Kept, Grows

LEMMA OneRunsKept ==
  ASSUME WorkflowInv, beat.pc = "run", NEW p, Plain(p), Runs(<<p>>, "completed")
  PROVE  Kept
<1>1. IsLog(<<p>>) /\ \A i \in DOMAIN <<p>> : Plain(<<p>>[i])
  BY OnePhoton
<1> QED
  BY <1>1, RunsKept DEF Results

LEMMA NoneRunsKept ==
  ASSUME WorkflowInv, beat.pc = "run", NEW result \in Results, Runs(<<>>, result)
  PROVE  Kept
<1>1. IsLog(<<>>) /\ DOMAIN <<>> = {}
  BY NoPhotons
<1> QED
  BY <1>1, RunsKept

LEMMA AnswerIsPlain ==
  ASSUME NEW told, told = Answer(<<>>, TRUE)
  PROVE  IsLog(told) /\ \A i \in DOMAIN told : Plain(told[i])
<1> DEFINE F == {Said("assistant.message", 0), Said("model.usage", 1), Said("model.completed", 0)}
           calls == <<>>
           first == [k \in DOMAIN calls |-> Said("model.tool-call", calls[k])]
           mid == <<Said("assistant.message", 0)>>
           end == <<Said("model.usage", 1), Said("model.completed", 0)>>
<1>1. \A p \in F : Plain(p)
  BY DEF Said, Photon, Plain, Silent, StepKinds, StartsDispatch, EndsDispatch, ChildEnds
<1>2. told = first \o mid \o end
  BY DEF Answer
<1>3. first \in Seq(F)
  <2>1. DOMAIN calls = 1..0
    OBVIOUS
  <2> HIDE DEF calls, F
  <2>2. first \in [1..0 -> F]
    BY <2>1
  <2> HIDE DEF first
  <2> QED
    BY <2>2, FunctionIsSeq
<1>4. mid \in Seq(F) /\ end \in Seq(F)
  <2>1. Said("assistant.message", 0) \in F /\ Said("model.usage", 1) \in F
        /\ Said("model.completed", 0) \in F
    OBVIOUS
  <2> HIDE DEF F
  <2> QED
    BY <2>1
<1> HIDE DEF F, first, mid, end
<1>5. told \in Seq(F)
  <2> DEFINE start == first \o mid
  <2>1. start \in Seq(F)
    BY <1>3, <1>4, ConcatProperties
  <2>2. told = start \o end
    BY <1>2
  <2> HIDE DEF start
  <2> QED
    BY <1>4, <2>1, <2>2, ConcatProperties
<1>6. \A i \in DOMAIN told : Plain(told[i])
  BY <1>1, <1>5, ElementOfSeq, LenProperties
<1> QED
  BY <1>5, <1>6, OwnMembers

LEMMA RequestKept ==
  ASSUME WorkflowInv, Request
  PROVE  Kept
<1> DEFINE p == Said("model.requested", 0)
           a == Append(log, p)
           input == Latest(log, {"user.input"})
           frame == [beat EXCEPT !.pc = "emit", !.todo = LocalAnswer, !.result = "completed"]
<1>0. /\ beat.pc = "run" /\ beat.act.kind = "model.call" /\ IsFrame(beat)
      /\ IsLog(log) /\ IsTyped(log) /\ input # 0
  BY DEF Request, WorkflowInv, LogInv, FrameInv
<1>1. log[input].arg = "local-chat"
  <2>1. input \in Positions(log, {"user.input"})
    BY <1>0, LatestIsLast
  <2> QED
    BY <1>0, <2>1 DEF IsTyped
<1>2. Appends(p, frame, Ends("error"))
  BY <1>1 DEF Request
<1>3. Plain(p)
  BY EnginePhotons
<1>4. IsLog(LocalAnswer) /\ \A i \in DOMAIN LocalAnswer : Plain(LocalAnswer[i])
  <2>1. LocalAnswer = Answer(<<>>, TRUE)
    BY <1>1 DEF LocalAnswer
  <2> QED
    BY <2>1, AnswerIsPlain
<1> HIDE DEF p
<1>5. FrameInv(a, frame)
  BY <1>0, <1>4, PlainFrame DEF Results
<1>6. FrameInv(log, Ends("error"))
  BY <1>0, EndsFrame DEF Results
<1> HIDE DEF frame
<1> QED
  BY <1>2, <1>3, <1>5, <1>6, PlainMay, AppendsKept

LEMMA ModelCallKept ==
  ASSUME WorkflowInv, ModelCall
  PROVE  Kept
<1>1. beat.pc # "model"
  BY DEF WorkflowInv, FrameInv, IsFrame
<1>2. Request
  BY <1>1 DEF ModelCall, RheaStep, Misconfigured, NoCredential, Stopped, Responds, Refused,
              Retry, GivesUp, Expired
<1> QED
  BY <1>2, RequestKept

LEMMA RunClothoKept ==
  ASSUME WorkflowInv, RunClotho
  PROVE  Kept
<1> DEFINE p == ClothoEmits(log, beat.act)
<1>0. beat.pc = "run" /\ IsFrame(beat) /\ beat.act.kind \in ClothoActs
  <2>1. \A c \in Controls :
            c.kind \in ClothoActs \cup {"child.spawn", "child.join", "child.cancel", "child.message"}
    BY ControlsAssumption DEF ClothoActs
  <2>2. \/ \E c \in Controls : beat.act.kind = c.kind
        \/ beat.act.kind \in {"workflow.step", "workflow.compensate", "workflow.record-step",
                              "workflow.record-compensation"}
    BY DEF RunClotho
  <2>3. beat.act.kind \notin {"child.spawn", "child.join", "child.cancel", "child.message"}
    BY DEF RunClotho
  <2>4. beat.act.kind \in ClothoActs
    BY <2>1, <2>2, <2>3 DEF ClothoActs
  <2> QED
    BY <2>4 DEF RunClotho, WorkflowInv, FrameInv
<1>1. ToSay(log, p) /\ beat.act.kind # "dispatch"
  BY <1>0 DEF WorkflowInv, FrameInv, ClothoActs
<1> HIDE DEF p
<1>2. CASE Runs(<<>>, "error")
  BY <1>0, <1>2, NoneRunsKept DEF Results
<1>3. CASE Runs(<<p>>, "completed")
  <2> DEFINE todo == <<p>>
             b == [beat EXCEPT !.pc = "emit", !.todo = todo, !.result = "completed"]
  <2>1. IsLog(todo)
    BY OnePhoton
  <2>2. \E q : todo = <<q>> /\ ToSay(log, q)
    BY <1>1
  <2>3. beat' = b /\ log' = log
    BY <1>3 DEF Runs
  <2> HIDE DEF todo
  <2>4. /\ DOMAIN b = DOMAIN beat /\ b.pc = "emit" /\ b.act = beat.act
        /\ b.todo = todo /\ b.result = "completed"
    BY <1>0 DEF IsFrame
  <2> HIDE DEF b
  <2>5. FrameInv(log, b)
    BY <1>0, <1>1, <2>1, <2>2, <2>4 DEF FrameInv, IsFrame, Results
  <2> QED
    BY <2>3, <2>5 DEF Kept, Grows
<1> QED
  BY <1>2, <1>3 DEF RunClotho, p

LEMMA RunStepKept ==
  ASSUME WorkflowInv, RunStep
  PROVE  Kept
<1>1. PICK result \in Results : Runs(<<>>, result)
  BY DEF RunStep, Results
<1> QED
  BY <1>1, NoneRunsKept DEF RunStep

LEMMA SpawnKept ==
  ASSUME WorkflowInv, Spawn
  PROVE  Kept
<1>1. Len(children) + 1 \in Nat
  BY LogLen DEF WorkflowInv
<1>2. \A acts : Plain(Said("child.started", [child |-> Len(children) + 1, acts |-> acts]))
  BY <1>1 DEF Plain, Silent, StepKinds, StartsDispatch, EndsDispatch, ChildEnds, Said, Photon
<1>3. \/ Runs(<<>>, "error")
      \/ \E acts : Runs(<<Said("child.started", [child |-> Len(children) + 1, acts |-> acts])>>,
                        "completed")
  BY DEF Spawn
<1> QED
  BY <1>2, <1>3, NoneRunsKept, OneRunsKept DEF Spawn, Results

LEMMA RunAyaKept ==
  ASSUME WorkflowInv, RunAya
  PROVE  Kept
<1>1. Plain(AyaEmits(log, beat.act))
  BY DEF RunAya, AyaEmits, Plain, Silent, StepKinds, StartsDispatch, EndsDispatch, ChildEnds,
         Said, Photon
<1> QED
  BY <1>1, OneRunsKept DEF RunAya

LEMMA AdvanceKept ==
  ASSUME WorkflowInv, Advance \/ ViewFails
  PROVE  Kept
<1>1. CASE BeatStep
  BY <1>1, CheckKept, EmitKept, FinishKept, AbortKept, RecoverKept DEF BeatStep
<1>2. ASSUME NEW act \in Proposals, View(act, Admitted(act)) PROVE Kept
  BY <1>2, ViewKept
<1>3. CASE ViewFails
  BY <1>3, IdleKept DEF ViewFails
<1> QED
  BY <1>1, <1>2, <1>3 DEF Advance
-----------------------------------------------------------------------------
(* The children, and the clients *)

LEMMA ChildFrame ==
  ASSUME NEW l, NEW b, DOMAIN b = {"pc", "beats", "act", "todo", "result", "once"},
         b.pc \in {"children", "answered", "broken"},
         b.todo \in SUBSET Nat, b.pc # "children" => b.todo # {},
         \A c \in b.todo : EndsOfChild(l, c, ChildEnds) = {}
  PROVE  FrameInv(l, b)
BY DEF FrameInv, IsFrame

LEMMA SuperviseKept ==
  ASSUME WorkflowInv, Supervise
  PROVE  Kept
<1> DEFINE b == [Idle EXCEPT !.pc = "children", !.todo = Pending]
<1>1. Pending \in SUBSET Nat /\ \A c \in Pending : EndsOfChild(log, c, ChildEnds) = {}
  BY DEF Pending, ChildrenOf, WorkflowInv, LogInv, IsTyped
<1>2. /\ DOMAIN b = {"pc", "beats", "act", "todo", "result", "once"}
      /\ b.pc = "children" /\ b.todo = Pending
  BY DEF Idle
<1>3. (beat' = Idle \/ beat' = b) /\ UNCHANGED log
  BY DEF Supervise
<1> HIDE DEF b
<1>4. FrameInv(log, b)
  BY <1>1, <1>2, ChildFrame
<1> QED
  BY <1>3, <1>4, IdleFrames DEF Kept, Grows

LEMMA AdvanceChildKept ==
  ASSUME WorkflowInv, AdvanceChild
  PROVE  Kept
<1>1. PICK pc \in {"answered", "broken"} : beat' = [beat EXCEPT !.pc = pc] /\ UNCHANGED log
  BY DEF AdvanceChild
<1> DEFINE b == [beat EXCEPT !.pc = pc]
<1>2. /\ IsFrame(beat) /\ beat.pc = "children" /\ beat.todo # {} /\ beat.todo \in SUBSET Nat
      /\ \A c \in beat.todo : EndsOfChild(log, c, ChildEnds) = {}
  BY DEF AdvanceChild, WorkflowInv, FrameInv
<1>3. DOMAIN b = DOMAIN beat /\ b.pc = pc /\ b.todo = beat.todo
  BY <1>2 DEF IsFrame
<1>4. beat' = b /\ UNCHANGED log
  BY <1>1
<1> HIDE DEF b
<1>5. FrameInv(log, b)
  BY <1>2, <1>3, ChildFrame DEF IsFrame
<1> QED
  BY <1>4, <1>5 DEF Kept, Grows

LEMMA OtherChild ==
  ASSUME NEW l, IsLog(l), NEW p, NEW c, p.arg # c, NEW kinds, EndsOfChild(l, c, kinds) = {}
  PROVE  EndsOfChild(Append(l, p), c, kinds) = {}
<1> SUFFICES ASSUME NEW i \in EndsOfChild(Append(l, p), c, kinds) PROVE FALSE
  OBVIOUS
<1>1. i \in Positions(Append(l, p), kinds) /\ Append(l, p)[i].arg = c
  BY DEF EndsOfChild
<1>2. i \in Positions(l, kinds) /\ l[i].arg = c
  BY <1>1, AppendMember
<1> QED
  BY <1>2 DEF EndsOfChild

LEMMA EndChildKept ==
  ASSUME WorkflowInv, EndChild
  PROVE  Kept
<1> DEFINE child == Min(beat.todo)
           kind == IF beat.pc = "answered" THEN "child.completed" ELSE "child.failed"
           p == Said(kind, child)
           rest == beat.todo \ {child}
           b == [beat EXCEPT !.pc = "children", !.todo = rest, !.result = "added"]
           a == Append(log, p)
<1>1. /\ IsFrame(beat) /\ beat.todo \in SUBSET Nat /\ beat.todo # {} /\ IsLog(log)
      /\ \A c \in beat.todo : EndsOfChild(log, c, ChildEnds) = {}
  BY DEF EndChild, WorkflowInv, FrameInv, LogInv
<1>2. child \in beat.todo
  BY <1>1, LeastOf
<1>3. Appends(p, b, Idle)
  BY DEF EndChild
<1>4. p.kind \in {"child.completed", "child.failed"} /\ p.arg = child
  BY SaidIs
<1>5. DOMAIN b = DOMAIN beat /\ b.pc = "children" /\ b.todo = rest
  BY <1>1 DEF IsFrame
<1>6. rest \in SUBSET Nat /\ \A c \in rest : c \in beat.todo /\ c # child
  BY <1>1
<1> HIDE DEF child, kind, p, rest, b
<1>7. May(log, p)
  BY <1>1, <1>2, <1>4 DEF May, StartsDispatch, EndsDispatch, StepResults, ChildEnds
<1>8. \A c \in rest : EndsOfChild(a, c, ChildEnds) = {}
  BY <1>1, <1>4, <1>6, OtherChild
<1> HIDE DEF a
<1>9. FrameInv(a, b)
  BY <1>1, <1>5, <1>6, <1>8, ChildFrame DEF IsFrame
<1> QED
  BY <1>3, <1>7, <1>9, IdleFrames, AppendsKept DEF a

LEMMA ResumeKept == ASSUME Resume PROVE Kept
BY IdleFrames DEF Resume, Kept, Grows

(* What a client asks of Clotho may be said at any time.                   *)
LEMMA ControlsToSay ==
  ASSUME NEW c \in Controls, NEW of, NEW l, Act(c.kind, of, c.arg).kind \in ClothoActs
  PROVE  ToSay(l, ClothoEmits(l, Act(c.kind, of, c.arg)))
<1> DEFINE act == Act(c.kind, of, c.arg)
           p == ClothoEmits(l, act)
<1>1. act.kind = c.kind /\ act.arg = c.arg
  BY DEF Act
<1>2. c.kind \in {"workflow.define", "workflow.retry", "workflow.pause", "workflow.resume",
                  "workflow.cancel"}
  BY <1>1, ControlsAssumption DEF ClothoActs
<1> HIDE DEF act
<1>3. CASE c.kind = "workflow.define"
  <2>1. p = Said("workflow.defined", c.arg)
    BY <1>1, <1>3 DEF ClothoEmits
  <2>2. p.kind = "workflow.defined" /\ p.arg \in DOMAIN Workflows
    BY <1>3, <2>1, SaidIs, ControlsAssumption
  <2> HIDE DEF p
  <2>3. ToSay(l, p)
    BY <2>2 DEF ToSay, May, ClothoPhotons, StepKinds, StartsDispatch, EndsDispatch,
                StepResults, ChildEnds
  <2> QED
    BY <2>3 DEF p, act
<1>4. CASE c.kind # "workflow.define"
  <2>1. p.kind \in {"workflow.step-retry-requested", "workflow.paused", "workflow.resumed",
                    "workflow.cancelled"}
    BY <1>1, <1>2, <1>4 DEF ClothoEmits, Said, Photon
  <2> HIDE DEF p
  <2>2. ToSay(l, p)
    BY <2>1, FreeToSay
  <2> QED
    BY <2>2 DEF p, act
<1> QED
  BY <1>3, <1>4

LEMMA ControlKept ==
  ASSUME WorkflowInv, Control
  PROVE  Kept
<1>1. PICK c \in Controls : Refract(Act(c.kind, Len(log), c.arg), TRUE)
  BY DEF Control
<1> DEFINE act == Act(c.kind, Len(log), c.arg)
           p == Photon("act.started", act, 0)
           a == Append(log, p)
           b == [Idle EXCEPT !.pc = "run", !.act = act, !.once = TRUE]
<1>2. log' = a /\ beat' = b
  BY <1>1 DEF Refract
<1>3. act.kind \notin {"dispatch", "model.call"}
  BY ControlsAssumption DEF Act
<1>4. act.kind \in ClothoActs => ToSay(a, ClothoEmits(a, act))
  BY ControlsToSay
<1>5. /\ DOMAIN b = {"pc", "beats", "act", "todo", "result", "once"}
      /\ b.pc = "run" /\ b.act = act
  BY DEF Idle
<1> HIDE DEF act, b
<1>6. Plain(p)
  BY <1>3, EnginePhotons
<1> HIDE DEF a
<1>7. FrameInv(a, b)
  BY <1>3, <1>4, <1>5 DEF FrameInv, IsFrame
<1> QED
  BY <1>2, <1>6, <1>7, PlainMay DEF Kept, Grows, a

LEMMA StaysKept ==
  ASSUME WorkflowInv, UNCHANGED <<log, beat>>
  PROVE  Kept
BY DEF Kept, Grows, WorkflowInv

LEMMA ChildrenStayALog ==
  ASSUME IsLog(children), [Next]_vars
  PROVE  IsLog(children')
<1>1. CASE children' = children
  BY <1>1
<1>2. CASE children' = Append(children, "input")
  BY <1>2, AppendIsLog
<1>3. ASSUME NEW c, children' = [children EXCEPT ![c] = "answer"]
      PROVE  IsLog(children')
  <2> DEFINE n == Len(children)
             f == [children EXCEPT ![c] = "answer"]
             S == {children[i] : i \in DOMAIN children} \cup {"answer"}
  <2>1. n \in Nat /\ DOMAIN children = 1..n
    BY LogLen
  <2>2. children \in [1..n -> S]
    BY <2>1 DEF IsLog
  <2>3. "answer" \in S
    OBVIOUS
  <2> HIDE DEF n, S
  <2>4. f \in [1..n -> S]
    BY <2>2, <2>3
  <2> HIDE DEF f
  <2>5. IsLog(f)
    BY <2>1, <2>4, FunctionIsSeq, OwnMembers
  <2> QED
    BY <1>3, <2>5 DEF f
<1>4. \/ children' = children \/ children' = Append(children, "input")
      \/ \E c : children' = [children EXCEPT ![c] = "answer"]
  <2>1. CASE Spawn
    BY <2>1 DEF Spawn
  <2>2. CASE AdvanceChild
    <3>1. PICK ok \in BOOLEAN :
             children' = IF ok THEN [children EXCEPT ![Min(beat.todo)] = "answer"] ELSE children
      BY <2>2 DEF AdvanceChild
    <3> QED
      BY <3>1
  <2>3. CASE Advance \/ ViewFails \/ ModelCall \/ RunClotho \/ RunStep \/ RunAya
    BY <2>3 DEF Advance, ViewFails, ModelCall, RunClotho, RunStep, RunAya, Mine
  <2>4. CASE Supervise \/ EndChild \/ Resume \/ Turn \/ Control \/ Cancel \/ Restart
    BY <2>4 DEF Supervise, EndChild, Resume, Turn, Control, Cancel, Restart, Mine
  <2>5. CASE UNCHANGED vars
    BY <2>5 DEF vars
  <2> QED
    BY <2>1, <2>2, <2>3, <2>4, <2>5 DEF Next
<1> QED
  BY <1>1, <1>2, <1>3, <1>4

(* Every step keeps the log, or appends what it may append.                *)
LEMMA StepKept ==
  ASSUME WorkflowInv, [Next]_vars
  PROVE  Kept
<1>1. CASE Advance \/ ViewFails
  BY <1>1, AdvanceKept
<1>2. CASE ModelCall \/ RunClotho \/ RunStep \/ Spawn \/ RunAya
  BY <1>2, ModelCallKept, RunClothoKept, RunStepKept, SpawnKept, RunAyaKept
<1>3. CASE Supervise \/ AdvanceChild \/ EndChild \/ Resume
  BY <1>3, SuperviseKept, AdvanceChildKept, EndChildKept, ResumeKept
<1>4. CASE Turn \/ Control
  BY <1>4, SubmitKept, ControlKept DEF Turn
<1>5. CASE Cancel
  BY <1>5, StaysKept DEF Cancel, CancelRay
<1>6. CASE Restart
  BY <1>6, CrashKept DEF Restart
<1>7. CASE UNCHANGED vars
  BY <1>7, StaysKept DEF vars, beatVars
<1> QED
  BY <1>1, <1>2, <1>3, <1>4, <1>5, <1>6, <1>7 DEF Next

LEMMA InvKept ==
  ASSUME WorkflowInv, [Next]_vars
  PROVE  WorkflowInv'
<1>1. Kept
  BY StepKept
<1>2. LogInv(log) /\ IsLog(children)
  BY DEF WorkflowInv
<1>3. LogInv(log')
  BY <1>1, <1>2, LogKept DEF Kept, Grows
<1>4. IsLog(children')
  BY <1>2, ChildrenStayALog
<1> QED
  BY <1>1, <1>3, <1>4 DEF Kept, WorkflowInv

LEMMA EmptyLogInv == LogInv(<<>>)
<1>1. DOMAIN <<>> = {} /\ IsLog(<<>>)
  BY NoPhotons
<1>2. \A kinds : Positions(<<>>, kinds) = {}
  BY <1>1 DEF Positions
<1>3. DispatchStarts(<<>>) = {} /\ DispatchEnds(<<>>) = {}
  BY <1>2 DEF DispatchStarts, DispatchEnds
<1>4. ~OneByOne(<<>>)
  BY <1>2 DEF OneByOne
<1> QED
  BY <1>1, <1>2, <1>3, <1>4 DEF LogInv, StartsAreDue, EndsAreOfTheLast, ActsEndOnce,
     FailuresAreEnds, DefinitionsFirst, IsTyped, NothingIsCovered

(***************************************************************************)
(* The invariant of the ray: what its log says of dispatches, of the Acts   *)
(* that answer them and of the steps' results, and what the call of advance *)
(* that is under way still holds of it (runtime.cpp, advance; clotho_lens,  *)
(* view and refract; techor_lens, view).                                   *)
(***************************************************************************)
THEOREM WorkflowInvHolds == Spec => []WorkflowInv
<1>1. Init => WorkflowInv
  <2> SUFFICES ASSUME Init PROVE WorkflowInv
    OBVIOUS
  <2>1. log = <<>> /\ beat = Idle /\ children = <<>>
    BY DEF Init, BeatInit
  <2> QED
    BY <2>1, EmptyLogInv, IdleFrames, NoPhotons DEF WorkflowInv
<1>2. WorkflowInv /\ [Next]_vars => WorkflowInv'
  BY InvKept
<1> QED
  BY <1>1, <1>2, PTL DEF Spec
-----------------------------------------------------------------------------
(* The properties *)

LEMMA NowAndBefore ==
  ASSUME WorkflowInv, NEW p, log' = Append(log, p)
  PROVE  /\ Before' = log /\ Newest' = p
         /\ \A kinds : Now(kinds)' => p.kind \in kinds
         /\ \A kinds : \A i \in Positions(log, kinds) :
               log'[i] = log[i] /\ i \in Positions(log', kinds)
<1>1. IsLog(log)
  BY DEF WorkflowInv, LogInv
<1>2. Before' = log
  BY <1>1, BeforeAppend DEF Before
<1>3. Newest' = p
  BY <1>1, AppendIsLog DEF Newest
<1>4. \A kinds : \A i \in Positions(log, kinds) :
          log'[i] = log[i] /\ i \in Positions(log', kinds)
  BY <1>1, KeepsMember
<1> QED
  BY <1>2, <1>3, <1>4 DEF Now

LEMMA ChildrenKept ==
  ASSUME WorkflowInv, ChildrenEndOnce, [Next]_vars
  PROVE  ChildrenEndOnce'
<1>1. CASE log' = log
  BY <1>1 DEF ChildrenEndOnce, Now, Before, Newest
<1>2. ASSUME NEW p, log' = Append(log, p), May(log, p) PROVE ChildrenEndOnce'
  <2>1. Before' = log /\ Newest' = p /\ (Now(ChildEnds)' => p.kind \in ChildEnds)
    BY <1>2, NowAndBefore
  <2> QED
    BY <1>2, <2>1 DEF ChildrenEndOnce, May
<1> QED
  BY <1>1, <1>2, StepKept DEF Kept, Grows

(***************************************************************************)
(* A child that has ended for its parent is not advanced again: whatever    *)
(* fails or crashes between its run and the photon that ends it, the        *)
(* parent's log has one end of it (runtime.cpp, TokmonRuntime::advance).    *)
(***************************************************************************)
THEOREM ChildrenEndOnceHolds == Spec => []ChildrenEndOnce
<1>1. Init => ChildrenEndOnce
  BY DEF Init, BeatInit, ChildrenEndOnce, Now
<1>2. WorkflowInv /\ ChildrenEndOnce /\ [Next]_vars => ChildrenEndOnce'
  BY ChildrenKept
<1> QED
  BY <1>1, <1>2, WorkflowInvHolds, PTL DEF Spec

LEMMA ResultsKept ==
  ASSUME WorkflowInv, ResultsBelongToTheAttempt, [Next]_vars
  PROVE  ResultsBelongToTheAttempt'
<1>1. CASE log' = log
  BY <1>1 DEF ResultsBelongToTheAttempt, Now, Before, Newest
<1>2. ASSUME NEW p, log' = Append(log, p), May(log, p) PROVE ResultsBelongToTheAttempt'
  <2>1. /\ Before' = log /\ Newest' = p /\ (Now(StepResults)' => p.kind \in StepResults)
        /\ \A kinds : \A i \in Positions(log, kinds) :
              log'[i] = log[i] /\ i \in Positions(log', kinds)
    BY <1>2, NowAndBefore
  <2> SUFFICES ASSUME p.kind \in StepResults, Nodes(log')[p.arg].does # "join"
               PROVE  LET d == LastDispatch(log, p.arg)
                          end == IF p.kind = "workflow.step-completed" THEN "act.completed"
                                                                      ELSE "act.failed"
                      IN  /\ \E i \in Positions(log, {end}) :
                                 log'[i].act.kind = "dispatch" /\ log'[i].act.of = d
                          /\ \A i \in Positions(log, StepResults) :
                                 log'[i].arg = p.arg => i < d
    BY <2>1 DEF ResultsBelongToTheAttempt, StepResults
  <2> DEFINE d == LastDispatch(log, p.arg)
             end == IF p.kind = "workflow.step-completed" THEN "act.completed" ELSE "act.failed"
  <2>2. Defined(log) # 0 => Nodes(log') = Nodes(log)
    <3>1. p.kind # "workflow.defined" /\ IsLog(log)
      BY DEF StepResults, WorkflowInv, LogInv
    <3> QED
      BY <1>2, <3>1, SameDefinition
  <2>3. Recordable(log, p)
    BY <1>2, <2>2 DEF May, IsJoin
  <2>4. PICK e \in DispatchEnds(log) : log[e].kind = end /\ log[e].act.of = d
    BY <2>3 DEF Recordable
  <2>5. e \in Positions(log, {end}) /\ log[e].act.kind = "dispatch"
    BY <2>4 DEF DispatchEnds, Positions
  <2>6. log'[e] = log[e]
    BY <2>1, <2>5
  <2>7. \A i \in Positions(log, StepResults) : log[i].arg = p.arg => i < d
    BY <2>3 DEF Recordable
  <2> QED
    BY <2>1, <2>4, <2>5, <2>6, <2>7
<1> QED
  BY <1>1, <1>2, StepKept DEF Kept, Grows

(***************************************************************************)
(* A result is recorded once for a dispatch, and it is what became of the   *)
(* Act of the step's last dispatch, whatever retries, new definitions and   *)
(* crashes come between (clotho_lens.cpp, state and view).                  *)
(***************************************************************************)
THEOREM ResultsBelongToTheAttemptHolds == Spec => []ResultsBelongToTheAttempt
<1>1. Init => ResultsBelongToTheAttempt
  BY DEF Init, BeatInit, ResultsBelongToTheAttempt, Now
<1>2. WorkflowInv /\ ResultsBelongToTheAttempt /\ [Next]_vars => ResultsBelongToTheAttempt'
  BY ResultsKept
<1> QED
  BY <1>1, <1>2, WorkflowInvHolds, PTL DEF Spec

(* The photon that a ray goes dark with changes nothing of its workflow.   *)
LEMMA DarkState ==
  ASSUME NEW l, IsLog(l), NEW p, p.kind = "ray.darkened", Defined(l) # 0
  PROVE  /\ Halted(Append(l, p)) = Halted(l)
         /\ Flying(Append(l, p)) = Flying(l) /\ Stopping(Append(l, p)) = Stopping(l)
         /\ Nodes(Append(l, p)) = Nodes(l)
         /\ \A n : /\ LastDispatch(Append(l, p), n) = LastDispatch(l, n)
                   /\ Succeeded(Append(l, p), n) = Succeeded(l, n)
                   /\ Skipped(Append(l, p), n) = Skipped(l, n)
                   /\ Recorded(Append(l, p), n) = Recorded(l, n)
                   /\ PassedOver(Append(l, p), n) = PassedOver(l, n)
<1> DEFINE a == Append(l, p)
<1>1. Silent(p) /\ p.kind # "workflow.defined"
  BY DEF Silent, StepKinds, StartsDispatch, EndsDispatch
<1>2. Defined(a) = Defined(l) /\ Nodes(a) = Nodes(l)
  BY <1>1, SameDefinition
<1>3. Flying(a) = Flying(l) /\ Stopping(a) = Stopping(l)
  BY <1>1, SilentState
<1>4. \A n : /\ LastDispatch(a, n) = LastDispatch(l, n)
             /\ Succeeded(a, n) = Succeeded(l, n) /\ Skipped(a, n) = Skipped(l, n)
             /\ Recorded(a, n) = Recorded(l, n) /\ Failed(a, n) = Failed(l, n)
             /\ Compensated(a, n) = Compensated(l, n)
  BY <1>1, SilentConcernsNone, OtherNodes
<1>5. ASSUME NEW kind \in {"workflow.paused", "workflow.resumed", "workflow.cancelled"}
      PROVE  Latest(a, {kind}) = Latest(l, {kind})
  <2> DEFINE last == Latest(a, {kind})
  <2>1. last = IF p.kind \in {kind} THEN Len(l) + 1 ELSE Latest(l, {kind})
    BY AppendLatest
  <2> HIDE DEF last
  <2>2. last = Latest(l, {kind})
    BY <2>1
  <2> QED
    BY <2>2 DEF last
<1> HIDE DEF a
<1>6. \A n : PassedOver(a, n) = PassedOver(l, n)
  BY <1>2, <1>4 DEF PassedOver
<1>7. Paused(a) = Paused(l) /\ Cancelled(a) = Cancelled(l)
  BY <1>5 DEF Paused, Cancelled
<1>8. Finished(a) = Finished(l)
  <2>1. /\ {n \in AllNodes : Succeeded(a, n)} = {n \in AllNodes : Succeeded(l, n)}
        /\ {n \in AllNodes : Skipped(a, n)} = {n \in AllNodes : Skipped(l, n)}
        /\ {n \in DOMAIN Nodes(a) : PassedOver(a, n)} = {n \in DOMAIN Nodes(l) : PassedOver(l, n)}
    BY <1>2, <1>4, <1>6
  <2> QED
    BY <1>2, <2>1 DEF Finished
<1>9. Halted(a) = Halted(l)
  BY <1>2, <1>7, <1>8 DEF Halted
<1> QED
  BY <1>2, <1>3, <1>4, <1>6, <1>9 DEF a

LEMMA DarkKept ==
  ASSUME WorkflowInv, DarkMeansSettled, [Next]_vars
  PROVE  DarkMeansSettled'
<1>1. CASE log' = log
  BY <1>1 DEF DarkMeansSettled, Now, Newest, StepStarts
<1>2. ASSUME NEW p, log' = Append(log, p), May(log, p) PROVE DarkMeansSettled'
  <2> DEFINE a == Append(log, p)
  <2>1. /\ Now({"ray.darkened"})' => p.kind \in {"ray.darkened"}
        /\ \A kinds : \A i \in Positions(log, kinds) :
              log'[i] = log[i] /\ i \in Positions(log', kinds)
    BY <1>2, NowAndBefore
  <2>2. SUFFICES ASSUME p.kind = "ray.darkened", ~Halted(a), OneByOne(a), Stopping(a) = {}
               PROVE  LET stuck == Flying(a)
                      IN  /\ \A n \in stuck :
                             /\ a[LastDispatch(a, n)].arg.concrete <=>
                                   {i \in StepStarts(n)' : a[i].act.of = LastDispatch(a, n)} # {}
                             /\ \A i \in Positions(a, {"act.completed", "act.failed"}) :
                                   a[i].act.kind = "dispatch" => a[i].act.of # LastDispatch(a, n)
                          /\ stuck = {} => \A n \in DOMAIN Nodes(a) :
                             \/ Recorded(a, n)
                             \/ \E d \in Nodes(a)[n].needs :
                                   ~Succeeded(a, d) /\ ~Skipped(a, d) /\ ~PassedOver(a, d)
    BY <1>2, <2>1 DEF DarkMeansSettled, Flying
  <2>3. IsLog(log) /\ p.kind # "workflow.defined"
    BY <2>2 DEF WorkflowInv, LogInv
  <2>4. OneByOne(log) /\ Defined(log) # 0
    BY <2>2, <2>3, SameDefinition, DefinedOnce
  <2>5. /\ Halted(a) = Halted(log) /\ Flying(a) = Flying(log) /\ Stopping(a) = Stopping(log)
        /\ Nodes(a) = Nodes(log)
        /\ \A n : /\ LastDispatch(a, n) = LastDispatch(log, n)
                  /\ Succeeded(a, n) = Succeeded(log, n) /\ Skipped(a, n) = Skipped(log, n)
                  /\ Recorded(a, n) = Recorded(log, n) /\ PassedOver(a, n) = PassedOver(log, n)
    BY <2>2, <2>3, <2>4, DarkState
  <2>6. Settled(log)
    BY <1>2, <2>2 DEF May
  <2>7. /\ \A n \in Flying(log) :
               /\ log[LastDispatch(log, n)].arg.concrete <=>
                     \E i \in StartsOfDispatch(log, LastDispatch(log, n)) :
                         log[i].act.arg = [node |-> n, compensation |-> FALSE]
               /\ EndsOfDispatch(log, LastDispatch(log, n)) = {}
        /\ Flying(log) = {} => \A n \in DOMAIN Nodes(log) :
               \/ Recorded(log, n)
               \/ \E d \in Nodes(log)[n].needs :
                     ~Succeeded(log, d) /\ ~Skipped(log, d) /\ ~PassedOver(log, d)
    BY <2>2, <2>4, <2>5, <2>6 DEF Settled
  <2>8. DispatchEnds(a) = DispatchEnds(log)
        /\ \A d : EndsOfDispatch(a, d) = EndsOfDispatch(log, d)
    <3>1. Silent(p)
      BY <2>2 DEF Silent, StepKinds, StartsDispatch, EndsDispatch
    <3> QED
      BY <2>3, <3>1, SilentState
  <2>9. ASSUME NEW n \in Flying(log)
        PROVE  /\ a[LastDispatch(a, n)].arg.concrete <=>
                     {i \in StepStarts(n)' : a[i].act.of = LastDispatch(a, n)} # {}
               /\ \A i \in Positions(a, {"act.completed", "act.failed"}) :
                     a[i].act.kind = "dispatch" => a[i].act.of # LastDispatch(a, n)
    <3> DEFINE d == LastDispatch(log, n)
           arg == [node |-> n, compensation |-> FALSE]
           starts == {i \in StepStarts(n)' : a[i].act.of = d}
    <3>1. d \in DOMAIN log /\ a[d] = log[d]
      BY <2>3, <2>9, InFlightIsDispatched, LogMembers DEF Flying, Positions
    <3>2. starts = {i \in DispatchStarts(a) : a[i].act.of = d /\ a[i].act.arg = arg}
      BY <1>2 DEF StepStarts, DispatchStarts
    <3>3. /\ \A e : StartsOfDispatch(a, e) = StartsOfDispatch(log, e)
          /\ \A i \in StartsOfDispatch(log, d) : a[i] = log[i]
      <4>1. ~StartsDispatch(p)
        BY <2>2 DEF StartsDispatch
      <4>2. \A e : StartsOfDispatch(a, e) = StartsOfDispatch(log, e)
        BY <2>3, <4>1, AppendOfDispatch
      <4>3. \A i \in DispatchStarts(log) : a[i] = log[i]
        BY <2>3, LogMembers
      <4> HIDE DEF a, d
      <4> QED
        BY <4>2, <4>3 DEF StartsOfDispatch
    <3>4. a[d].arg.concrete <=> starts # {}
      <4>1. starts = {i \in StartsOfDispatch(a, d) : a[i].act.arg = arg}
        BY <3>2 DEF StartsOfDispatch
      <4>2. log[d].arg.concrete <=> \E i \in StartsOfDispatch(log, d) : log[i].act.arg = arg
        BY <2>7, <2>9
      <4> HIDE DEF starts, a, d
      <4>3. starts # {} <=> \E i \in StartsOfDispatch(log, d) : log[i].act.arg = arg
        BY <3>3, <4>1
      <4> QED
        BY <3>1, <4>2, <4>3
    <3>5. EndsOfDispatch(a, d) = {}
      BY <2>7, <2>8, <2>9
    <3>6. \A k \in Positions(a, {"act.completed", "act.failed"}) :
              a[k].act.kind = "dispatch" => a[k].act.of # d
      BY <3>5 DEF EndsOfDispatch, DispatchEnds
    <3>7. LastDispatch(a, n) = d
      BY <2>5
    <3> HIDE DEF a, d, starts
    <3> QED
      BY <3>4, <3>6, <3>7 DEF starts
  <2> HIDE DEF a
  <2>10. Flying(a) = {} => \A n \in DOMAIN Nodes(a) :
            \/ Recorded(a, n)
            \/ \E d \in Nodes(a)[n].needs :
                  ~Succeeded(a, d) /\ ~Skipped(a, d) /\ ~PassedOver(a, d)
    BY <2>5, <2>7
  <2>11. \A n \in Flying(a) :
            /\ a[LastDispatch(a, n)].arg.concrete <=>
                  {i \in StepStarts(n)' : a[i].act.of = LastDispatch(a, n)} # {}
            /\ \A i \in Positions(a, {"act.completed", "act.failed"}) :
                  a[i].act.kind = "dispatch" => a[i].act.of # LastDispatch(a, n)
    BY <2>5, <2>9
  <2> QED
    BY <2>10, <2>11
<1> QED
  BY <1>1, <1>2, StepKept DEF Kept, Grows

(***************************************************************************)
(* The one workflow of a ray whose steps go one by one is not forgotten:    *)
(* when the ray goes dark, each step has a result, is held up by a failure, *)
(* or is in flight: its Act was started and has no end, or Techor           *)
(* rejected its dispatch and nothing was started (clotho_lens, view;        *)
(* techor_lens.cpp:331-362).                                                *)
(***************************************************************************)
THEOREM DarkMeansSettledHolds == Spec => []DarkMeansSettled
<1>1. Init => DarkMeansSettled
  BY DEF Init, BeatInit, DarkMeansSettled, Now
<1>2. WorkflowInv /\ DarkMeansSettled /\ [Next]_vars => DarkMeansSettled'
  BY DarkKept
<1> QED
  BY <1>1, <1>2, WorkflowInvHolds, PTL DEF Spec
=============================================================================
