---------------------------- MODULE AgentProofs -----------------------------
(***************************************************************************)
(* What TLAPS proves of one ray of the agent, for any tools, policies,     *)
(* answers of the model and budgets: the model is not asked twice for the  *)
(* same thing, results of tools reach it, grants are used once, and a turn *)
(* that has gone dark is told as it ended.                                 *)
(***************************************************************************)
EXTENDS Agent, FiniteSetTheorems, SequenceTheorems, WellFoundedInduction, TLAPS
(***************************************************************************)
(* The invariant of the log.  What the model answers follows a request that *)
(* is more recent than any result of a tool, the request follows an input; *)
(* a grant has all its approvers.                                          *)
(***************************************************************************)
IsLog(l) == l \in Seq({l[i] : i \in DOMAIN l})

Asked(l) == Latest(l, {"model.requested"})
ModelAnswers == {"model.tool-call", "assistant.message"}

AnswersWereAsked(l) ==
    Latest(l, ModelAnswers) > Latest(l, ToolResults) => Asked(l) > Latest(l, ToolResults)
CallsHaveInput(l) == Latest(l, {"model.tool-call"}) > 0 => Latest(l, {"user.input"}) > 0

IsDecision(d) == d.kind = PolicyKind(d.act) /\ d.scope \in {"one_shot", "session"}

\* By position g an approver has spoken for the Act of decision d.
SpokeBy(l, d, approver, g) ==
    \E i \in Positions(l, {"approval.stage-granted", "approval.granted"}) :
        i <= g /\ l[i].arg.act = d.act /\ l[i].arg.approver = approver

DecisionsAreTyped(l) == \A i \in Positions(l, Decisions) : IsDecision(l[i].arg)
GrantsAreWhole(l) ==
    \A g \in Positions(l, {"approval.granted"}) :
        \A approver \in l[g].arg.required : SpokeBy(l, l[g].arg, approver, g)

LogInv(l) == /\ IsLog(l) /\ AnswersWereAsked(l) /\ CallsHaveInput(l)
             /\ DecisionsAreTyped(l) /\ GrantsAreWhole(l)

(***************************************************************************)
(* What holds when a photon is appended.                                   *)
(***************************************************************************)
AskedOnce(l) == Asked(l) <= Latest(l, {"model.completed", "user.input", "user.steering"})

NoResultIsUnread(l) ==
    ~Terminated(l) /\ Latest(l, {"model.failed"}) < TurnStart(l) =>
      \A call \in Positions(l, {"model.tool-call"}) :
        TurnStart(l) < call /\ call < ResultOf(l) => Asked(l) > ResultOf(l)

Granted(l, act) ==
    EvaluatePolicy(PolicyKind(act)) = "ask" =>
      \E g \in Positions(l, {"approval.granted"}) :
         /\ \A approver \in l[g].arg.required : SpokeBy(l, l[g].arg, approver, g)
         /\ \/ l[g].arg.scope = "session" /\ l[g].arg.kind = PolicyKind(act)
            \/ /\ l[g].arg.act = act
               /\ \A s \in StartsOf(l, act) : s < g

\* The approvers of a decision are the one who gives it now, and those before.
IsWhole(l, d) ==
    \A approver \in d.required :
        approver = d.approver \/ SpokeBy(l, d, approver, Len(l))

WasAsked(l) == Asked(l) > Latest(l, ToolResults) /\ Latest(l, {"user.input"}) > 0

May(l, p) ==
    /\ p.kind = "model.requested" => AskedOnce(l)
    /\ p.kind \in ModelAnswers => WasAsked(l)
    /\ p.kind = "ray.darkened" => NoResultIsUnread(l)
    /\ p.kind = "act.started" => Granted(l, p.act)
    /\ p.kind \in Decisions => IsDecision(p.arg)
    /\ p.kind = "approval.granted" => IsWhole(l, p.arg)

(***************************************************************************)
(* The invariant of the frame of advance.  While a model call is carried   *)
(* out its request is the last thing that happened to the tools; inside    *)
(* the loop the last request of the turn has completed.                    *)
(***************************************************************************)
ModelPhotons == ModelAnswers \cup {"model.usage", "model.completed"}
OtherPhotons == ToolResults \cup {"ray.cancel-requested", "ray.budget-exhausted",
                                  "ray.terminated", "user.steering", "approval.denied",
                                  "approval.granted", "approval.stage-granted"}

Answered(l) ==
    Latest(l, {"model.failed"}) < TurnStart(l) =>
        Asked(l) <= TurnStart(l) \/ Latest(l, {"model.completed"}) > Asked(l)

Results == {"completed", "failed", "rejected", "error", "cancelled"}

IsFrame(b) ==
    /\ DOMAIN b = {"pc", "beats", "act", "todo", "result", "once"}
    /\ b.pc \in {"idle", "check", "view", "dark", "run", "model", "emit", "finish", "abort",
                "recover"}
    /\ b.once \in BOOLEAN
    /\ IsLog(b.todo)
    /\ b.pc \in {"emit", "finish"} => b.result \in Results

\* Places of a model call.
ModelFrame(l, b) ==
    /\ Latest(l, {"user.input"}) > 0
    /\ b.pc = "run" => AskedOnce(l)
    /\ b.pc \in {"model", "emit"} => WasAsked(l)
    /\ b.pc = "emit" => /\ b.result = "completed"
                        /\ \A i \in DOMAIN b.todo : b.todo[i].kind \in ModelPhotons
                        /\ IF b.todo = <<>> THEN Latest(l, {"model.completed"}) > Asked(l)
                           ELSE b.todo[Len(b.todo)].kind = "model.completed"
    /\ b.pc = "finish" => /\ b.result # "rejected"
                          /\ b.result = "completed" =>
                                 Latest(l, {"model.completed"}) > Asked(l)
                          /\ b.result = "failed" =>
                                 Latest(l, {"model.failed"}) > TurnStart(l)

OtherFrame(l, b) ==
    /\ b.pc # "model"
    /\ b.pc = "run" /\ b.act.kind = "approval.decide" => IsDecision(b.act.arg.decision)
    /\ b.pc = "emit" =>
          \A i \in DOMAIN b.todo :
              /\ b.todo[i].kind \in OtherPhotons
              /\ b.todo[i].kind \in Decisions => IsDecision(b.todo[i].arg)
              /\ b.todo[i].kind = "approval.granted" => IsWhole(l, b.todo[i].arg)
    /\ ~b.once => Answered(l)

FrameInv(l, b) ==
    /\ IsFrame(b)
    /\ b.pc \in {"check", "view"} => Answered(l)
    /\ b.pc \in {"run", "model", "emit", "finish"} =>
          IF b.act.kind = "model.call" THEN ModelFrame(l, b) ELSE OtherFrame(l, b)

AgentInv == LogInv(log) /\ FrameInv(log, beat)
-----------------------------------------------------------------------------
(* The last photon of some kinds *)

(* A set of numbers has a least one, and a largest one if it is bounded.   *)
LEMMA Least == ASSUME NEW T \in SUBSET Nat, T # {} PROVE \E m \in T : \A k \in T : m <= k
<1>1. PICK m \in T : \A k \in T : ~(<<k, m>> \in OpToRel(<, Nat))
  BY NatLessThanWellFounded, WFMin
<1>2. \A k \in T : ~(k < m)
  BY <1>1 DEF OpToRel
<1> QED
  BY <1>2

LEMMA Largest ==
  ASSUME NEW S \in SUBSET Nat, S # {}, NEW n \in Nat, \A x \in S : x <= n
  PROVE  Max(S) \in S /\ \A x \in S : x <= Max(S)
<1> DEFINE T == {m \in Nat : \A x \in S : x <= m}
<1>1. T \in SUBSET Nat /\ T # {}
  OBVIOUS
<1>2. PICK m \in T : \A k \in T : m <= k
  BY <1>1, Least
<1>3. m \in S
  <2> SUFFICES ASSUME m \notin S PROVE FALSE
    OBVIOUS
  <2>1. \A x \in S : x < m
    BY <1>2
  <2>2. PICK y \in S : y \in Nat /\ y < m
    BY <2>1
  <2>3. \A x \in S : x <= m - 1
    BY <2>1
  <2>4. m - 1 \in T
    BY <2>2, <2>3
  <2> QED
    BY <1>2, <2>4
<1>4. \E x \in S : \A y \in S : x >= y
  BY <1>2, <1>3
<1> QED
  BY <1>4 DEF Max

(* A sequence whose members come from some set is one of its own members.  *)
LEMMA OwnMembers == ASSUME NEW S, NEW l \in Seq(S) PROVE IsLog(l)
<1>1. PICK n \in Nat : l \in [1..n -> S]
  BY SeqDef
<1>2. l \in [1..n -> {l[i] : i \in DOMAIN l}]
  BY <1>1
<1>3. l \in Seq({l[i] : i \in DOMAIN l})
  BY <1>2, SeqDef
<1> QED
  BY <1>3 DEF IsLog

LEMMA FunctionIsSeq ==
  ASSUME NEW S, NEW n \in Nat, NEW f \in [1..n -> S]
  PROVE  f \in Seq(S)
BY SeqDef

LEMMA LogLen == ASSUME NEW l, IsLog(l) PROVE Len(l) \in Nat /\ DOMAIN l = 1..Len(l)
BY DEF IsLog

LEMMA LatestIsLast ==
  ASSUME NEW l, IsLog(l), NEW kinds
  PROVE  /\ Latest(l, kinds) \in 0..Len(l)
         /\ Latest(l, kinds) # 0 => Latest(l, kinds) \in Positions(l, kinds)
         /\ \A i \in Positions(l, kinds) : i <= Latest(l, kinds)
<1> DEFINE S == Positions(l, kinds) \cup {0}
<1>1. S \in SUBSET Nat /\ S # {} /\ \A x \in S : x <= Len(l)
  BY LogLen DEF Positions
<1>2. Max(S) \in S /\ \A x \in S : x <= Max(S)
  BY <1>1, LogLen, Largest
<1> QED
  BY <1>1, <1>2, LogLen DEF Latest, Positions

(* One more photon.                                                        *)
LEMMA AppendIsLog ==
  ASSUME NEW l, IsLog(l), NEW p
  PROVE  /\ IsLog(Append(l, p)) /\ Len(Append(l, p)) = Len(l) + 1
         /\ Append(l, p)[Len(l) + 1] = p
         /\ \A i \in 1..Len(l) : Append(l, p)[i] = l[i]
<1> DEFINE T == {l[i] : i \in DOMAIN l} \cup {p}
           a == Append(l, p)
<1>1. l \in Seq(T)
  BY SeqMonotonic DEF IsLog
<1>2. p \in T
  OBVIOUS
<1> HIDE DEF T
<1>3. /\ a \in Seq(T) /\ Len(a) = Len(l) + 1 /\ a[Len(l) + 1] = p
      /\ \A i \in 1..Len(l) : a[i] = l[i]
  BY <1>1, <1>2, AppendProperties
<1> HIDE DEF a
<1>4. IsLog(a)
  BY <1>3, OwnMembers
<1> QED
  BY <1>3, <1>4 DEF a

LEMMA AppendPositions ==
  ASSUME NEW l, IsLog(l), NEW p, NEW kinds
  PROVE  Positions(Append(l, p), kinds) =
           Positions(l, kinds) \cup (IF p.kind \in kinds THEN {Len(l) + 1} ELSE {})
<1> DEFINE a == Append(l, p)
<1>1. /\ IsLog(a) /\ Len(a) = Len(l) + 1 /\ a[Len(l) + 1] = p
      /\ \A i \in 1..Len(l) : a[i] = l[i]
  BY AppendIsLog
<1> HIDE DEF a
<1>2. DOMAIN a = 1..(Len(l) + 1) /\ DOMAIN l = 1..Len(l) /\ Len(l) \in Nat
  BY <1>1, LogLen
<1>3. Positions(a, kinds) = Positions(l, kinds) \cup (IF p.kind \in kinds THEN {Len(l) + 1} ELSE {})
  BY <1>1, <1>2 DEF Positions
<1> QED
  BY <1>3 DEF a

LEMMA AppendLatest ==
  ASSUME NEW l, IsLog(l), NEW p, NEW kinds
  PROVE  Latest(Append(l, p), kinds) =
           IF p.kind \in kinds THEN Len(l) + 1 ELSE Latest(l, kinds)
<1>1. /\ IsLog(Append(l, p)) /\ Len(Append(l, p)) = Len(l) + 1 /\ Len(l) \in Nat
  BY AppendIsLog, LogLen
<1>2. CASE p.kind \in kinds
  <2>1. Len(l) + 1 \in Positions(Append(l, p), kinds)
    BY <1>2, AppendPositions
  <2> DEFINE n == Latest(Append(l, p), kinds)
  <2>2. n \in 0..(Len(l) + 1) /\ Len(l) + 1 <= n
    BY <1>1, <2>1, LatestIsLast
  <2> HIDE DEF n
  <2>3. n = Len(l) + 1
    BY <1>1, <2>2
  <2> QED
    BY <1>2, <2>3 DEF n
<1>3. CASE p.kind \notin kinds
  <2>1. Positions(Append(l, p), kinds) = Positions(l, kinds)
    <3> DEFINE after == Positions(Append(l, p), kinds)
    <3>1. after = Positions(l, kinds) \cup (IF p.kind \in kinds THEN {Len(l) + 1} ELSE {})
      BY AppendPositions
    <3> HIDE DEF after
    <3>2. after = Positions(l, kinds)
      BY <1>3, <3>1
    <3> QED
      BY <3>2 DEF after
  <2> QED
    BY <1>3, <2>1 DEF Latest
<1> QED
  BY <1>2, <1>3
-----------------------------------------------------------------------------
(* The invariant of the log *)

(* Photons of different kinds are different photons.                       *)
LEMMA LatestDiffer ==
  ASSUME NEW l, IsLog(l), NEW K, NEW L, K \cap L = {}, Latest(l, K) = Latest(l, L)
  PROVE  Latest(l, K) = 0
<1> SUFFICES ASSUME Latest(l, K) # 0 PROVE FALSE
  OBVIOUS
<1>1. Latest(l, K) \in Positions(l, K) /\ Latest(l, K) \in Positions(l, L)
  BY LatestIsLast
<1> QED
  BY <1>1 DEF Positions

(* What was said stays said.                                               *)
LEMMA SpokeStays ==
  ASSUME NEW l, IsLog(l), NEW p, NEW d, NEW approver, NEW g, SpokeBy(l, d, approver, g)
  PROVE  SpokeBy(Append(l, p), d, approver, g)
<1> DEFINE K == {"approval.stage-granted", "approval.granted"}
<1>1. PICK i \in Positions(l, K) : i <= g /\ l[i].arg.act = d.act /\ l[i].arg.approver = approver
  BY DEF SpokeBy
<1>2. i \in Positions(Append(l, p), K)
  BY AppendPositions
<1>3. Append(l, p)[i] = l[i]
  BY AppendIsLog, LogLen DEF Positions
<1> QED
  BY <1>1, <1>2, <1>3 DEF SpokeBy

LEMMA LogKept ==
  ASSUME NEW l, LogInv(l), NEW p, May(l, p)
  PROVE  LogInv(Append(l, p))
<1> DEFINE a == Append(l, p)
           n == Len(l) + 1
<1>1. IsLog(l) /\ Len(l) \in Nat /\ DOMAIN l = 1..Len(l)
  BY LogLen DEF LogInv
<1>2. /\ IsLog(a) /\ Len(a) = n /\ a[n] = p
      /\ \A i \in 1..Len(l) : a[i] = l[i]
  BY <1>1, AppendIsLog
<1>3. \A kinds : /\ Latest(a, kinds) = IF p.kind \in kinds THEN n ELSE Latest(l, kinds)
                 /\ Latest(l, kinds) \in 0..Len(l)
  BY <1>1, AppendLatest, LatestIsLast
<1>4. \A kinds : \A i \in Positions(a, kinds) :
         \/ i \in Positions(l, kinds) /\ a[i] = l[i] /\ i \in 1..Len(l)
         \/ i = n /\ p.kind \in kinds
  BY <1>1, <1>2, AppendPositions DEF Positions
<1>5. \A d, approver, g : SpokeBy(l, d, approver, g) => SpokeBy(a, d, approver, g)
  BY <1>1, SpokeStays
<1>6. p.kind \in {"approval.stage-granted", "approval.granted"} =>
        n \in Positions(a, {"approval.stage-granted", "approval.granted"})
  BY <1>1, AppendPositions
<1> HIDE DEF a
<1>7. AnswersWereAsked(a)
  <2>1. CASE p.kind \in ToolResults
    <3>1. p.kind \notin ModelAnswers
      BY <2>1 DEF ToolResults, ModelAnswers
    <3> QED
      BY <1>1, <1>3, <2>1, <3>1 DEF AnswersWereAsked
  <2>2. CASE p.kind \in ModelAnswers
    <3>1. p.kind \notin ToolResults /\ p.kind # "model.requested"
      BY <2>2 DEF ToolResults, ModelAnswers
    <3>2. Asked(l) > Latest(l, ToolResults)
      BY <2>2 DEF May, WasAsked
    <3> QED
      BY <1>3, <3>1, <3>2 DEF AnswersWereAsked, Asked
  <2>3. CASE p.kind \notin ToolResults /\ p.kind \notin ModelAnswers
    BY <1>1, <1>3, <2>3 DEF AnswersWereAsked, Asked, LogInv
  <2> QED
    BY <2>1, <2>2, <2>3
<1>8. CallsHaveInput(a)
  BY <1>1, <1>3 DEF CallsHaveInput, May, WasAsked, ModelAnswers, LogInv
<1>9. DecisionsAreTyped(a)
  BY <1>2, <1>4 DEF DecisionsAreTyped, LogInv, May
<1>10. GrantsAreWhole(a)
  <2> SUFFICES ASSUME NEW g \in Positions(a, {"approval.granted"}), NEW approver \in a[g].arg.required
               PROVE  SpokeBy(a, a[g].arg, approver, g)
    BY DEF GrantsAreWhole
  <2>1. CASE g \in Positions(l, {"approval.granted"}) /\ a[g] = l[g]
    BY <1>5, <2>1 DEF LogInv, GrantsAreWhole
  <2>2. CASE g = n /\ p.kind = "approval.granted"
    <3>1. a[g] = p /\ IsWhole(l, p.arg)
      BY <1>2, <2>2 DEF May
    <3>2. CASE approver = p.arg.approver
      BY <1>1, <1>2, <1>6, <2>2, <3>1, <3>2 DEF SpokeBy
    <3>3. CASE SpokeBy(l, p.arg, approver, Len(l))
      <4>1. SpokeBy(a, p.arg, approver, Len(l))
        BY <1>5, <3>3
      <4>2. \A i \in Positions(a, {"approval.stage-granted", "approval.granted"}) : i \in Nat
        BY <1>1, <1>4
      <4> QED
        BY <1>1, <2>2, <3>1, <4>1, <4>2 DEF SpokeBy
    <3> QED
      BY <3>1, <3>2, <3>3 DEF IsWhole
  <2> QED
    BY <1>4, <2>1, <2>2
<1> QED
  BY <1>2, <1>7, <1>8, <1>9, <1>10 DEF LogInv, a
-----------------------------------------------------------------------------
(* What a step may do *)

LEMMA LatestGrows ==
  ASSUME NEW l, IsLog(l), NEW K, NEW L, K \subseteq L
  PROVE  Latest(l, K) <= Latest(l, L)
<1>1. Latest(l, K) \in Nat /\ Latest(l, L) \in Nat
  BY LogLen, LatestIsLast
<1>2. CASE Latest(l, K) # 0
  <2>1. Latest(l, K) \in Positions(l, L)
    BY <1>2, LatestIsLast DEF Positions
  <2> QED
    BY <2>1, LatestIsLast
<1> QED
  BY <1>1, <1>2

(* A step leaves the log as it is, or appends one photon that it may append. *)
Grows(l2) == l2 = log \/ \E p : l2 = Append(log, p) /\ May(log, p)
Kept == Grows(log') /\ FrameInv(log', beat')

LEMMA NoPhotons == IsLog(<<>>)
BY EmptySeq DEF IsLog

LEMMA IdleFrame == ASSUME NEW l PROVE FrameInv(l, Idle)
BY NoPhotons DEF FrameInv, IsFrame, Idle

LEMMA AppendsKept ==
  ASSUME NEW p, NEW frame, NEW failed, Appends(p, frame, failed), May(log, p),
         FrameInv(Append(log, p), frame), FrameInv(log, failed)
  PROVE  Kept
BY DEF Appends, Kept, Grows

(* Most photons are not restricted.                                        *)
LEMMA MayBeSaid ==
  ASSUME NEW l, NEW p,
         p.kind \notin {"model.requested", "ray.darkened", "act.started"}
                       \cup ModelAnswers \cup Decisions
  PROVE  May(l, p)
BY DEF May, Decisions

LEMMA AnsweredStays ==
  ASSUME NEW l, IsLog(l), Answered(l), NEW p, p.kind # "model.requested"
  PROVE  Answered(Append(l, p))
<1>1. \A kinds : /\ Latest(Append(l, p), kinds) =
                        IF p.kind \in kinds THEN Len(l) + 1 ELSE Latest(l, kinds)
                 /\ Latest(l, kinds) \in 0..Len(l)
  BY AppendLatest, LatestIsLast
<1>2. Len(l) \in Nat
  BY LogLen
<1> QED
  BY <1>1, <1>2 DEF Answered, Asked, TurnStart

LEMMA WholeStays ==
  ASSUME NEW l, IsLog(l), NEW p, NEW d, IsWhole(l, d)
  PROVE  IsWhole(Append(l, p), d)
<1> SUFFICES ASSUME NEW approver \in d.required, approver # d.approver
             PROVE  SpokeBy(Append(l, p), d, approver, Len(Append(l, p)))
  BY DEF IsWhole
<1>1. SpokeBy(l, d, approver, Len(l))
  BY DEF IsWhole
<1>2. SpokeBy(Append(l, p), d, approver, Len(l))
  BY <1>1, SpokeStays
<1>3. Len(l) \in Nat /\ Len(Append(l, p)) = Len(l) + 1
  BY LogLen, AppendIsLog
<1>4. \A i \in Positions(Append(l, p), {"approval.stage-granted", "approval.granted"}) : i \in Nat
  BY AppendIsLog, LogLen DEF Positions
<1> DEFINE a == Append(l, p)
<1>5. /\ SpokeBy(a, d, approver, Len(l)) /\ Len(l) \in Nat /\ Len(a) = Len(l) + 1
      /\ \A i \in Positions(a, {"approval.stage-granted", "approval.granted"}) : i \in Nat
  BY <1>2, <1>3, <1>4
<1> HIDE DEF a
<1>6. SpokeBy(a, d, approver, Len(a))
  BY <1>5 DEF SpokeBy
<1> QED
  BY <1>6 DEF a

LEMMA WasAskedStays ==
  ASSUME NEW l, IsLog(l), WasAsked(l), NEW p, p.kind \in ModelPhotons
  PROVE  WasAsked(Append(l, p))
<1>1. p.kind \notin ToolResults /\ p.kind # "model.requested" /\ p.kind # "user.input"
  BY DEF ModelPhotons, ModelAnswers, ToolResults
<1>2. \A kinds : Latest(Append(l, p), kinds) =
                    IF p.kind \in kinds THEN Len(l) + 1 ELSE Latest(l, kinds)
  BY AppendLatest
<1> QED
  BY <1>1, <1>2 DEF WasAsked, Asked

LEMMA EndsFrame ==
  ASSUME IsFrame(beat), NEW result \in Results
  PROVE  /\ IsFrame(Ends(result)) /\ Ends(result).pc = "finish"
         /\ Ends(result).act = beat.act /\ Ends(result).once = beat.once
         /\ Ends(result).result = result
BY NoPhotons DEF IsFrame, Ends
(* The rest of a sequence, and its last position.                          *)
LEMMA TailIsLog ==
  ASSUME NEW s, IsLog(s), s # <<>>
  PROVE  /\ Head(s) = s[1] /\ 1 \in DOMAIN s /\ Len(s) \in Nat /\ DOMAIN s = 1..Len(s)
         /\ IsLog(Tail(s)) /\ Len(Tail(s)) = Len(s) - 1 /\ DOMAIN Tail(s) = 1..(Len(s) - 1)
         /\ \A i \in DOMAIN Tail(s) : Tail(s)[i] = s[i + 1]
<1> DEFINE T == {s[i] : i \in DOMAIN s}
           r == Tail(s)
<1>1. s \in Seq(T)
  BY DEF IsLog
<1> HIDE DEF T
<1>2. /\ r \in Seq(T) /\ Len(r) = Len(s) - 1
      /\ \A i \in 1..Len(r) : r[i] = s[i + 1]
  BY <1>1, HeadTailProperties
<1>3. Len(s) \in Nat \ {0} /\ DOMAIN s = 1..Len(s)
  BY <1>1, EmptySeq, LenProperties
<1>4. Head(s) = s[1]
  BY <1>1
<1> HIDE DEF r
<1>5. IsLog(r)
  BY <1>2, OwnMembers
<1>6. DOMAIN r = 1..Len(r)
  BY <1>2, LenProperties
<1> QED
  BY <1>2, <1>3, <1>4, <1>5, <1>6 DEF r

LEMMA EmptyLen == Len(<<>>) = 0
BY EmptySeq

LEMMA LastPosition ==
  ASSUME NEW s, IsLog(s), s # <<>>
  PROVE  Len(s) \in DOMAIN s
BY TailIsLog
-----------------------------------------------------------------------------
(* The engine's steps *)

LEMMA SubmitKept ==
  ASSUME AgentInv, NEW arg, Submit(arg)
  PROVE  Kept
<1> DEFINE p == Said("user.input", arg)
           frame == [Idle EXCEPT !.pc = "check"]
<1>1. p.kind = "user.input" /\ IsLog(log) /\ Len(log) \in Nat
  BY LogLen DEF Said, Photon, AgentInv, LogInv
<1>2. May(log, p)
  BY <1>1, MayBeSaid DEF ModelAnswers, Decisions
<1>3. Answered(Append(log, p))
  <2>1. Asked(Append(log, p)) = Asked(log) /\ TurnStart(Append(log, p)) = Len(log) + 1
    BY <1>1, AppendLatest DEF Asked, TurnStart
  <2>2. Asked(log) \in 0..Len(log)
    BY <1>1, LatestIsLast DEF Asked
  <2> QED
    BY <1>1, <2>1, <2>2 DEF Answered
<1>4. FrameInv(Append(log, p), frame)
  BY <1>3, NoPhotons DEF FrameInv, IsFrame, Idle
<1>5. Appends(p, frame, Idle)
  BY DEF Submit
<1> QED
  BY <1>2, <1>4, <1>5, IdleFrame, AppendsKept

LEMMA CheckKept ==
  ASSUME AgentInv, Check
  PROVE  Kept
<1>1. CASE Appends(Said("ray.budget-exhausted", 0), Idle, Idle)
  <2>1. May(log, Said("ray.budget-exhausted", 0))
    BY MayBeSaid DEF ModelAnswers, Decisions, Said, Photon
  <2> QED
    BY <1>1, <2>1, IdleFrame, AppendsKept
<1>2. CASE Appends(Said("ray.cancelled", 0), Idle, Idle)
  <2>1. May(log, Said("ray.cancelled", 0))
    BY MayBeSaid DEF ModelAnswers, Decisions, Said, Photon
  <2> QED
    BY <1>2, <2>1, IdleFrame, AppendsKept
<1>3. CASE beat' = [beat EXCEPT !.pc = "view"] /\ log' = log
  <2>1. Answered(log)
    BY DEF Check, AgentInv, FrameInv
  <2>2. FrameInv(log, [beat EXCEPT !.pc = "view"])
    BY <2>1 DEF AgentInv, FrameInv, IsFrame
  <2> QED
    BY <1>3, <2>2 DEF Kept, Grows
<1> QED
  BY <1>1, <1>2, <1>3 DEF Check

LEMMA AbortKept ==
  ASSUME AgentInv, Abort
  PROVE  Kept
<1>1. May(log, Said("ray.cancelled", 0))
  BY MayBeSaid DEF ModelAnswers, Decisions, Said, Photon
<1>2. Appends(Said("ray.cancelled", 0), Idle, Idle)
  BY DEF Abort
<1> QED
  BY <1>1, <1>2, IdleFrame, AppendsKept

LEMMA ReturnKept ==
  ASSUME AgentInv, Return
  PROVE  Kept
BY IdleFrame DEF Return, Kept, Grows

LEMMA EmitKept ==
  ASSUME AgentInv, Emit
  PROVE  Kept
<1>0. /\ IsLog(log) /\ Len(log) \in Nat /\ IsFrame(beat) /\ beat.pc = "emit"
      /\ IF beat.act.kind = "model.call" THEN ModelFrame(log, beat) ELSE OtherFrame(log, beat)
  BY LogLen DEF Emit, AgentInv, LogInv, FrameInv
<1>1. ASSUME NEW result, \/ result \in {"error", "cancelled"}
                         \/ result = beat.result /\ beat.todo = <<>>
      PROVE  FrameInv(log, Ends(result))
  <2> DEFINE b == Ends(result)
  <2>0. result \in Results
    BY <1>0, <1>1 DEF IsFrame, Results
  <2>1. /\ IsFrame(b) /\ b.pc = "finish" /\ b.act = beat.act /\ b.once = beat.once
        /\ b.result = result
    BY <1>0, <2>0, EndsFrame
  <2> HIDE DEF b
  <2>2. CASE beat.act.kind = "model.call"
    <3>1. ModelFrame(log, b)
      BY <1>0, <1>1, <2>1, <2>2 DEF ModelFrame
    <3> QED
      BY <2>1, <2>2, <3>1 DEF FrameInv, b
  <2>3. CASE beat.act.kind # "model.call"
    <3>1. OtherFrame(log, b)
      BY <1>0, <2>1, <2>3 DEF OtherFrame
    <3> QED
      BY <2>1, <2>3, <3>1 DEF FrameInv, b
  <2> QED
    BY <2>2, <2>3
<1>2. CASE beat.todo = <<>> /\ beat' = Ends(beat.result) /\ log' = log
  BY <1>1, <1>2 DEF Kept, Grows
<1>3. CASE beat' = Ends("cancelled") /\ log' = log
  BY <1>1, <1>3 DEF Kept, Grows
<1>4. CASE beat.todo # <<>> /\ Appends(Head(beat.todo), [beat EXCEPT !.todo = Tail(@)], Ends("error"))
  <2> DEFINE p == Head(beat.todo)
             b == [beat EXCEPT !.todo = Tail(@)]
             a == Append(log, p)
  <2>1. /\ p = beat.todo[1] /\ 1 \in DOMAIN beat.todo
        /\ Len(beat.todo) \in Nat /\ DOMAIN beat.todo = 1..Len(beat.todo)
        /\ IsLog(Tail(beat.todo)) /\ Len(Tail(beat.todo)) = Len(beat.todo) - 1
        /\ DOMAIN Tail(beat.todo) = 1..(Len(beat.todo) - 1)
        /\ \A i \in DOMAIN Tail(beat.todo) : Tail(beat.todo)[i] = beat.todo[i + 1]
    BY <1>0, <1>4, TailIsLog DEF IsFrame
  <2>2. /\ IsFrame(b) /\ b.pc = "emit" /\ b.act = beat.act /\ b.once = beat.once
        /\ b.result = beat.result /\ b.todo = Tail(beat.todo)
    BY <1>0, <2>1 DEF IsFrame
  <2> HIDE DEF p, b
  <2>3. May(log, p) /\ FrameInv(a, b)
    <3>1. CASE beat.act.kind = "model.call"
      <4>1. p.kind \in ModelPhotons /\ WasAsked(log)
        BY <1>0, <2>1, <3>1 DEF ModelFrame
      <4>2. May(log, p)
        BY <4>1 DEF May, ModelPhotons, ModelAnswers, Decisions
      <4>3. WasAsked(a)
        BY <1>0, <4>1, WasAskedStays
      <4>4. ModelFrame(a, b)
        <5>1. b.todo = <<>> => Latest(a, {"model.completed"}) > Asked(a)
          <6> SUFFICES ASSUME b.todo = <<>> PROVE Latest(a, {"model.completed"}) > Asked(a)
            OBVIOUS
          <6>1. Len(beat.todo) = 1
            <7>1. Tail(beat.todo) = <<>>
              BY <2>2
            <7>2. Len(Tail(beat.todo)) = 0
              BY <7>1, EmptyLen
            <7>3. \A m, n \in Int : m = n - 1 /\ m = 0 => n = 1
              OBVIOUS
            <7> QED
              BY <2>1, <7>2, <7>3
          <6>2. p.kind = "model.completed"
            BY <1>0, <1>4, <2>1, <3>1, <6>1 DEF ModelFrame
          <6>3. Latest(a, {"model.completed"}) = Len(log) + 1 /\ Asked(a) = Asked(log)
            BY <1>0, <6>2, AppendLatest DEF Asked
          <6>4. Asked(log) \in 0..Len(log)
            BY <1>0, LatestIsLast DEF Asked
          <6> QED
            BY <1>0, <6>3, <6>4
        <5>2. b.todo # <<>> => b.todo[Len(b.todo)].kind = "model.completed"
          <6> SUFFICES ASSUME b.todo # <<>> PROVE b.todo[Len(b.todo)].kind = "model.completed"
            OBVIOUS
          <6>1. Len(b.todo) \in DOMAIN b.todo
            BY <2>1, <2>2, LastPosition
          <6>2. b.todo[Len(b.todo)] = beat.todo[Len(beat.todo)]
            BY <2>1, <2>2, <6>1
          <6> QED
            BY <1>0, <1>4, <3>1, <6>2 DEF ModelFrame
        <5>3. \A i \in DOMAIN b.todo : b.todo[i].kind \in ModelPhotons
          BY <1>0, <2>1, <2>2, <3>1 DEF ModelFrame
        <5>4. b.result = "completed" /\ Latest(a, {"user.input"}) > 0
          BY <1>0, <2>2, <3>1, <4>3 DEF ModelFrame, WasAsked
        <5> QED
          BY <2>2, <4>3, <5>1, <5>2, <5>3, <5>4 DEF ModelFrame
      <4> QED
        BY <2>2, <3>1, <4>2, <4>4 DEF FrameInv
    <3>2. CASE beat.act.kind # "model.call"
      <4>1. /\ p.kind \in OtherPhotons
            /\ (p.kind \in Decisions => IsDecision(p.arg))
            /\ (p.kind = "approval.granted" => IsWhole(log, p.arg))
        BY <1>0, <2>1, <3>2 DEF OtherFrame
      <4>2. May(log, p)
        BY <4>1 DEF May, OtherPhotons, ModelAnswers, Decisions, ToolResults
      <4>3. p.kind # "model.requested"
        BY <4>1 DEF OtherPhotons, ToolResults
      <4>4. ~b.once => Answered(a)
        BY <1>0, <2>2, <3>2, <4>3, AnsweredStays DEF OtherFrame
      <4>5. \A d : IsWhole(log, d) => IsWhole(a, d)
        BY <1>0, WholeStays
      <4>6. OtherFrame(a, b)
        BY <1>0, <2>1, <2>2, <3>2, <4>4, <4>5 DEF OtherFrame
      <4> QED
        BY <2>2, <3>2, <4>2, <4>6 DEF FrameInv
    <3> QED
      BY <3>1, <3>2
  <2>4. Appends(p, b, Ends("error"))
    BY <1>4 DEF p, b
  <2>5. FrameInv(log, Ends("error"))
    BY <1>1
  <2> QED
    BY <2>3, <2>4, <2>5, AppendsKept
<1> QED
  BY <1>2, <1>3, <1>4 DEF Emit

LEMMA FinishKept ==
  ASSUME AgentInv, Finish
  PROVE  Kept
<1>0. /\ IsLog(log) /\ Len(log) \in Nat /\ IsFrame(beat) /\ beat.pc = "finish"
      /\ IF beat.act.kind = "model.call" THEN ModelFrame(log, beat) ELSE OtherFrame(log, beat)
  BY LogLen DEF Finish, AgentInv, LogInv, FrameInv
<1>1. ASSUME NEW kind \in ActEnds
      PROVE  /\ May(log, Photon(kind, beat.act, 0))
             /\ Photon(kind, beat.act, 0).kind = kind /\ kind # "model.requested"
  BY MayBeSaid DEF ActEnds, Photon, ModelAnswers, Decisions
<1>2. CASE beat.result \in DOMAIN TerminalOf
  <2> DEFINE next == [Idle EXCEPT !.pc = "check", !.beats = beat.beats + 1]
             p == Photon(TerminalOf[beat.result], beat.act, 0)
             frame == IF beat.once THEN Idle ELSE next
  <2>1. TerminalOf[beat.result] \in ActEnds /\ beat.result \in {"completed", "failed", "rejected"}
    BY <1>2 DEF TerminalOf, ActEnds
  <2>2. ~beat.once => Answered(log)
    <3>1. CASE beat.act.kind = "model.call"
      BY <1>0, <2>1, <3>1, LatestIsLast DEF ModelFrame, Answered, Asked, TurnStart
    <3>2. CASE beat.act.kind # "model.call"
      BY <1>0, <3>2 DEF OtherFrame
    <3> QED
      BY <3>1, <3>2
  <2>3. ~beat.once => Answered(Append(log, p))
    BY <1>0, <1>1, <2>1, <2>2, AnsweredStays
  <2>4. FrameInv(Append(log, p), frame)
    <3>1. CASE beat.once
      BY <3>1, IdleFrame
    <3>2. CASE ~beat.once
      BY <2>3, <3>2, NoPhotons DEF FrameInv, IsFrame, Idle
    <3> QED
      BY <3>1, <3>2
  <2>5. Appends(p, frame, Idle)
    BY <1>2, <2>1 DEF Finish, TerminalOf
  <2> QED
    BY <1>1, <2>1, <2>4, <2>5, IdleFrame, AppendsKept
<1>3. CASE Appends(Photon("act.failed", beat.act, 0), Idle, Idle)
  BY <1>1, <1>3, IdleFrame, AppendsKept DEF ActEnds
<1>4. CASE Appends(Photon("act.failed", beat.act, 0), [beat EXCEPT !.pc = "abort"], Idle)
  <2>1. FrameInv(Append(log, Photon("act.failed", beat.act, 0)), [beat EXCEPT !.pc = "abort"])
    BY <1>0 DEF FrameInv, IsFrame
  <2> QED
    BY <1>1, <1>4, <2>1, IdleFrame, AppendsKept DEF ActEnds
<1>5. \/ beat.result \in DOMAIN TerminalOf
      \/ Appends(Photon("act.failed", beat.act, 0), Idle, Idle)
      \/ Appends(Photon("act.failed", beat.act, 0), [beat EXCEPT !.pc = "abort"], Idle)
  <2>1. beat.result \in Results
    BY <1>0 DEF IsFrame
  <2>2. CASE beat.result = "error"
    BY <2>2 DEF Finish, TerminalOf
  <2>3. CASE beat.result = "cancelled"
    BY <2>3 DEF Finish, TerminalOf
  <2>4. CASE beat.result \in {"completed", "failed", "rejected"}
    BY <2>4 DEF TerminalOf
  <2> QED
    BY <2>1, <2>2, <2>3, <2>4 DEF Results
<1> QED
  BY <1>2, <1>3, <1>4, <1>5
-----------------------------------------------------------------------------
(* What Janus and Techor propose, and what is admitted *)

LEMMA SomeActs ==
  /\ \A kind, of, arg : kind # "none" => Act(kind, of, arg) # NoAct
  /\ \A kind, of, arg : Act(kind, of, arg).kind = kind
  /\ NoAct.kind = "none"
BY DEF Act, NoAct

LEMMA ProposalKinds ==
  /\ JanusView(log) = NoAct \/ JanusView(log).kind \in {"ray.terminate", "model.call"}
  /\ TechorView(log) = NoAct \/ TechorView(log).kind \in {"tool", "dispatch"}
<1>1. JanusView(log) = NoAct \/ JanusView(log).kind \in {"ray.terminate", "model.call"}
  BY SomeActs DEF JanusView
<1>2. TechorView(log) = NoAct \/ TechorView(log).kind \in {"tool", "dispatch"}
  BY SomeActs DEF TechorView, CodeProposal, DispatchProposal, CallProposal, CodeAct
<1> QED
  BY <1>1, <1>2

(* When Janus wants the model, it has an input to ask about, and no request *)
(* of this turn is still unanswered.                                       *)
LEMMA ModelIsNeeded ==
  ASSUME IsLog(log), JanusView(log).kind = "model.call"
  PROVE  AskedOnce(log) /\ Latest(log, {"user.input"}) > 0
<1>1. JanusState(log) = "need_model"
  BY SomeActs DEF JanusView
<1>2. ~WaitingModel(log) /\ Latest(log, {"user.input"}) # 0
  BY <1>1 DEF JanusState
<1>3. /\ Latest(log, {"model.completed"}) <=
             Latest(log, {"model.completed", "user.input", "user.steering"})
      /\ TurnStart(log) <= Latest(log, {"model.completed", "user.input", "user.steering"})
  BY LatestGrows DEF TurnStart
<1>4. \A kinds : Latest(log, kinds) \in Nat
  BY LogLen, LatestIsLast
<1> QED
  BY <1>2, <1>3, <1>4 DEF WaitingModel, AskedOnce, Asked, TurnStart

(* When nobody proposes anything, no result waits for the model.           *)
LEMMA NobodyWaits ==
  ASSUME LogInv(log), Answered(log), JanusView(log) = NoAct
  PROVE  NoResultIsUnread(log)
<1> SUFFICES ASSUME ~Terminated(log), Latest(log, {"model.failed"}) < TurnStart(log),
                    NEW call \in Positions(log, {"model.tool-call"}),
                    TurnStart(log) < call, call < ResultOf(log)
             PROVE  Asked(log) > ResultOf(log)
  BY DEF NoResultIsUnread
<1> DEFINE answer == Latest(log, {"assistant.message"})
           last == Latest(log, {"model.tool-call"})
           result == Latest(log, ToolResults)
           either == Latest(log, ModelAnswers)
<1>1. IsLog(log) /\ Len(log) \in Nat
  BY LogLen DEF LogInv
<1>2. \A kinds : Latest(log, kinds) \in Nat
  BY <1>1, LatestIsLast
<1>3. call \in Nat /\ call <= last /\ TurnStart(log) \in Nat /\ Asked(log) \in Nat
  BY <1>1, <1>2, LatestIsLast, LogLen DEF Positions, TurnStart, Asked
<1>4. ResultOf(log) = result /\ result > TurnStart(log)
  BY <1>2, <1>3 DEF ResultOf
<1>5. answer <= either /\ last <= either
  BY <1>1, LatestGrows DEF ModelAnswers
<1>6. either > result => Asked(log) > result
  BY DEF AnswersWereAsked, LogInv
<1>7. last # result
  BY <1>1, <1>2, <1>3, LatestDiffer DEF ToolResults
<1>8. JanusState(log) \notin {"budget_exhausted", "oscillation_stopped", "need_model"}
  BY SomeActs DEF JanusView
<1>9. Latest(log, {"user.input"}) # 0
  BY <1>1, <1>2, <1>3 DEF LogInv, CallsHaveInput
<1>10. Complete(log) \/ PendingTool(log) \/ WaitingModel(log)
  BY <1>8, <1>9 DEF JanusState
<1>11. CASE Complete(log)
  <2>1. answer > TurnStart(log) /\ ~PendingTool(log) /\ (ResultReady(log) => answer > result)
    BY <1>4, <1>11 DEF Complete
  <2>2. result > last
    BY <1>2, <1>3, <1>4, <1>7, <2>1 DEF PendingTool
  <2>3. answer > result
    BY <1>4, <2>1, <2>2 DEF ResultReady
  <2> QED
    BY <1>2, <1>4, <1>5, <1>6, <2>3
<1>12. CASE PendingTool(log)
  <2>1. result < last
    BY <1>4, <1>12 DEF PendingTool
  <2> QED
    BY <1>2, <1>4, <1>5, <1>6, <2>1
<1>13. CASE WaitingModel(log)
  BY <1>2, <1>13 DEF WaitingModel, Answered, Asked, TurnStart
<1> QED
  BY <1>10, <1>11, <1>12, <1>13

(* An Act that is admitted and that the policy asks about has a grant.      *)
LEMMA AdmittedIsGranted ==
  ASSUME LogInv(log), NEW act, NEW expired,
         Admitted(log, act, PolicyKind(act), generation, expired)
  PROVE  Granted(log, act)
<1> DEFINE kind == PolicyKind(act)
           binding == {i \in Positions(log, Decisions) \ expired :
                           Binds(log[i].arg, act, kind, generation)}
           last == Max(binding)
<1> HIDE DEF kind
<1> SUFFICES ASSUME EvaluatePolicy(kind) = "ask"
             PROVE  \E g \in Positions(log, {"approval.granted"}) :
                      /\ \A approver \in log[g].arg.required :
                            SpokeBy(log, log[g].arg, approver, g)
                      /\ \/ log[g].arg.scope = "session" /\ log[g].arg.kind = kind
                         \/ /\ log[g].arg.act = act
                            /\ \A s \in StartsOf(log, act) : s < g
  BY DEF Granted, kind
<1>1. Decided(log, act, kind, generation, expired) = "allow"
  BY DEF Admitted, kind
<1>2. /\ binding # {} /\ log[last].kind # "approval.denied"
      /\ ~(log[last].arg.scope = "one_shot" /\ \E j \in StartsOf(log, act) : j > last)
  BY <1>1 DEF Decided
<1>3. Len(log) \in Nat /\ DOMAIN log = 1..Len(log)
  BY LogLen DEF LogInv
<1>4. binding \in SUBSET Nat /\ \A x \in binding : x <= Len(log)
  BY <1>3 DEF Positions
<1>5. last \in binding
  BY <1>2, <1>3, <1>4, Largest
<1>6. last \in Positions(log, Decisions) /\ Binds(log[last].arg, act, kind, generation)
  BY <1>5
<1> HIDE DEF last
<1>7. last \in Positions(log, {"approval.granted"}) /\ last \in Nat
  BY <1>2, <1>3, <1>6 DEF Positions, Decisions
<1>8. IsDecision(log[last].arg)
  BY <1>6 DEF LogInv, DecisionsAreTyped
<1>9. \A approver \in log[last].arg.required : SpokeBy(log, log[last].arg, approver, last)
  BY <1>7 DEF LogInv, GrantsAreWhole
<1>10. \/ log[last].arg.scope = "session" /\ log[last].arg.kind = kind
       \/ log[last].arg.scope = "one_shot" /\ log[last].arg.act = act
  BY <1>6, <1>8 DEF Binds, IsDecision, kind
<1>11. \A s \in StartsOf(log, act) : s \in Nat /\ s # last
  BY <1>3, <1>7 DEF StartsOf, Positions
<1> QED
  BY <1>2, <1>7, <1>9, <1>10, <1>11
LEMMA ViewKept ==
  ASSUME AgentInv, NEW admitted \in BOOLEAN, Verdict(Proposal, admitted), View(Proposal, admitted)
  PROVE  Kept
<1>1. IsLog(log) /\ LogInv(log) /\ Answered(log) /\ IsFrame(beat)
  BY DEF View, AgentInv, LogInv, FrameInv
<1>2. CASE Proposal = NoAct
  <2> DEFINE p == Said("ray.darkened", 0)
             frame == [Idle EXCEPT !.pc = "dark"]
  <2>1. JanusView(log) = NoAct
    BY <1>2 DEF Proposal
  <2>2. NoResultIsUnread(log)
    BY <1>1, <2>1, NobodyWaits
  <2>3. May(log, p)
    BY <2>2 DEF May, Said, Photon, ModelAnswers, Decisions
  <2>4. FrameInv(Append(log, p), frame)
    BY NoPhotons DEF FrameInv, IsFrame, Idle
  <2>5. Appends(p, frame, Idle)
    BY <1>2 DEF View
  <2> QED
    BY <2>3, <2>4, <2>5, IdleFrame, AppendsKept
<1>3. CASE Proposal # NoAct /\ ~admitted
  <2>1. May(log, Said("act.rejected", 0))
    BY MayBeSaid DEF ModelAnswers, Decisions, Said, Photon
  <2>2. Appends(Said("act.rejected", 0), Idle, Idle)
    BY <1>3 DEF View
  <2> QED
    BY <2>1, <2>2, IdleFrame, AppendsKept
<1>4. CASE Proposal # NoAct /\ admitted
  <2> DEFINE act == Proposal
             p == Photon("act.started", act, 0)
             frame == [beat EXCEPT !.pc = "run", !.act = act]
             a == Append(log, p)
  <2>1. act.kind \in {"ray.terminate", "model.call", "tool", "dispatch"}
    BY <1>4, ProposalKinds DEF Proposal
  <2>2. act.kind = "model.call" => JanusView(log).kind = "model.call"
    BY <1>4, ProposalKinds DEF Proposal
  <2>3. PICK expired : Admitted(log, act, PolicyKind(act), generation, expired)
    BY <1>4 DEF Verdict
  <2>4. Granted(log, act)
    BY <1>1, <2>3, AdmittedIsGranted
  <2>5. Appends(p, frame, Idle)
    BY <1>4 DEF View
  <2> HIDE DEF act
  <2>6. p.kind = "act.started" /\ p.act = act
    BY DEF Photon
  <2>7. May(log, p)
    BY <2>4, <2>6 DEF May, ModelAnswers, Decisions
  <2>8. Answered(a)
    BY <1>1, <2>6, AnsweredStays
  <2>9. act.kind = "model.call" => AskedOnce(a) /\ Latest(a, {"user.input"}) > 0
    <3>1. act.kind = "model.call" => AskedOnce(log) /\ Latest(log, {"user.input"}) > 0
      BY <1>1, <2>2, ModelIsNeeded
    <3> QED
      BY <1>1, <2>6, <3>1, AppendLatest DEF AskedOnce, Asked
  <2>10. IsFrame(frame) /\ frame.pc = "run" /\ frame.act = act
    BY <1>1 DEF IsFrame
  <2> HIDE DEF frame, p
  <2>11. FrameInv(a, frame)
    <3>1. CASE act.kind = "model.call"
      <4>1. ModelFrame(a, frame)
        BY <2>9, <2>10, <3>1 DEF ModelFrame
      <4> QED
        BY <2>10, <3>1, <4>1 DEF FrameInv
    <3>2. CASE act.kind # "model.call"
      <4>1. OtherFrame(a, frame)
        BY <2>1, <2>8, <2>10, <3>2 DEF OtherFrame
      <4> QED
        BY <2>10, <3>2, <4>1 DEF FrameInv
    <3> QED
      BY <3>1, <3>2
  <2> QED
    BY <2>5, <2>7, <2>11, IdleFrame, AppendsKept
<1> QED
  BY <1>2, <1>3, <1>4

LEMMA ClientActKept ==
  ASSUME AgentInv, ClientAct
  PROVE  Kept
<1>1. PICK act \in ClientActs, admitted \in BOOLEAN : Verdict(act, admitted) /\ Refract(act, admitted)
  BY DEF ClientAct
<1>2. act.kind \in {"approval.decide", "client", "ray.cancel", "ray.steer"}
  <2>1. act \in DecideActs => act.kind = "approval.decide"
    BY DEF DecideActs, Act
  <2>2. \/ act \in DecideActs \/ \E t \in Tools : act = Act("client", 0, t)
        \/ \E kind \in {"ray.cancel", "ray.steer"} : act = Act(kind, 0, Len(log))
    BY <1>1 DEF ClientActs
  <2> QED
    BY <2>1, <2>2 DEF Act
<1>3. act.kind = "approval.decide" => IsDecision(act.arg.decision)
  <2> SUFFICES ASSUME act.kind = "approval.decide" PROVE IsDecision(act.arg.decision)
    OBVIOUS
  <2>1. act \in DecideActs
    BY <1>1, SomeActs DEF ClientActs
  <2>2. PICK d \in Decides, t \in Tools :
           act.arg.decision = [act |-> Act("client", 0, t), kind |-> KindOf[t],
                               generation |-> generation, scope |-> d.scope,
                               approver |-> d.approver, required |-> d.required]
    BY <2>1 DEF DecideActs, Act
  <2>3. PolicyKind(Act("client", 0, t)) = KindOf[t]
    BY DEF PolicyKind, Act
  <2>4. d.scope \in {"one_shot", "session"}
    BY DecidesAssumption
  <2> QED
    BY <2>2, <2>3, <2>4 DEF IsDecision
<1>4. CASE ~admitted
  <2>1. May(log, Said("act.rejected", 0))
    BY MayBeSaid DEF ModelAnswers, Decisions, Said, Photon
  <2> QED
    BY <1>1, <1>4, <2>1, IdleFrame DEF Refract, Kept, Grows
<1>5. CASE admitted
  <2> DEFINE p == Photon("act.started", act, 0)
             frame == [Idle EXCEPT !.pc = "run", !.act = act, !.once = TRUE]
  <2>1. act # NoAct
    BY <1>2, SomeActs
  <2>2. PICK expired : Admitted(log, act, PolicyKind(act), generation, expired)
    BY <1>1, <1>5, <2>1 DEF Verdict
  <2>3. Granted(log, act)
    BY <2>2, AdmittedIsGranted DEF AgentInv
  <2>4. May(log, p)
    BY <2>3 DEF May, Photon, ModelAnswers, Decisions
  <2>5. IsFrame(frame) /\ frame.pc = "run" /\ frame.act = act /\ frame.once
    BY NoPhotons DEF IsFrame, Idle
  <2>6. log' = Append(log, p) /\ beat' = frame
    BY <1>1, <1>5 DEF Refract
  <2> HIDE DEF frame
  <2>7. OtherFrame(Append(log, p), frame)
    BY <1>3, <2>5 DEF OtherFrame
  <2>8. FrameInv(Append(log, p), frame)
    BY <1>2, <2>5, <2>7 DEF FrameInv
  <2> QED
    BY <2>4, <2>6, <2>8 DEF Kept, Grows
<1> QED
  BY <1>4, <1>5
-----------------------------------------------------------------------------
(* The Lenses carry out their Acts *)

LEMMA OnePhoton ==
  ASSUME NEW p
  PROVE  IsLog(<<p>>) /\ DOMAIN <<p>> = {1} /\ <<p>>[1] = p
<1>1. DOMAIN <<p>> = 1..1 /\ <<p>>[1] = p
  OBVIOUS
<1>2. <<p>> \in Seq({p})
  OBVIOUS
<1>3. IsLog(<<p>>)
  BY <1>2, OwnMembers
<1> QED
  BY <1>1, <1>3

(* A Lens other than Rhea begins to emit one photon, or none.              *)
LEMMA RunsKept ==
  ASSUME AgentInv, beat.pc = "run", beat.act.kind # "model.call",
         NEW todo, NEW result \in Results, Runs(todo, result), IsLog(todo),
         \A i \in DOMAIN todo :
             /\ todo[i].kind \in OtherPhotons
             /\ (todo[i].kind \in Decisions => IsDecision(todo[i].arg))
             /\ (todo[i].kind = "approval.granted" => IsWhole(log, todo[i].arg))
  PROVE  Kept
<1> DEFINE b == [beat EXCEPT !.pc = "emit", !.todo = todo, !.result = result]
<1>1. IsFrame(beat) /\ OtherFrame(log, beat)
  BY DEF AgentInv, FrameInv
<1>2. /\ IsFrame(b) /\ b.pc = "emit" /\ b.act = beat.act /\ b.once = beat.once
      /\ b.todo = todo
  BY <1>1 DEF IsFrame
<1>3. beat' = b /\ log' = log
  BY DEF Runs
<1> HIDE DEF b
<1>4. OtherFrame(log, b)
  BY <1>1, <1>2 DEF OtherFrame
<1>5. FrameInv(log, b)
  BY <1>2, <1>4 DEF FrameInv
<1> QED
  BY <1>3, <1>5 DEF Kept, Grows

LEMMA RunJanusKept ==
  ASSUME AgentInv, RunJanus
  PROVE  Kept
<1> DEFINE p == JanusEmits(beat.act)
<1>1. p.kind \in OtherPhotons /\ p.kind \notin Decisions
  BY DEF JanusEmits, Said, Photon, OtherPhotons, Decisions
<1>2. Runs(<<p>>, "completed") /\ beat.pc = "run" /\ beat.act.kind # "model.call"
  BY DEF RunJanus
<1> HIDE DEF p
<1>3. "completed" \in Results /\ "approval.granted" \in Decisions
  BY DEF Results, Decisions
<1> QED
  BY <1>1, <1>2, <1>3, OnePhoton, RunsKept

LEMMA RunToolKept ==
  ASSUME AgentInv, RunTool
  PROVE  Kept
<1>1. beat.pc = "run" /\ beat.act.kind # "model.call"
  BY DEF RunTool
<1>2. {"completed", "failed", "error", "cancelled"} \subseteq Results
  BY DEF Results
<1>3. ASSUME NEW kind \in {"tool.result", "process.exited"}, NEW result \in Results,
             Runs(<<Said(kind, 0)>>, result)
      PROVE  Kept
  <2> DEFINE p == Said(kind, 0)
  <2>1. p.kind \in OtherPhotons /\ p.kind \notin Decisions /\ "approval.granted" \in Decisions
    BY DEF Said, Photon, OtherPhotons, ToolResults, Decisions
  <2>2. Runs(<<p>>, result)
    BY <1>3
  <2> HIDE DEF p
  <2> QED
    BY <1>1, <2>1, <2>2, OnePhoton, RunsKept
<1>4. ASSUME NEW result \in Results, Runs(<<>>, result)
      PROVE  Kept
  <2>1. DOMAIN <<>> = {}
    OBVIOUS
  <2> QED
    BY <1>1, <1>4, <2>1, NoPhotons, RunsKept
<1> QED
  BY <1>2, <1>3, <1>4 DEF RunTool

(* What Fallen records has all the approvers it says it has.               *)
LEMMA RunFallenKept ==
  ASSUME AgentInv, RunFallen
  PROVE  Kept
<1> DEFINE d == beat.act.arg.decision
           approved == beat.act.arg.approved
           p == FallenEmits(log, approved, d)
<1>1. Runs(<<p>>, "completed") /\ beat.pc = "run" /\ beat.act.kind = "approval.decide"
  BY DEF RunFallen
<1>2. IsLog(log) /\ IsDecision(d)
  BY <1>1 DEF AgentInv, LogInv, FrameInv, OtherFrame
<1>3. p.arg = d /\ p.kind \in {"approval.denied", "approval.granted", "approval.stage-granted"}
  BY DEF FallenEmits, Said, Photon
<1>4. p.kind = "approval.granted" => IsWhole(log, d)
  <2> SUFFICES ASSUME p.kind = "approval.granted", NEW approver \in d.required,
                      approver # d.approver
               PROVE  SpokeBy(log, d, approver, Len(log))
    BY DEF IsWhole
  <2> DEFINE stages == {i \in Positions(log, {"approval.stage-granted"}) :
                          /\ log[i].arg.act = d.act
                          /\ log[i].arg.generation = d.generation}
             approvers == {log[i].arg.approver : i \in stages} \cup {d.approver}
  <2>1. d.required \subseteq approvers
    BY DEF FallenEmits, Said, Photon
  <2>2. PICK i \in stages : log[i].arg.approver = approver
    BY <2>1
  <2>3. i \in Positions(log, {"approval.stage-granted", "approval.granted"}) /\ i <= Len(log)
    BY <1>2, <2>2, LogLen DEF Positions
  <2> QED
    BY <2>2, <2>3 DEF SpokeBy
<1> HIDE DEF p, d
<1>5. "completed" \in Results /\ p.kind \in OtherPhotons
  BY <1>3 DEF Results, OtherPhotons
<1> QED
  BY <1>1, <1>2, <1>3, <1>4, <1>5, OnePhoton, RunsKept
-----------------------------------------------------------------------------
(* The model call *)

(* An answer is told in photons that the model may say, completion last.   *)
LEMMA AnswerEnds ==
  ASSUME NEW n \in Nat, NEW calls, DOMAIN calls = 1..n, NEW mid,
         mid \in {<<>>, <<Said("assistant.message", 0)>>},
         NEW told, told = [k \in DOMAIN calls |-> Said("model.tool-call", calls[k])]
                            \o mid \o <<Said("model.usage", 1), Said("model.completed", 0)>>
  PROVE  /\ IsLog(told) /\ told # <<>> /\ told[Len(told)].kind = "model.completed"
         /\ \A i \in DOMAIN told : told[i].kind \in ModelPhotons
<1> DEFINE F == {Said("model.tool-call", calls[k]) : k \in DOMAIN calls} \cup
                  {Said("assistant.message", 0), Said("model.usage", 1), Said("model.completed", 0)}
           first == [k \in DOMAIN calls |-> Said("model.tool-call", calls[k])]
           end == <<Said("model.usage", 1), Said("model.completed", 0)>>
<1>1. \A p \in F : p.kind \in ModelPhotons
  BY DEF Said, Photon, ModelPhotons, ModelAnswers
<1>2. first \in Seq(F)
  <2>1. first \in [1..n -> F]
    OBVIOUS
  <2> HIDE DEF first, F
  <2> QED
    BY <2>1, FunctionIsSeq
<1>3. mid \in Seq(F)
  <2>1. CASE mid = <<>>
    BY <2>1, EmptySeq
  <2>2. CASE mid = <<Said("assistant.message", 0)>>
    <3>1. Said("assistant.message", 0) \in F
      OBVIOUS
    <3> HIDE DEF F
    <3>2. mid \in [1..1 -> F]
      BY <2>2, <3>1
    <3> QED
      BY <3>2, SeqDef
  <2> QED
    BY <2>1, <2>2
<1>4. end \in Seq(F) /\ Len(end) = 2 /\ end[2] = Said("model.completed", 0)
  <2>1. Said("model.usage", 1) \in F /\ Said("model.completed", 0) \in F
    OBVIOUS
  <2> HIDE DEF F
  <2>2. end \in [1..2 -> F]
    BY <2>1
  <2>3. end \in Seq(F)
    BY <2>2, SeqDef
  <2>4. Len(end) = 2 /\ end[2] = Said("model.completed", 0)
    OBVIOUS
  <2> QED
    BY <2>3, <2>4
<1>5. told = first \o mid \o end
  OBVIOUS
<1> HIDE DEF F, first, end
<1> DEFINE start == first \o mid
<1>6. start \in Seq(F)
  BY <1>2, <1>3, ConcatProperties
<1> HIDE DEF start
<1>7. told = start \o end
  BY <1>5 DEF start
<1>8. told \in Seq(F)
  BY <1>4, <1>6, <1>7, ConcatProperties
<1>9. told[Len(told)] = end[2] /\ Len(told) # 0
  <2> DEFINE m == Len(start)
             both == start \o end
  <2>1. m \in Nat
    BY <1>6, LenProperties
  <2>2. /\ Len(both) = m + Len(end)
        /\ \A i \in 1..(m + Len(end)) : both[i] = IF i <= m THEN start[i] ELSE end[i - m]
    BY <1>4, <1>6, ConcatProperties
  <2>3. both = told
    BY <1>7
  <2> HIDE DEF m, both
  <2>4. m + 2 \in 1..(m + 2) /\ ~(m + 2 <= m) /\ m + 2 - m = 2
    BY <2>1
  <2> QED
    BY <1>4, <2>1, <2>2, <2>3, <2>4
<1>10. \A i \in DOMAIN told : told[i].kind \in ModelPhotons
  BY <1>1, <1>8, ElementOfSeq, LenProperties
<1>11. told[Len(told)].kind = "model.completed"
  BY <1>4, <1>9 DEF Said, Photon
<1> QED
  BY <1>8, <1>9, <1>10, <1>11, OwnMembers, EmptyLen

LEMMA LocalAnswerEnds ==
  /\ IsLog(LocalAnswer) /\ LocalAnswer # <<>>
  /\ LocalAnswer[Len(LocalAnswer)].kind = "model.completed"
  /\ \A i \in DOMAIN LocalAnswer : LocalAnswer[i].kind \in ModelPhotons
<1>1. CASE LocalAnswer = Answer(<<[tool |-> "calculate", valid |-> TRUE]>>, FALSE)
  <2> DEFINE calls == <<[tool |-> "calculate", valid |-> TRUE]>>
  <2>1. DOMAIN calls = 1..1
    OBVIOUS
  <2> HIDE DEF calls
  <2>2. LocalAnswer = [k \in DOMAIN calls |-> Said("model.tool-call", calls[k])]
                        \o <<>> \o <<Said("model.usage", 1), Said("model.completed", 0)>>
    BY <1>1 DEF Answer, calls
  <2> QED
    BY <2>1, <2>2, AnswerEnds
<1>2. CASE LocalAnswer = Answer(<<>>, TRUE)
  <2> DEFINE calls == <<>>
  <2>1. DOMAIN calls = 1..0
    OBVIOUS
  <2> HIDE DEF calls
  <2>2. LocalAnswer = [k \in DOMAIN calls |-> Said("model.tool-call", calls[k])]
                        \o <<Said("assistant.message", 0)>>
                        \o <<Said("model.usage", 1), Said("model.completed", 0)>>
    BY <1>2 DEF Answer, calls
  <2> QED
    BY <2>1, <2>2, AnswerEnds
<1> QED
  BY <1>1, <1>2 DEF LocalAnswer

LEMMA ParsedAnswerEnds ==
  ASSUME NEW parsed, NEW told, told = Answer(Calls(parsed), parsed.text > 0)
  PROVE  /\ IsLog(told) /\ told # <<>> /\ told[Len(told)].kind = "model.completed"
         /\ \A i \in DOMAIN told : told[i].kind \in ModelPhotons
<1> DEFINE whole == {i \in DOMAIN Keys :
                       /\ Keys[i] \in DOMAIN parsed.tools
                       /\ Arguments(parsed.tools[Keys[i]]) # NoArguments}
           n == Cardinality(whole)
           calls == Calls(parsed)
           mid == IF parsed.text > 0 THEN <<Said("assistant.message", 0)>> ELSE <<>>
<1>1. n \in Nat
  BY KeysAssumption, FS_Subset, FS_CardinalityType
<1>2. DOMAIN calls = 1..n
  BY DEF Calls
<1>3. mid \in {<<>>, <<Said("assistant.message", 0)>>}
  OBVIOUS
<1>4. told = [k \in DOMAIN calls |-> Said("model.tool-call", calls[k])]
               \o mid \o <<Said("model.usage", 1), Said("model.completed", 0)>>
  BY DEF Answer
<1> HIDE DEF n, calls, mid
<1> QED
  BY <1>1, <1>2, <1>3, <1>4, AnswerEnds

(* A model call goes on, without a photon, or begins to tell its answer.    *)
LEMMA ModelTells ==
  ASSUME AgentInv, beat.pc = "model", NEW told, Runs(told, "completed"),
         IsLog(told), told # <<>>, told[Len(told)].kind = "model.completed",
         \A i \in DOMAIN told : told[i].kind \in ModelPhotons
  PROVE  Kept
<1> DEFINE b == [beat EXCEPT !.pc = "emit", !.todo = told, !.result = "completed"]
<1>1. IsFrame(beat) /\ beat.act.kind = "model.call" /\ ModelFrame(log, beat)
  BY DEF AgentInv, FrameInv, OtherFrame
<1>2. WasAsked(log)
  BY <1>1 DEF ModelFrame
<1>3. /\ IsFrame(b) /\ b.pc = "emit" /\ b.act = beat.act /\ b.todo = told
      /\ b.result = "completed"
  BY <1>1 DEF IsFrame, Results
<1>4. beat' = b /\ log' = log
  BY DEF Runs
<1> HIDE DEF b
<1>5. ModelFrame(log, b)
  BY <1>2, <1>3 DEF ModelFrame, WasAsked
<1>6. FrameInv(log, b)
  BY <1>1, <1>3, <1>5 DEF FrameInv
<1> QED
  BY <1>4, <1>6 DEF Kept, Grows

LEMMA ModelEnds ==
  ASSUME AgentInv, NEW result \in {"error", "cancelled"}, NEW l,
         beat.act.kind = "model.call", Latest(l, {"user.input"}) > 0
  PROVE  FrameInv(l, Ends(result))
<1> DEFINE b == Ends(result)
<1>1. /\ IsFrame(b) /\ b.pc = "finish" /\ b.act = beat.act /\ b.result = result
  BY EndsFrame DEF AgentInv, FrameInv, Results
<1> HIDE DEF b
<1>2. ModelFrame(l, b)
  BY <1>1 DEF ModelFrame
<1>3. FrameInv(l, b)
  BY <1>1, <1>2 DEF FrameInv
<1> QED
  BY <1>3 DEF b

LEMMA RequestKept ==
  ASSUME AgentInv, Request
  PROVE  Kept
<1> DEFINE p == Said("model.requested", 0)
           a == Append(log, p)
           remote == [beat EXCEPT !.pc = "model"]
           local == [beat EXCEPT !.pc = "emit", !.todo = LocalAnswer, !.result = "completed"]
           frame == IF log[Latest(log, {"user.input"})].arg = "remote" THEN remote ELSE local
<1>1. /\ IsLog(log) /\ Len(log) \in Nat /\ IsFrame(beat) /\ beat.pc = "run"
      /\ beat.act.kind = "model.call" /\ ModelFrame(log, beat)
  BY LogLen DEF Request, AgentInv, LogInv, FrameInv
<1>2. AskedOnce(log) /\ Latest(log, {"user.input"}) > 0
  BY <1>1 DEF ModelFrame
<1>3. p.kind = "model.requested"
  BY DEF Said, Photon
<1>4. Appends(p, frame, Ends("error"))
  BY DEF Request
<1>5. May(log, p)
  BY <1>2, <1>3 DEF May, ModelAnswers, Decisions
<1> HIDE DEF p
<1>6. WasAsked(a)
  <2>1. /\ Asked(a) = Len(log) + 1 /\ Latest(a, ToolResults) = Latest(log, ToolResults)
        /\ Latest(a, {"user.input"}) = Latest(log, {"user.input"})
    BY <1>1, <1>3, AppendLatest DEF Asked, ToolResults
  <2>2. Latest(log, ToolResults) \in 0..Len(log)
    BY <1>1, LatestIsLast
  <2> QED
    BY <1>1, <1>2, <2>1, <2>2 DEF WasAsked
<1>7. FrameInv(a, remote)
  <2>1. IsFrame(remote) /\ remote.pc = "model" /\ remote.act = beat.act
    BY <1>1 DEF IsFrame
  <2> HIDE DEF remote
  <2>2. ModelFrame(a, remote)
    BY <1>6, <2>1 DEF ModelFrame, WasAsked
  <2> QED
    BY <1>1, <2>1, <2>2 DEF FrameInv
<1>8. FrameInv(a, local)
  <2>1. /\ IsFrame(local) /\ local.pc = "emit" /\ local.act = beat.act
        /\ local.todo = LocalAnswer /\ local.result = "completed"
    BY <1>1, LocalAnswerEnds DEF IsFrame, Results
  <2> HIDE DEF local
  <2>2. ModelFrame(a, local)
    BY <1>6, <2>1, LocalAnswerEnds DEF ModelFrame, WasAsked
  <2> QED
    BY <1>1, <2>1, <2>2 DEF FrameInv
<1>9. FrameInv(a, frame)
  BY <1>7, <1>8
<1>10. FrameInv(log, Ends("error"))
  BY <1>1, <1>2, ModelEnds
<1> QED
  BY <1>4, <1>5, <1>9, <1>10, AppendsKept

LEMMA RheaKept ==
  ASSUME AgentInv, RheaStep
  PROVE  Kept
<1>1. CASE Request
  BY <1>1, RequestKept
<1>2. CASE beat.pc = "model"
  <2>1. /\ IsLog(log) /\ Len(log) \in Nat /\ IsFrame(beat) /\ beat.act.kind = "model.call"
        /\ ModelFrame(log, beat) /\ Latest(log, {"user.input"}) > 0
    BY <1>2, LogLen DEF AgentInv, LogInv, FrameInv, OtherFrame, ModelFrame
  <2>2. CASE log' = log /\ (beat' = beat \/ beat' = Ends("error") \/ beat' = Ends("cancelled"))
    BY <2>1, <2>2, ModelEnds DEF Kept, Grows, AgentInv
  <2>3. CASE Responds
    <3>1. PICK r \in Responses : Runs(Answer(Calls(Parsed(r)), Parsed(r).text > 0), "completed")
      BY <2>3 DEF Responds
    <3> DEFINE told == Answer(Calls(Parsed(r)), Parsed(r).text > 0)
    <3>2. /\ IsLog(told) /\ told # <<>> /\ told[Len(told)].kind = "model.completed"
          /\ \A i \in DOMAIN told : told[i].kind \in ModelPhotons
      BY ParsedAnswerEnds
    <3> HIDE DEF told
    <3>3. Runs(told, "completed")
      BY <3>1 DEF told
    <3> QED
      BY <1>2, <3>2, <3>3, ModelTells
  <2>4. CASE GivesUp
    <3> DEFINE p == Said("model.failed", 0)
               b == Ends("failed")
    <3>1. p.kind = "model.failed" /\ Appends(p, b, Ends("error"))
      BY <2>4 DEF GivesUp, Said, Photon
    <3>2. May(log, p)
      BY <3>1, MayBeSaid DEF ModelAnswers, Decisions
    <3>3. /\ IsFrame(b) /\ b.pc = "finish" /\ b.act = beat.act /\ b.result = "failed"
      BY <2>1, EndsFrame DEF Results
    <3> HIDE DEF p, b
    <3>4. /\ Latest(Append(log, p), {"model.failed"}) = Len(log) + 1
          /\ TurnStart(Append(log, p)) = TurnStart(log)
          /\ Latest(Append(log, p), {"user.input"}) = Latest(log, {"user.input"})
      BY <2>1, <3>1, AppendLatest DEF TurnStart
    <3>5. TurnStart(log) \in 0..Len(log)
      BY <2>1, LatestIsLast DEF TurnStart
    <3>6. ModelFrame(Append(log, p), b)
      BY <2>1, <3>3, <3>4, <3>5 DEF ModelFrame
    <3>7. FrameInv(Append(log, p), b)
      BY <2>1, <3>3, <3>6 DEF FrameInv
    <3>8. FrameInv(log, Ends("error"))
      BY <2>1, ModelEnds
    <3> QED
      BY <3>1, <3>2, <3>7, <3>8, AppendsKept
  <2> QED
    BY <1>2, <2>2, <2>3, <2>4
       DEF RheaStep, Request, Misconfigured, NoCredential, Stopped, Refused, Retry, Expired, Keep
<1> QED
  BY <1>1, <1>2 DEF RheaStep, Misconfigured, NoCredential, Stopped, Responds, Refused,
                     Retry, GivesUp, Expired
-----------------------------------------------------------------------------
(* Every step keeps the invariant *)

LEMMA PutKept ==
  ASSUME AgentInv, NEW photon, Put(photon),
         photon.kind \in {"external.catalog-observed", "tool.registered",
                          "tool.unregistered", "code.frame"}
  PROVE  Kept
<1>1. May(log, photon)
  BY MayBeSaid DEF ModelAnswers, Decisions
<1>2. FrameInv(Append(log, photon), beat)
  <2>1. beat.pc = "idle" /\ IsFrame(beat)
    BY DEF Put, AgentInv, FrameInv
  <2> QED
    BY <2>1 DEF FrameInv
<1> QED
  BY <1>1, <1>2 DEF Put, Kept, Grows

LEMMA RestartKept ==
  ASSUME AgentInv, Restart
  PROVE  Kept
<1> DEFINE b == [Idle EXCEPT !.pc = "recover"]
<1>1. beat' = b /\ log' = log
  BY DEF Restart, Crash
<1>2. FrameInv(log, b)
  BY NoPhotons DEF FrameInv, IsFrame, Idle
<1> QED
  BY <1>1, <1>2 DEF Kept, Grows, AgentInv

LEMMA RecoverKept ==
  ASSUME AgentInv, Recover
  PROVE  Kept
<1>1. CASE beat' = Idle /\ log' = log
  BY <1>1, IdleFrame DEF Kept, Grows, AgentInv
<1>2. ASSUME NEW act, log' = Append(log, Photon("act.outcome-unknown", act, 0)), beat' = beat
      PROVE  Kept
  <2>1. May(log, Photon("act.outcome-unknown", act, 0))
    BY MayBeSaid DEF ModelAnswers, Decisions, Photon
  <2>2. FrameInv(log', beat)
    BY DEF Recover, AgentInv, FrameInv
  <2> QED
    BY <1>2, <2>1, <2>2 DEF Kept, Grows
<1> QED
  BY <1>1, <1>2 DEF Recover

LEMMA StepKept ==
  ASSUME AgentInv, [Next]_vars
  PROVE  Kept
<1>1. CASE log' = log /\ beat' = beat
  BY <1>1 DEF Kept, Grows, AgentInv
<1>2. CASE Turn
  BY <1>2, SubmitKept DEF Turn
<1>3. CASE Advance
  <2>1. CASE BeatStep
    BY <2>1, CheckKept, EmitKept, FinishKept, AbortKept, RecoverKept DEF BeatStep
  <2>2. CASE Return
    BY <2>2, ReturnKept
  <2>3. CASE \E admitted \in BOOLEAN : Verdict(Proposal, admitted) /\ View(Proposal, admitted)
    BY <2>3, ViewKept
  <2> QED
    BY <1>3, <2>1, <2>2, <2>3 DEF Advance
<1>4. CASE RunJanus \/ RunFallen \/ RunTool
  BY <1>4, RunJanusKept, RunFallenKept, RunToolKept
<1>5. CASE ModelCall
  BY <1>5, RheaKept DEF ModelCall
<1>6. CASE ClientAct
  BY <1>6, ClientActKept
<1>7. CASE Observe \/ Register \/ Unregister \/ SendFrame
  <2>1. PICK kind \in {"external.catalog-observed", "tool.registered",
                       "tool.unregistered", "code.frame"} : \E arg : Put(Said(kind, arg))
    <3>1. CASE Observe
      BY <3>1 DEF Observe
    <3>2. CASE Register
      BY <3>2 DEF Register
    <3>3. CASE Unregister
      BY <3>3 DEF Unregister
    <3>4. CASE SendFrame
      BY <3>4 DEF SendFrame
    <3> QED
      BY <1>7, <3>1, <3>2, <3>3, <3>4
  <2>2. PICK arg : Put(Said(kind, arg))
    BY <2>1
  <2>3. Said(kind, arg).kind = kind
    BY DEF Said, Photon
  <2> QED
    BY <2>2, <2>3, PutKept
<1>8. CASE Remount \/ Cancel
  BY <1>1, <1>8 DEF Remount, Cancel, CancelRay
<1>9. CASE Restart
  BY <1>9, RestartKept
<1>10. CASE UNCHANGED vars
  BY <1>1, <1>10 DEF vars, beatVars
<1> QED
  BY <1>2, <1>3, <1>4, <1>5, <1>6, <1>7, <1>8, <1>9, <1>10 DEF Next

LEMMA InvKept ==
  ASSUME AgentInv, [Next]_vars
  PROVE  AgentInv' /\ Grows(log')
<1>1. Grows(log') /\ FrameInv(log', beat')
  BY StepKept DEF Kept
<1>2. LogInv(log')
  BY <1>1, LogKept DEF Grows, AgentInv
<1> QED
  BY <1>1, <1>2 DEF AgentInv

LEMMA InitInv == ASSUME Init PROVE AgentInv
<1>1. log = <<>> /\ beat = Idle
  BY DEF Init, BeatInit
<1>2. \A kinds : Positions(log, kinds) = {}
  BY <1>1 DEF Positions
<1>3. \A kinds : Latest(log, kinds) = 0
  BY <1>1, <1>2, NoPhotons, LatestIsLast
<1>4. LogInv(log)
  BY <1>1, <1>2, <1>3, NoPhotons
     DEF LogInv, AnswersWereAsked, CallsHaveInput, DecisionsAreTyped, GrantsAreWhole
<1> QED
  BY <1>1, <1>4, IdleFrame DEF AgentInv
-----------------------------------------------------------------------------
(* The properties *)

LEMMA BeforeAppend ==
  ASSUME NEW l, IsLog(l), NEW p
  PROVE  SubSeq(Append(l, p), 1, Len(Append(l, p)) - 1) = l
<1> DEFINE a == Append(l, p)
           b == SubSeq(a, 1, Len(a) - 1)
           T == {l[i] : i \in DOMAIN l}
<1>1. /\ Len(a) = Len(l) + 1 /\ Len(l) \in Nat
      /\ \A i \in 1..Len(l) : a[i] = l[i]
  BY AppendIsLog, LogLen
<1>2. l \in Seq(T) /\ \A i \in 1..Len(l) : l[i] \in T
  BY LogLen DEF IsLog
<1> HIDE DEF a, T
<1>3. Len(a) - 1 = Len(l) /\ \A i \in 1..(Len(a) - 1) : a[i] \in T
  BY <1>1, <1>2
<1>4. /\ b \in Seq(T)
      /\ Len(b) = (IF 1 <= Len(a) - 1 THEN (Len(a) - 1) - 1 + 1 ELSE 0)
      /\ \A i \in 1..((Len(a) - 1) - 1 + 1) : b[i] = a[1 + i - 1]
  BY <1>1, <1>3, SubSeqProperties
<1> HIDE DEF b
<1>5. Len(b) = Len(l) /\ \A i \in 1..Len(l) : b[i] = l[i]
  BY <1>1, <1>3, <1>4
<1>6. b = l
  BY <1>2, <1>4, <1>5, SeqEqual
<1> QED
  BY <1>6 DEF a, b

(* What one more photon is to the log before it.                           *)
LEMMA NowAndBefore ==
  ASSUME AgentInv, NEW p, log' = Append(log, p)
  PROVE  /\ Before' = log /\ log'[Len(log')] = p
         /\ \A kind : Now(kind)' => p.kind = kind
         /\ \A i \in DOMAIN log : log'[i] = log[i]
<1>1. IsLog(log)
  BY DEF AgentInv, LogInv
<1>2. Before' = log
  BY <1>1, BeforeAppend DEF Before
<1>3. log'[Len(log')] = p /\ \A i \in DOMAIN log : log'[i] = log[i]
  BY <1>1, AppendIsLog, LogLen
<1> QED
  BY <1>2, <1>3 DEF Now

LEMMA ModelCallKept ==
  ASSUME AgentInv, OneModelCallAtATime, [Next]_vars
  PROVE  OneModelCallAtATime'
<1>1. CASE log' = log
  BY <1>1 DEF OneModelCallAtATime, Now, Before
<1>2. CASE \E p : log' = Append(log, p) /\ May(log, p)
  <2>1. PICK p : log' = Append(log, p) /\ May(log, p)
    BY <1>2
  <2>2. Before' = log /\ (Now("model.requested")' => p.kind = "model.requested")
    BY <2>1, NowAndBefore
  <2> QED
    BY <2>1, <2>2 DEF OneModelCallAtATime, May, AskedOnce, Asked
<1> QED
  BY <1>1, <1>2, InvKept DEF Grows

LEMMA ResultsKept ==
  ASSUME AgentInv, ResultsReachTheModel, [Next]_vars
  PROVE  ResultsReachTheModel'
<1>1. CASE log' = log
  BY <1>1 DEF ResultsReachTheModel, Now, Before
<1>2. CASE \E p : log' = Append(log, p) /\ May(log, p)
  <2>1. PICK p : log' = Append(log, p) /\ May(log, p)
    BY <1>2
  <2>2. Before' = log /\ (Now("ray.darkened")' => p.kind = "ray.darkened")
    BY <2>1, NowAndBefore
  <2> QED
    BY <2>1, <2>2 DEF ResultsReachTheModel, May, NoResultIsUnread, Asked
<1> QED
  BY <1>1, <1>2, InvKept DEF Grows

LEMMA GrantsKept ==
  ASSUME AgentInv, GrantsAreUsedOnce, [Next]_vars
  PROVE  GrantsAreUsedOnce'
<1>1. CASE log' = log
  BY <1>1 DEF GrantsAreUsedOnce, Now, Before
<1>2. CASE \E p : log' = Append(log, p) /\ May(log, p)
  <2>1. PICK p : log' = Append(log, p) /\ May(log, p)
    BY <1>2
  <2>2. /\ Before' = log /\ (Now("act.started")' => p.kind = "act.started")
        /\ log'[Len(log')] = p /\ \A i \in DOMAIN log : log'[i] = log[i]
    BY <2>1, NowAndBefore
  <2> SUFFICES ASSUME Now("act.started")', EvaluatePolicy(PolicyKind(p.act)) = "ask"
               PROVE  \E g \in Positions(log, {"approval.granted"}) :
                        /\ \A approver \in log'[g].arg.required :
                              \E i \in Positions(log, {"approval.stage-granted", "approval.granted"}) :
                                  /\ i <= g /\ log'[i].arg.act = log'[g].arg.act
                                  /\ log'[i].arg.approver = approver
                        /\ \/ log'[g].arg.scope = "session" /\ log'[g].arg.kind = PolicyKind(p.act)
                           \/ /\ log'[g].arg.act = p.act
                              /\ \A s \in StartsOf(log, p.act) : s < g
    BY <2>2 DEF GrantsAreUsedOnce
  <2>3. PICK g \in Positions(log, {"approval.granted"}) :
           /\ \A approver \in log[g].arg.required : SpokeBy(log, log[g].arg, approver, g)
           /\ \/ log[g].arg.scope = "session" /\ log[g].arg.kind = PolicyKind(p.act)
              \/ /\ log[g].arg.act = p.act
                 /\ \A s \in StartsOf(log, p.act) : s < g
    BY <2>1, <2>2 DEF May, Granted
  <2>4. \A kinds : \A i \in Positions(log, kinds) : log'[i] = log[i]
    BY <2>2 DEF Positions
  <2>5. \A approver \in log[g].arg.required :
           \E i \in Positions(log, {"approval.stage-granted", "approval.granted"}) :
              i <= g /\ log[i].arg.act = log[g].arg.act /\ log[i].arg.approver = approver
    BY <2>3 DEF SpokeBy
  <2> QED
    BY <2>3, <2>4, <2>5
<1> QED
  BY <1>1, <1>2, InvKept DEF Grows

(***************************************************************************)
(* The invariant, and the three properties, which are about the last       *)
(* photon and so are kept together with it.                                *)
(***************************************************************************)
THEOREM AgentInvHolds == Spec => []AgentInv
<1>1. Init => AgentInv
  BY InitInv
<1>2. AgentInv /\ [Next]_vars => AgentInv'
  BY InvKept
<1> QED
  BY <1>1, <1>2, PTL DEF Spec

(* Between two requests to the model the first has completed, or the user  *)
(* has spoken (janus_lens.cpp, the waiting_model state).                   *)
THEOREM ModelIsAskedOnce == Spec => []OneModelCallAtATime
<1>1. Init => OneModelCallAtATime
  BY DEF Init, BeatInit, OneModelCallAtATime, Now
<1>2. AgentInv /\ OneModelCallAtATime /\ [Next]_vars => OneModelCallAtATime'
  BY ModelCallKept
<1> QED
  BY <1>1, <1>2, AgentInvHolds, PTL DEF Spec

(* No turn goes dark on a result of a tool that the model has not been asked *)
(* about (janus_lens.cpp, derive_state).                                   *)
THEOREM ResultsAreRead == Spec => []ResultsReachTheModel
<1>1. Init => ResultsReachTheModel
  BY DEF Init, BeatInit, ResultsReachTheModel, Now
<1>2. AgentInv /\ ResultsReachTheModel /\ [Next]_vars => ResultsReachTheModel'
  BY ResultsKept
<1> QED
  BY <1>1, <1>2, AgentInvHolds, PTL DEF Spec

(* No Act the policy asks about starts without a grant of all its required  *)
(* approvers, and no one-shot grant starts an Act twice (the runtime's      *)
(* admission and FallenLens).                                              *)
THEOREM GrantsAreSpent == Spec => []GrantsAreUsedOnce
<1>1. Init => GrantsAreUsedOnce
  BY DEF Init, BeatInit, GrantsAreUsedOnce, Now
<1>2. AgentInv /\ GrantsAreUsedOnce /\ [Next]_vars => GrantsAreUsedOnce'
  BY GrantsKept
<1> QED
  BY <1>1, <1>2, AgentInvHolds, PTL DEF Spec
-----------------------------------------------------------------------------
(***************************************************************************)
(* What is told of a turn.  A second invariant, of the steps of AgentInv:  *)
(* a refusal never names a model call, and while a turn goes on, an Act of *)
(* the model that ended as failed has its model.failed in the same turn.   *)
(***************************************************************************)

\* Kinds that no Lens of the ray puts in.
Never == {"user.message", "process.timed-out", "process.cancelled"}
IsPlain(p) == /\ p.kind \notin Never
              /\ p.kind = "act.rejected" => p.act.kind # "model.call"

\* Advance is at work on the turn: a client's Act is none of it, and what ends
\* as an error leaves it.
InBeat(b) == \/ b.pc \in {"check", "view"}
             \/ b.pc \in {"run", "model", "emit", "finish"} /\ ~b.once

Begun(l) == Latest(l, Inputs_)
FailureIsTold(l) == Latest(l, {"model.failed"}) > Begun(l)
FailuresTold(l) ==
    \A i \in Positions(l, {"act.failed"}) :
        i > Begun(l) /\ l[i].act.kind = "model.call" => FailureIsTold(l)

IsTold(l, b) ==
    /\ \A i \in DOMAIN l : IsPlain(l[i])
    /\ b.pc = "emit" => \A i \in DOMAIN b.todo : IsPlain(b.todo[i])
    /\ InBeat(b) => Latest(l, {"user.input"}) > 0 /\ FailuresTold(l)

ToldInv == IsTold(log, beat)

\* What may be appended when b is the next frame, and what may be that frame.
Tells(p, b) ==
    /\ IsPlain(p) /\ p.kind # "user.input"
    /\ InBeat(b) /\ p.kind = "act.failed" /\ p.act.kind = "model.call" => FailureIsTold(log)
    /\ p.kind = "ray.darkened" => InBeat(beat) /\ beat.pc = "view" /\ JanusView(log) = NoAct
Follows(b) ==
    /\ InBeat(b) => InBeat(beat)
    /\ b.pc = "emit" => \A i \in DOMAIN b.todo : IsPlain(b.todo[i])

TurnBegins == \E arg : /\ log' = Append(log, Said("user.input", arg))
                       /\ beat' = [Idle EXCEPT !.pc = "check"]

ToldStep ==
    \/ log' = log /\ Follows(beat')
    \/ \E p : log' = Append(log, p) /\ Tells(p, beat') /\ Follows(beat')
    \/ TurnBegins

(* Only user.input begins a turn, and what Janus takes for a result is what *)
(* the projection does.                                                    *)
LEMMA SameKinds ==
  ASSUME NEW l, IsLog(l), \A i \in DOMAIN l : IsPlain(l[i])
  PROVE  /\ Begun(l) = Latest(l, {"user.input"})
         /\ Latest(l, ToolResults) = Latest(l, Verifiable)
<1>1. Positions(l, Inputs_) = Positions(l, {"user.input"})
  BY DEF Positions, Inputs_, IsPlain, Never
<1>2. Positions(l, ToolResults) = Positions(l, Verifiable)
  BY DEF Positions, ToolResults, Verifiable, IsPlain, Never
<1> QED
  BY <1>1, <1>2 DEF Begun, Latest

LEMMA PlainStays ==
  ASSUME NEW l, IsLog(l), \A i \in DOMAIN l : IsPlain(l[i]), NEW p, IsPlain(p)
  PROVE  \A i \in DOMAIN Append(l, p) : IsPlain(Append(l, p)[i])
<1> DEFINE a == Append(l, p)
<1>1. /\ IsLog(a) /\ Len(a) = Len(l) + 1 /\ a[Len(l) + 1] = p
      /\ \A i \in 1..Len(l) : a[i] = l[i]
  BY AppendIsLog
<1> HIDE DEF a
<1>2. DOMAIN a = 1..(Len(l) + 1) /\ DOMAIN l = 1..Len(l) /\ Len(l) \in Nat
  BY <1>1, LogLen
<1>3. \A i \in DOMAIN a : IsPlain(a[i])
  BY <1>1, <1>2
<1> QED
  BY <1>3 DEF a

LEMMA FailuresStayTold ==
  ASSUME NEW l, IsLog(l), FailuresTold(l), NEW p, p.kind \notin Inputs_,
         p.kind = "act.failed" /\ p.act.kind = "model.call" => FailureIsTold(l)
  PROVE  FailuresTold(Append(l, p))
<1> DEFINE a == Append(l, p)
<1>1. Len(l) \in Nat /\ DOMAIN l = 1..Len(l)
  BY LogLen
<1>2. a[Len(l) + 1] = p /\ \A i \in 1..Len(l) : a[i] = l[i]
  BY AppendIsLog
<1>3. /\ Begun(a) = Begun(l)
      /\ Latest(a, {"model.failed"}) \in {Latest(l, {"model.failed"}), Len(l) + 1}
  BY AppendLatest DEF Begun
<1>4. Begun(l) \in 0..Len(l) /\ Latest(l, {"model.failed"}) \in 0..Len(l)
  BY LatestIsLast DEF Begun
<1>5. FailureIsTold(l) => FailureIsTold(a)
  BY <1>1, <1>3, <1>4 DEF FailureIsTold
<1>6. \A i \in Positions(a, {"act.failed"}) :
         \/ i \in Positions(l, {"act.failed"}) /\ a[i] = l[i]
         \/ i = Len(l) + 1 /\ p.kind = "act.failed" /\ a[i] = p
  BY <1>1, <1>2, AppendPositions DEF Positions
<1> HIDE DEF a
<1>7. FailuresTold(a)
  BY <1>3, <1>5, <1>6 DEF FailuresTold
<1> QED
  BY <1>7 DEF a

LEMMA ToldKept ==
  ASSUME AgentInv, ToldInv, ToldStep
  PROVE  ToldInv'
<1>1. IsLog(log) /\ Len(log) \in Nat /\ \A i \in DOMAIN log : IsPlain(log[i])
  BY LogLen DEF AgentInv, LogInv, ToldInv, IsTold
<1>2. CASE log' = log /\ Follows(beat')
  BY <1>2 DEF ToldInv, IsTold, Follows
<1>3. CASE \E p : log' = Append(log, p) /\ Tells(p, beat') /\ Follows(beat')
  <2>1. PICK p : log' = Append(log, p) /\ Tells(p, beat') /\ Follows(beat')
    BY <1>3
  <2>2. IsPlain(p) /\ p.kind \notin Inputs_
    BY <2>1 DEF Tells, IsPlain, Never, Inputs_
  <2>3. \A i \in DOMAIN log' : IsPlain(log'[i])
    BY <1>1, <2>1, <2>2, PlainStays
  <2>4. ASSUME InBeat(beat') PROVE Latest(log', {"user.input"}) > 0 /\ FailuresTold(log')
    <3>1. Latest(log, {"user.input"}) > 0 /\ FailuresTold(log)
      BY <2>1, <2>4 DEF ToldInv, IsTold, Follows
    <3>2. Latest(log', {"user.input"}) = Latest(log, {"user.input"})
      BY <1>1, <2>1, <2>2, AppendLatest DEF Inputs_
    <3>3. p.kind = "act.failed" /\ p.act.kind = "model.call" => FailureIsTold(log)
      BY <2>1, <2>4 DEF Tells
    <3>4. FailuresTold(Append(log, p))
      BY <1>1, <2>2, <3>1, <3>3, FailuresStayTold
    <3> QED
      BY <2>1, <3>1, <3>2, <3>4
  <2> QED
    BY <2>1, <2>3, <2>4 DEF ToldInv, IsTold, Follows
<1>4. CASE TurnBegins
  <2>1. PICK arg : /\ log' = Append(log, Said("user.input", arg))
                   /\ beat' = [Idle EXCEPT !.pc = "check"]
    BY <1>4 DEF TurnBegins
  <2> DEFINE p == Said("user.input", arg)
             a == Append(log, p)
  <2>2. p.kind = "user.input"
    BY DEF Said, Photon
  <2> HIDE DEF p
  <2>3. \A i \in DOMAIN a : IsPlain(a[i])
    BY <1>1, <2>2, PlainStays DEF IsPlain, Never
  <2>4. Latest(a, {"user.input"}) = Len(log) + 1 /\ Begun(a) = Len(log) + 1
    BY <1>1, <2>2, AppendLatest DEF Begun, Inputs_
  <2>5. \A i \in Positions(a, {"act.failed"}) : i \in Nat /\ i <= Len(log) + 1
    BY <1>1, AppendIsLog, LogLen DEF Positions
  <2>6. FailuresTold(a)
    <3>1. \A i \in Positions(a, {"act.failed"}) : ~(i > Begun(a))
      BY <1>1, <2>4, <2>5
    <3> QED
      BY <3>1 DEF FailuresTold
  <2>7. beat'.pc = "check" /\ log' = a
    BY <2>1 DEF Idle, p
  <2> HIDE DEF a
  <2> QED
    BY <1>1, <2>3, <2>4, <2>6, <2>7 DEF ToldInv, IsTold
<1> QED
  BY <1>2, <1>3, <1>4 DEF ToldStep

LEMMA AppendsTold ==
  ASSUME NEW p, NEW frame, NEW failed, Appends(p, frame, failed),
         Tells(p, frame), Follows(frame), Follows(failed)
  PROVE  ToldStep
BY DEF Appends, ToldStep

LEMMA IdleFollows == Follows(Idle)
BY DEF Follows, Idle, InBeat

LEMMA EndsFollows ==
  ASSUME AgentInv, beat.pc \in {"run", "model", "emit"}, NEW result
  PROVE  Follows(Ends(result))
<1>1. Ends(result).pc = "finish" /\ Ends(result).once = beat.once
  BY DEF Ends, AgentInv, FrameInv, IsFrame
<1> QED
  BY <1>1 DEF Follows, InBeat

(* Most photons may be told at any time.                                   *)
LEMMA MayBeTold ==
  ASSUME NEW p, NEW b,
         p.kind \notin Never \cup {"user.input", "ray.darkened", "act.failed", "act.rejected"}
  PROVE  Tells(p, b)
BY DEF Tells, IsPlain

LEMMA RefusalMayBeTold ==
  ASSUME NEW b
  PROVE  Tells(Said("act.rejected", 0), b)
BY DEF Tells, IsPlain, Said, Photon, NoAct, Act, Never
-----------------------------------------------------------------------------
(* Each step tells no more than it may *)

LEMMA EmitTold ==
  ASSUME AgentInv, ToldInv, Emit
  PROVE  ToldStep
<1>0. /\ IsFrame(beat) /\ beat.pc = "emit" /\ \A i \in DOMAIN beat.todo : IsPlain(beat.todo[i])
      /\ IF beat.act.kind = "model.call" THEN ModelFrame(log, beat) ELSE OtherFrame(log, beat)
  BY DEF Emit, AgentInv, FrameInv, ToldInv, IsTold
<1>1. \A result : Follows(Ends(result))
  BY <1>0, EndsFollows
<1>2. CASE log' = log /\ \E result : beat' = Ends(result)
  BY <1>1, <1>2 DEF ToldStep
<1>3. CASE beat.todo # <<>> /\ Appends(Head(beat.todo), [beat EXCEPT !.todo = Tail(@)], Ends("error"))
  <2> DEFINE p == Head(beat.todo)
             b == [beat EXCEPT !.todo = Tail(@)]
  <2>1. /\ p = beat.todo[1] /\ 1 \in DOMAIN beat.todo /\ Len(beat.todo) \in Nat
        /\ DOMAIN beat.todo = 1..Len(beat.todo)
        /\ DOMAIN Tail(beat.todo) = 1..(Len(beat.todo) - 1)
        /\ \A i \in DOMAIN Tail(beat.todo) : Tail(beat.todo)[i] = beat.todo[i + 1]
    BY <1>0, <1>3, TailIsLog DEF IsFrame
  <2>2. p.kind \in ModelPhotons \cup OtherPhotons /\ IsPlain(p)
    BY <1>0, <2>1 DEF ModelFrame, OtherFrame
  <2>3. b.pc = "emit" /\ b.once = beat.once /\ b.todo = Tail(beat.todo)
    BY <1>0 DEF IsFrame
  <2>4. Appends(p, b, Ends("error"))
    BY <1>3
  <2> HIDE DEF p, b
  <2>5. Tells(p, b)
    BY <2>2 DEF Tells, ModelPhotons, ModelAnswers, OtherPhotons, ToolResults
  <2>6. \A i \in DOMAIN Tail(beat.todo) : i + 1 \in DOMAIN beat.todo
    BY <2>1
  <2>7. Follows(b)
    BY <1>0, <2>1, <2>3, <2>6 DEF Follows, InBeat
  <2> QED
    BY <1>1, <2>4, <2>5, <2>7, AppendsTold
<1> QED
  BY <1>2, <1>3 DEF Emit

(* When a model call ends as failed inside a beat, model.failed has been said. *)
LEMMA FinishTold ==
  ASSUME AgentInv, ToldInv, Finish
  PROVE  ToldStep
<1>0. /\ IsLog(log) /\ IsFrame(beat) /\ beat.pc = "finish"
      /\ IF beat.act.kind = "model.call" THEN ModelFrame(log, beat) ELSE OtherFrame(log, beat)
      /\ \A i \in DOMAIN log : IsPlain(log[i])
  BY DEF Finish, AgentInv, LogInv, FrameInv, ToldInv, IsTold
<1>1. CASE beat.result \in {"completed", "failed", "rejected"}
  <2> DEFINE next == [Idle EXCEPT !.pc = "check", !.beats = beat.beats + 1]
             p == Photon(TerminalOf[beat.result], beat.act, 0)
             frame == IF beat.once THEN Idle ELSE next
  <2>1. Appends(p, frame, Idle)
    BY <1>1 DEF Finish, TerminalOf
  <2>2. /\ p.kind = TerminalOf[beat.result] /\ p.act = beat.act
        /\ p.kind \in ActEnds
        /\ (p.kind = "act.rejected" => beat.result = "rejected")
        /\ (p.kind = "act.failed" => beat.result = "failed")
    BY <1>1 DEF Photon, TerminalOf, ActEnds
  <2>3. Follows(frame)
    BY <1>0 DEF Follows, InBeat, Idle
  <2> HIDE DEF p, frame
  <2>4. IsPlain(p) /\ p.kind # "user.input" /\ p.kind # "ray.darkened"
    BY <1>0, <2>2 DEF IsPlain, Never, ActEnds, ModelFrame
  <2>5. p.kind = "act.failed" /\ p.act.kind = "model.call" => FailureIsTold(log)
    <3> SUFFICES ASSUME p.kind = "act.failed", p.act.kind = "model.call"
                 PROVE  FailureIsTold(log)
      OBVIOUS
    <3>1. Latest(log, {"model.failed"}) > TurnStart(log)
      BY <1>0, <2>2 DEF ModelFrame
    <3>2. Begun(log) <= TurnStart(log)
      BY <1>0, SameKinds, LatestGrows DEF TurnStart
    <3>3. \A kinds : Latest(log, kinds) \in Nat
      BY <1>0, LogLen, LatestIsLast
    <3> QED
      BY <3>1, <3>2, <3>3 DEF FailureIsTold, Begun, TurnStart
  <2>6. Tells(p, frame)
    BY <2>4, <2>5 DEF Tells
  <2> QED
    BY <2>1, <2>3, <2>6, IdleFollows, AppendsTold
<1>2. CASE beat.result \in {"error", "cancelled"}
  <2> DEFINE p == Photon("act.failed", beat.act, 0)
             abort == [beat EXCEPT !.pc = "abort"]
  <2>1. Appends(p, Idle, Idle) \/ Appends(p, abort, Idle)
    <3>1. CASE beat.result = "error"
      BY <3>1 DEF Finish, TerminalOf
    <3>2. CASE beat.result = "cancelled"
      BY <3>2 DEF Finish, TerminalOf
    <3> QED
      BY <1>2, <3>1, <3>2
  <2>2. abort.pc = "abort"
    BY <1>0 DEF IsFrame
  <2>3. p.kind = "act.failed"
    BY DEF Photon
  <2> HIDE DEF p, abort
  <2>4. Follows(abort) /\ ~InBeat(abort) /\ ~InBeat(Idle)
    BY <2>2 DEF Follows, InBeat, Idle
  <2>5. Tells(p, Idle) /\ Tells(p, abort)
    BY <2>3, <2>4 DEF Tells, IsPlain, Never
  <2> QED
    BY <2>1, <2>4, <2>5, IdleFollows, AppendsTold
<1> QED
  BY <1>0, <1>1, <1>2 DEF IsFrame, Results

LEMMA BeatTold ==
  ASSUME AgentInv, ToldInv, BeatStep \/ Return
  PROVE  ToldStep
<1> DEFINE Ended(kind) == Appends(Said(kind, 0), Idle, Idle)
<1>1. CASE \E kind \in {"ray.budget-exhausted", "ray.cancelled"} : Ended(kind)
  <2>1. PICK kind \in {"ray.budget-exhausted", "ray.cancelled"} : Ended(kind)
    BY <1>1
  <2>2. Said(kind, 0).kind = kind
    BY DEF Said, Photon
  <2>3. Tells(Said(kind, 0), Idle)
    BY <2>2, MayBeTold DEF Never
  <2> QED
    BY <2>1, <2>3, IdleFollows, AppendsTold
<1>2. CASE beat.pc = "check" /\ beat' = [beat EXCEPT !.pc = "view"] /\ log' = log
  <2>1. beat'.pc = "view" /\ InBeat(beat)
    BY <1>2 DEF AgentInv, FrameInv, IsFrame, InBeat
  <2> QED
    BY <1>2, <2>1 DEF ToldStep, Follows
<1>3. CASE Return
  BY <1>3, IdleFollows DEF Return, ToldStep
<1>4. CASE Check
  BY <1>1, <1>2, <1>4 DEF Check
<1>5. CASE Abort
  BY <1>1, <1>5 DEF Abort
<1>6. CASE Recover
  <2>1. CASE log' = log /\ beat' = Idle
    BY <2>1, IdleFollows DEF ToldStep
  <2>2. ASSUME NEW act, log' = Append(log, Photon("act.outcome-unknown", act, 0)), beat' = beat
        PROVE  ToldStep
    <3> DEFINE p == Photon("act.outcome-unknown", act, 0)
    <3>1. p.kind = "act.outcome-unknown"
      BY DEF Photon
    <3>2. log' = Append(log, p) /\ beat'.pc = "recover"
      BY <1>6, <2>2 DEF Recover
    <3> HIDE DEF p
    <3>3. Tells(p, beat') /\ Follows(beat')
      BY <3>1, <3>2, MayBeTold DEF Never, Follows, InBeat
    <3> QED
      BY <3>2, <3>3 DEF ToldStep
  <2> QED
    BY <1>6, <2>1, <2>2 DEF Recover
<1> QED
  BY <1>3, <1>4, <1>5, <1>6, EmitTold, FinishTold DEF BeatStep

LEMMA ViewTold ==
  ASSUME AgentInv, ToldInv, NEW admitted \in BOOLEAN, View(Proposal, admitted)
  PROVE  ToldStep
<1>1. beat.pc = "view" /\ InBeat(beat) /\ IsFrame(beat)
  BY DEF View, InBeat, AgentInv, FrameInv
<1>2. CASE Proposal = NoAct
  <2> DEFINE frame == [Idle EXCEPT !.pc = "dark"]
  <2>1. JanusView(log) = NoAct
    BY <1>2 DEF Proposal
  <2>2. Appends(Said("ray.darkened", 0), frame, Idle)
    BY <1>2 DEF View
  <2>3. Tells(Said("ray.darkened", 0), frame)
    BY <1>1, <2>1 DEF Tells, IsPlain, Never, Said, Photon
  <2>4. Follows(frame)
    BY DEF Follows, InBeat, Idle
  <2> QED
    BY <2>2, <2>3, <2>4, IdleFollows, AppendsTold
<1>3. CASE Proposal # NoAct /\ ~admitted
  <2>1. Appends(Said("act.rejected", 0), Idle, Idle)
    BY <1>3 DEF View
  <2> QED
    BY <2>1, RefusalMayBeTold, IdleFollows, AppendsTold
<1>4. CASE Proposal # NoAct /\ admitted
  <2> DEFINE p == Photon("act.started", Proposal, 0)
             frame == [beat EXCEPT !.pc = "run", !.act = Proposal]
  <2>1. Appends(p, frame, Idle)
    BY <1>4 DEF View
  <2>2. frame.pc = "run"
    BY <1>1 DEF IsFrame
  <2>3. p.kind = "act.started"
    BY DEF Photon
  <2> HIDE DEF p, frame
  <2>4. Tells(p, frame) /\ Follows(frame)
    BY <1>1, <2>2, <2>3, MayBeTold DEF Never, Follows
  <2> QED
    BY <2>1, <2>4, IdleFollows, AppendsTold
<1> QED
  BY <1>2, <1>3, <1>4

LEMMA ClientActTold ==
  ASSUME AgentInv, ToldInv, ClientAct
  PROVE  ToldStep
<1>1. PICK act \in ClientActs, admitted \in BOOLEAN : Refract(act, admitted)
  BY DEF ClientAct
<1>2. CASE ~admitted
  <2>1. log' = Append(log, Said("act.rejected", 0)) /\ beat' = Idle
    BY <1>1, <1>2 DEF Refract
  <2> QED
    BY <2>1, RefusalMayBeTold, IdleFollows DEF ToldStep
<1>3. CASE admitted
  <2> DEFINE p == Photon("act.started", act, 0)
  <2>1. log' = Append(log, p) /\ beat'.pc = "run" /\ beat'.once
    BY <1>1, <1>3 DEF Refract, Idle
  <2>2. p.kind = "act.started"
    BY DEF Photon
  <2> HIDE DEF p
  <2>3. Tells(p, beat') /\ Follows(beat')
    BY <2>1, <2>2, MayBeTold DEF Never, Follows, InBeat
  <2> QED
    BY <2>1, <2>3 DEF ToldStep
<1> QED
  BY <1>2, <1>3

(* A Lens begins to emit.                                                  *)
LEMMA RunsTold ==
  ASSUME AgentInv, beat.pc \in {"run", "model"}, NEW todo, NEW result, Runs(todo, result),
         \A i \in DOMAIN todo : IsPlain(todo[i])
  PROVE  ToldStep
<1>1. beat'.pc = "emit" /\ beat'.once = beat.once /\ beat'.todo = todo /\ log' = log
  BY DEF Runs, AgentInv, FrameInv, IsFrame
<1> QED
  BY <1>1 DEF ToldStep, Follows, InBeat

LEMMA RunTold ==
  ASSUME AgentInv, ToldInv, RunJanus \/ RunFallen \/ RunTool
  PROVE  ToldStep
<1>1. ASSUME NEW p, NEW result, Runs(<<p>>, result), beat.pc = "run",
             p.kind \notin Never \cup {"act.rejected"}
      PROVE  ToldStep
  <2>1. \A i \in DOMAIN <<p>> : IsPlain(<<p>>[i])
    BY <1>1, OnePhoton DEF IsPlain
  <2> QED
    BY <1>1, <2>1, RunsTold
<1>2. CASE RunJanus
  <2>1. JanusEmits(beat.act).kind \notin Never \cup {"act.rejected"}
    BY DEF JanusEmits, Said, Photon, Never
  <2> QED
    BY <1>1, <1>2, <2>1 DEF RunJanus
<1>3. CASE RunFallen
  <2> DEFINE p == FallenEmits(log, beat.act.arg.approved, beat.act.arg.decision)
  <2>1. p.kind \notin Never \cup {"act.rejected"}
    BY DEF FallenEmits, Said, Photon, Never
  <2>2. Runs(<<p>>, "completed") /\ beat.pc = "run"
    BY <1>3 DEF RunFallen
  <2> HIDE DEF p
  <2> QED
    BY <1>1, <2>1, <2>2
<1>4. CASE RunTool
  <2>1. CASE \E kind \in {"tool.result", "process.exited"} : \E result : Runs(<<Said(kind, 0)>>, result)
    <3>1. PICK kind \in {"tool.result", "process.exited"} : \E result : Runs(<<Said(kind, 0)>>, result)
      BY <2>1
    <3>2. PICK result : Runs(<<Said(kind, 0)>>, result)
      BY <3>1
    <3>3. Said(kind, 0).kind \notin Never \cup {"act.rejected"}
      BY DEF Said, Photon, Never
    <3> QED
      BY <1>1, <1>4, <3>2, <3>3 DEF RunTool
  <2>2. CASE \E result : Runs(<<>>, result)
    <3>1. DOMAIN <<>> = {}
      OBVIOUS
    <3> QED
      BY <1>4, <2>2, <3>1, RunsTold DEF RunTool
  <2> QED
    BY <1>4, <2>1, <2>2 DEF RunTool
<1> QED
  BY <1>2, <1>3, <1>4

LEMMA AnswersArePlain ==
  ASSUME NEW told, \A i \in DOMAIN told : told[i].kind \in ModelPhotons
  PROVE  \A i \in DOMAIN told : IsPlain(told[i])
BY DEF IsPlain, Never, ModelPhotons, ModelAnswers

LEMMA RheaTold ==
  ASSUME AgentInv, ToldInv, RheaStep
  PROVE  ToldStep
<1>1. CASE Request
  <2> DEFINE p == Said("model.requested", 0)
             remote == [beat EXCEPT !.pc = "model"]
             local == [beat EXCEPT !.pc = "emit", !.todo = LocalAnswer, !.result = "completed"]
             frame == IF log[Latest(log, {"user.input"})].arg = "remote" THEN remote ELSE local
  <2>1. Appends(p, frame, Ends("error")) /\ beat.pc = "run" /\ IsFrame(beat)
    BY <1>1 DEF Request, AgentInv, FrameInv
  <2>2. p.kind = "model.requested"
    BY DEF Said, Photon
  <2>3. remote.pc = "model" /\ remote.once = beat.once
    BY <2>1 DEF IsFrame
  <2>4. local.pc = "emit" /\ local.once = beat.once /\ local.todo = LocalAnswer
    BY <2>1 DEF IsFrame
  <2>5. \A i \in DOMAIN LocalAnswer : IsPlain(LocalAnswer[i])
    BY LocalAnswerEnds, AnswersArePlain
  <2> HIDE DEF p, remote, local
  <2>6. Follows(remote) /\ Follows(local)
    BY <2>1, <2>3, <2>4, <2>5 DEF Follows, InBeat
  <2>7. Follows(frame) /\ Follows(Ends("error"))
    BY <2>1, <2>6, EndsFollows
  <2> HIDE DEF frame
  <2>8. Tells(p, frame)
    BY <2>2, MayBeTold DEF Never
  <2> QED
    BY <2>1, <2>7, <2>8, AppendsTold
<1>2. CASE beat.pc = "model"
  <2>1. \A result : Follows(Ends(result))
    BY <1>2, EndsFollows
  <2>2. CASE log' = log /\ (beat' = beat \/ beat' = Ends("error") \/ beat' = Ends("cancelled"))
    BY <1>2, <2>1, <2>2 DEF ToldStep, Follows
  <2>3. CASE Responds
    <3>1. PICK r \in Responses : Runs(Answer(Calls(Parsed(r)), Parsed(r).text > 0), "completed")
      BY <2>3 DEF Responds
    <3> DEFINE told == Answer(Calls(Parsed(r)), Parsed(r).text > 0)
    <3>2. \A i \in DOMAIN told : told[i].kind \in ModelPhotons
      BY ParsedAnswerEnds
    <3> HIDE DEF told
    <3>3. Runs(told, "completed")
      BY <3>1 DEF told
    <3> QED
      BY <1>2, <3>2, <3>3, AnswersArePlain, RunsTold
  <2>4. CASE GivesUp
    <3> DEFINE p == Said("model.failed", 0)
    <3>1. Appends(p, Ends("failed"), Ends("error"))
      BY <2>4 DEF GivesUp
    <3>2. p.kind = "model.failed"
      BY DEF Said, Photon
    <3> HIDE DEF p
    <3>3. Tells(p, Ends("failed"))
      BY <3>2, MayBeTold DEF Never
    <3> QED
      BY <2>1, <3>1, <3>3, AppendsTold
  <2> QED
    BY <1>2, <2>2, <2>3, <2>4
       DEF RheaStep, Request, Misconfigured, NoCredential, Stopped, Refused, Retry, Expired, Keep
<1> QED
  BY <1>1, <1>2 DEF RheaStep, Misconfigured, NoCredential, Stopped, Responds, Refused,
                     Retry, GivesUp, Expired

LEMMA PutTold ==
  ASSUME AgentInv, ToldInv, Observe \/ Register \/ Unregister \/ SendFrame
  PROVE  ToldStep
<1>1. PICK kind \in {"external.catalog-observed", "tool.registered",
                     "tool.unregistered", "code.frame"} : \E arg : Put(Said(kind, arg))
  <2>1. CASE Observe
    BY <2>1 DEF Observe
  <2>2. CASE Register
    BY <2>2 DEF Register
  <2>3. CASE Unregister
    BY <2>3 DEF Unregister
  <2>4. CASE SendFrame
    BY <2>4 DEF SendFrame
  <2> QED
    BY <2>1, <2>2, <2>3, <2>4
<1>2. PICK arg : Put(Said(kind, arg))
  BY <1>1
<1> DEFINE p == Said(kind, arg)
<1>3. p.kind = kind
  BY DEF Said, Photon
<1>4. log' = Append(log, p) /\ beat' = beat /\ beat.pc = "idle"
  BY <1>2 DEF Put
<1> HIDE DEF p
<1>5. Tells(p, beat') /\ Follows(beat')
  BY <1>3, <1>4, MayBeTold DEF Never, Follows
<1> QED
  BY <1>4, <1>5 DEF ToldStep

LEMMA StepTold ==
  ASSUME AgentInv, ToldInv, [Next]_vars
  PROVE  ToldStep
<1>1. CASE log' = log /\ beat' = beat
  BY <1>1 DEF ToldStep, Follows, ToldInv, IsTold
<1>2. CASE Turn
  <2>1. PICK arg : Submit(arg)
    BY <1>2 DEF Turn
  <2> QED
    BY <2>1, IdleFollows DEF Submit, Appends, ToldStep, TurnBegins
<1>3. CASE Advance
  BY <1>3, BeatTold, ViewTold DEF Advance
<1>4. CASE RunJanus \/ RunFallen \/ RunTool
  BY <1>4, RunTold
<1>5. CASE ModelCall
  BY <1>5, RheaTold DEF ModelCall
<1>6. CASE ClientAct
  BY <1>6, ClientActTold
<1>7. CASE Observe \/ Register \/ Unregister \/ SendFrame
  BY <1>7, PutTold
<1>8. CASE Remount \/ Cancel
  BY <1>1, <1>8 DEF Remount, Cancel, CancelRay
<1>9. CASE Restart
  <2>1. log' = log /\ beat'.pc = "recover"
    BY <1>9 DEF Restart, Crash, Idle
  <2> QED
    BY <2>1 DEF ToldStep, Follows, InBeat
<1>10. CASE UNCHANGED vars
  BY <1>1, <1>10 DEF vars, beatVars
<1> QED
  BY <1>2, <1>3, <1>4, <1>5, <1>6, <1>7, <1>8, <1>9, <1>10 DEF Next
-----------------------------------------------------------------------------
(* What the desktop tells of a turn that has gone dark *)

\* What is known of the log when the turn goes dark.
IsSettled(l) ==
    /\ IsLog(l)
    /\ \A i \in DOMAIN l : IsPlain(l[i])
    /\ Latest(l, {"user.input"}) > 0
    /\ FailuresTold(l)
    /\ Answered(l)
    /\ Terminated(l) \/ Complete(l) \/ PendingTool(l) \/ WaitingModel(l)

LEMMA LastInTurnIs ==
  ASSUME NEW l, IsLog(l), NEW kinds
  PROVE  /\ LastInTurn(l, kinds) =
              IF Latest(l, kinds) >= Begun(l) THEN Latest(l, kinds) ELSE 0
         /\ LastInTurn(l, kinds) # 0 => LastInTurn(l, kinds) \in InTurn(l, kinds)
<1> DEFINE S == InTurn(l, kinds) \cup {0}
           m == Max(S)
           t == Latest(l, kinds)
           u == Begun(l)
<1>1. S \in SUBSET Nat /\ S # {} /\ \A x \in S : x <= Len(l)
  BY LogLen DEF InTurn, ThisTurn, Positions
<1>2. m \in S /\ \A x \in S : x <= m
  BY <1>1, LogLen, Largest
<1>3. /\ t \in Nat /\ u \in Nat /\ (t # 0 => t \in Positions(l, kinds))
      /\ \A i \in Positions(l, kinds) : i <= t
  BY LatestIsLast, LogLen DEF Begun
<1>4. \A i : i \in InTurn(l, kinds) <=> i \in Positions(l, kinds) /\ i >= u
  BY DEF InTurn, ThisTurn, Positions, Begun
<1> HIDE DEF t, u
<1>5. \A x \in S : x \in Nat /\ (x # 0 => x \in Positions(l, kinds) /\ x >= u /\ x <= t)
  BY <1>1, <1>3, <1>4
<1>6. t # 0 /\ t >= u => t \in S
  BY <1>3, <1>4
<1>7. m # 0 => m \in InTurn(l, kinds)
  BY <1>2
<1> HIDE DEF m, S
<1>8. m \in Nat /\ (m # 0 => m >= u /\ m <= t)
  BY <1>2, <1>5
<1>9. m = IF t >= u THEN t ELSE 0
  <2>1. CASE t >= u /\ t # 0
    BY <1>2, <1>3, <1>6, <1>8, <2>1
  <2>2. CASE ~(t >= u) \/ t = 0
    BY <1>3, <1>8, <2>2
  <2> QED
    BY <2>1, <2>2
<1> QED
  BY <1>7, <1>9 DEF LastInTurn, m, S, t, u

(* A turn whose answer is the last word is shown as answered or completed,  *)
(* unless a failure came after it.                                         *)
LEMMA CompleteIsShown ==
  ASSUME NEW l, IsSettled(l), Complete(l),
         LastInTurn(l, {"model.tool-call"}) <= ResultOf(l)
  PROVE  Trace(l) \in {"failed", "completed", "replied"}
<1> DEFINE call == LastInTurn(l, {"model.tool-call"})
           result == LastInTurn(l, Verifiable)
           assistant == LastInTurn(l, {"assistant.message"})
           failure == LastInTurn(l, {"model.failed", "act.failed", "act.rejected"})
           lastCall == Latest(l, {"model.tool-call"})
           last == Latest(l, ToolResults)
           answer == Latest(l, {"assistant.message"})
           start == TurnStart(l)
           u == Begun(l)
<1>1. /\ IsLog(l) /\ u > 0 /\ last = Latest(l, Verifiable) /\ u <= start
  BY SameKinds, LatestGrows DEF IsSettled, TurnStart
<1>2. \A kinds : Latest(l, kinds) \in Nat
  BY <1>1, LogLen, LatestIsLast
<1>3. /\ call = (IF lastCall >= u THEN lastCall ELSE 0)
      /\ result = (IF last >= u THEN last ELSE 0)
      /\ assistant = (IF answer >= u THEN answer ELSE 0)
  BY <1>1, LastInTurnIs
<1>4. /\ u \in Nat /\ start \in Nat /\ last \in Nat /\ lastCall \in Nat /\ answer \in Nat
  BY <1>2 DEF Begun, TurnStart
<1>5. /\ answer > start
      /\ (ResultOf(l) > lastCall => answer > ResultOf(l))
      /\ ResultOf(l) = IF last > start THEN last ELSE 0
  BY DEF Complete, ResultReady, ResultOf
<1>6. last = lastCall => last = 0
  BY <1>1, LatestDiffer DEF ToolResults
<1>7. call <= ResultOf(l)
  OBVIOUS
<1> HIDE DEF call, result, assistant, failure, lastCall, last, answer, start, u
<1>8. assistant = answer /\ assistant > 0
  BY <1>1, <1>3, <1>4, <1>5
<1>9. CASE call = 0
  BY <1>8, <1>9 DEF Trace, call, result, assistant, failure
<1>10. CASE call # 0
  <2>1. call = lastCall /\ call > 0
    BY <1>3, <1>4, <1>10
  <2>2. ResultOf(l) = last /\ last > start
    BY <1>4, <1>5, <1>7, <2>1
  <2>3. result = last /\ last > lastCall
    BY <1>1, <1>3, <1>4, <1>6, <1>7, <2>1, <2>2
  <2>4. call > 0 /\ result > call /\ assistant > result
    BY <1>5, <1>8, <2>1, <2>2, <2>3
  <2> QED
    BY <2>4 DEF Trace, call, result, assistant, failure
<1> QED
  BY <1>9, <1>10

(* A failed turn closes as failed or has a row that tells it.              *)
LEMMA FailureIsShown ==
  ASSUME NEW l, IsSettled(l), Trace(l) = "failed"
  PROVE  \E i \in Rows(l) : RowTone(l[i]) = "danger"
<1> DEFINE kinds == {"model.failed", "act.failed", "act.rejected"}
           f == LastInTurn(l, kinds)
           told == Latest(l, {"model.failed"})
<1>1. IsLog(l) /\ Len(l) \in Nat /\ DOMAIN l = 1..Len(l)
  BY LogLen DEF IsSettled
<1>2. \A k : LastInTurn(l, k) \in Nat
  BY <1>1, LatestIsLast, LogLen, LastInTurnIs
<1>3. f # 0
  <2>1. f > LastInTurn(l, {"assistant.message"})
    BY DEF Trace
  <2> HIDE DEF f
  <2> QED
    BY <1>2, <2>1
<1>4. f \in Positions(l, kinds) /\ f >= Begun(l)
  BY <1>1, <1>3, LastInTurnIs DEF InTurn, ThisTurn, Begun
<1>5. ASSUME NEW i \in DOMAIN l, i >= Begun(l), l[i].kind \in kinds,
             l[i].kind = "act.failed" => l[i].act.kind # "model.call"
      PROVE  i \in Rows(l) /\ RowTone(l[i]) = "danger"
  <2>1. l[i].kind = "act.rejected" => l[i].act.kind # "model.call"
    BY <1>5 DEF IsSettled, IsPlain
  <2>2. HasRow(l[i])
    BY <1>5, <2>1 DEF HasRow, Bad
  <2>3. RowTone(l[i]) = "danger"
    BY <1>5 DEF RowTone, Bad, Good
  <2> QED
    BY <1>5, <2>2, <2>3 DEF Rows, ThisTurn, Begun
<1> HIDE DEF f
<1>6. CASE l[f].kind = "act.failed" => l[f].act.kind # "model.call"
  BY <1>4, <1>5, <1>6 DEF Positions
<1>7. CASE l[f].kind = "act.failed" /\ l[f].act.kind = "model.call"
  <2>1. f # Begun(l)
    <3>1. Begun(l) # 0 => Begun(l) \in Positions(l, Inputs_)
      BY <1>1, LatestIsLast DEF Begun
    <3> QED
      BY <1>3, <1>7, <3>1 DEF Positions, Inputs_
  <2>2. f > Begun(l) /\ f \in Positions(l, {"act.failed"})
    <3>1. Begun(l) \in Nat /\ f \in Nat
      BY <1>1, <1>4, LatestIsLast DEF Begun, Positions
    <3> QED
      BY <1>4, <1>7, <2>1, <3>1 DEF Positions
  <2>3. told > Begun(l)
    BY <1>7, <2>2 DEF IsSettled, FailuresTold, FailureIsTold
  <2>4. told \in Nat /\ Begun(l) \in Nat /\ (told # 0 => told \in Positions(l, {"model.failed"}))
    BY <1>1, LatestIsLast DEF Begun
  <2> HIDE DEF told
  <2>5. told \in Positions(l, {"model.failed"}) /\ told >= Begun(l)
    BY <2>3, <2>4
  <2>6. told \in DOMAIN l /\ l[told].kind = "model.failed"
    BY <2>5 DEF Positions
  <2> QED
    BY <1>5, <2>5, <2>6
<1> QED
  BY <1>6, <1>7

LEMMA SettledIsTold ==
  ASSUME NEW l, IsSettled(l)
  PROVE  /\ \/ Trace(l) \in {"failed", "completed", "replied"}
            \/ Terminated(l)
            \/ LastInTurn(l, {"model.tool-call"}) > ResultOf(l)
            \/ InTurn(l, {"model.failed"}) # {}
         /\ Trace(l) = "completed" => Closing(l) = "task.completed"
         /\ Trace(l) = "failed" =>
               Closing(l) = "task.failed" \/ \E i \in Rows(l) : RowTone(l[i]) = "danger"
<1> DEFINE call == Latest(l, {"model.tool-call"})
           failed == Latest(l, {"model.failed"})
<1>1. IsLog(l) /\ Begun(l) > 0 /\ Begun(l) <= TurnStart(l)
  BY SameKinds, LatestGrows DEF IsSettled, TurnStart
<1>2. \A kinds : Latest(l, kinds) \in Nat
  BY <1>1, LogLen, LatestIsLast
<1>3. Begun(l) \in Nat /\ TurnStart(l) \in Nat /\ ResultOf(l) \in Nat /\ Asked(l) \in Nat
  BY <1>2 DEF Begun, TurnStart, ResultOf, Asked
<1>4. \A kinds : LastInTurn(l, kinds) \in Nat
  BY <1>1, <1>2, LastInTurnIs
<1>5. \/ Trace(l) \in {"failed", "completed", "replied"}
      \/ Terminated(l)
      \/ LastInTurn(l, {"model.tool-call"}) > ResultOf(l)
      \/ InTurn(l, {"model.failed"}) # {}
  <2>1. CASE Terminated(l)
    BY <2>1
  <2>2. CASE Complete(l)
    <3>1. CASE LastInTurn(l, {"model.tool-call"}) <= ResultOf(l)
      BY <2>2, <3>1, CompleteIsShown
    <3>2. CASE ~(LastInTurn(l, {"model.tool-call"}) <= ResultOf(l))
      BY <1>3, <1>4, <3>2
    <3> QED
      BY <3>1, <3>2
  <2>3. CASE PendingTool(l)
    <3>1. call > TurnStart(l) /\ ResultOf(l) < call
      BY <2>3 DEF PendingTool
    <3>2. LastInTurn(l, {"model.tool-call"}) = IF call >= Begun(l) THEN call ELSE 0
      BY <1>1, LastInTurnIs
    <3>3. call \in Nat
      BY <1>2
    <3> HIDE DEF call
    <3> QED
      BY <1>1, <1>3, <3>1, <3>2, <3>3
  <2>4. CASE WaitingModel(l)
    <3>1. Asked(l) > TurnStart(l) /\ Latest(l, {"model.completed"}) < Asked(l)
      BY <2>4 DEF WaitingModel, Asked
    <3>2. ~(failed < TurnStart(l))
      BY <1>2, <1>3, <3>1 DEF IsSettled, Answered
    <3>3. /\ LastInTurn(l, {"model.failed"}) = IF failed >= Begun(l) THEN failed ELSE 0
          /\ (LastInTurn(l, {"model.failed"}) # 0 =>
                LastInTurn(l, {"model.failed"}) \in InTurn(l, {"model.failed"}))
      BY <1>1, LastInTurnIs
    <3>4. failed \in Nat
      BY <1>2
    <3> HIDE DEF failed
    <3>5. LastInTurn(l, {"model.failed"}) # 0
      BY <1>1, <1>3, <3>2, <3>3, <3>4
    <3> QED
      BY <3>3, <3>5
  <2> QED
    BY <2>1, <2>2, <2>3, <2>4 DEF IsSettled
<1>6. Trace(l) = "completed" => Closing(l) = "task.completed"
  <2> DEFINE c == LastInTurn(l, {"model.tool-call"})
             r == LastInTurn(l, Verifiable)
             a == LastInTurn(l, {"assistant.message"})
  <2> SUFFICES ASSUME Trace(l) = "completed" PROVE Closing(l) = "task.completed"
    OBVIOUS
  <2>1. c > 0 /\ r > c /\ a > r
    BY DEF Trace
  <2>2. c \in Nat /\ r \in Nat /\ (c # 0 => c \in InTurn(l, {"model.tool-call"}))
    BY <1>1, <1>4, LastInTurnIs
  <2> HIDE DEF c, r, a
  <2>3. r > 0 /\ a > r /\ InTurn(l, {"model.tool-call"}) # {}
    BY <2>1, <2>2
  <2> QED
    BY <2>3 DEF Closing, c, r, a
<1> QED
  BY <1>5, <1>6, FailureIsShown

(* When nobody proposes anything, the log that is darkened is settled.     *)
LEMMA DarkIsSettled ==
  ASSUME AgentInv, ToldInv, beat.pc = "view", InBeat(beat), JanusView(log) = NoAct,
         NEW p, p.kind = "ray.darkened"
  PROVE  IsSettled(Append(log, p))
<1> DEFINE a == Append(log, p)
<1>1. /\ IsLog(log) /\ Answered(log) /\ Latest(log, {"user.input"}) > 0 /\ FailuresTold(log)
      /\ \A i \in DOMAIN log : IsPlain(log[i])
  BY DEF AgentInv, LogInv, FrameInv, ToldInv, IsTold
<1>2. \A kinds : "ray.darkened" \notin kinds =>
          /\ Latest(a, kinds) = Latest(log, kinds)
          /\ Positions(a, kinds) = Positions(log, kinds)
  <2> SUFFICES ASSUME NEW kinds, "ray.darkened" \notin kinds
               PROVE  /\ Latest(a, kinds) = Latest(log, kinds)
                      /\ Positions(a, kinds) = Positions(log, kinds)
    OBVIOUS
  <2> DEFINE now == Positions(a, kinds)
  <2>1. /\ Latest(a, kinds) = Latest(log, kinds)
        /\ now = Positions(log, kinds) \cup (IF p.kind \in kinds THEN {Len(log) + 1} ELSE {})
    BY <1>1, AppendLatest, AppendPositions
  <2> HIDE DEF now
  <2>2. now = Positions(log, kinds)
    BY <2>1
  <2> QED
    BY <2>1, <2>2 DEF now
<1>3. IsLog(a) /\ Answered(a)
  BY <1>1, AppendIsLog, AnsweredStays
<1>4. \A i \in DOMAIN a : IsPlain(a[i])
  BY <1>1, PlainStays DEF IsPlain, Never
<1>5. FailuresTold(a)
  BY <1>1, FailuresStayTold DEF Inputs_
<1> HIDE DEF a
<1>6. Latest(a, {"user.input"}) > 0
  BY <1>1, <1>2
<1>7. JanusState(log) \notin {"budget_exhausted", "oscillation_stopped", "need_model"}
  BY SomeActs DEF JanusView
<1>8. Latest(log, {"user.input"}) # 0
  BY <1>1
<1>9. Terminated(log) \/ Complete(log) \/ PendingTool(log) \/ WaitingModel(log)
  BY <1>7, <1>8 DEF JanusState
<1>10. TurnStart(a) = TurnStart(log) /\ ResultOf(a) = ResultOf(log)
  BY <1>2 DEF TurnStart, ResultOf, ToolResults
<1>11. Terminated(a) = Terminated(log)
  BY <1>2, <1>10 DEF Terminated
<1>12. PendingTool(a) = PendingTool(log) /\ ResultReady(a) = ResultReady(log)
  BY <1>2, <1>10 DEF PendingTool, ResultReady
<1>13. Complete(a) = Complete(log) /\ WaitingModel(a) = WaitingModel(log)
  BY <1>2, <1>10, <1>12 DEF Complete, WaitingModel
<1> QED
  BY <1>3, <1>4, <1>5, <1>6, <1>9, <1>11, <1>12, <1>13 DEF IsSettled, a

LEMMA SettledKept ==
  ASSUME AgentInv, ToldInv, SettledTurnsAreTold, [Next]_vars
  PROVE  SettledTurnsAreTold' /\ ToldInv'
<1>0. ToldStep
  BY StepTold
<1>1. ASSUME log' = log PROVE SettledTurnsAreTold'
  BY <1>1 DEF SettledTurnsAreTold, Now
<1>2. ASSUME NEW p, log' = Append(log, p), p.kind # "ray.darkened"
      PROVE  SettledTurnsAreTold'
  <2>1. ~Now("ray.darkened")'
    BY <1>2, NowAndBefore
  <2> QED
    BY <2>1 DEF SettledTurnsAreTold
<1>3. ASSUME NEW p, log' = Append(log, p), p.kind = "ray.darkened", Tells(p, beat')
      PROVE  SettledTurnsAreTold'
  <2>1. IsSettled(Append(log, p))
    BY <1>3, DarkIsSettled DEF Tells
  <2>2. IsSettled(log')
    BY <1>3, <2>1
  <2> QED
    BY <2>2, SettledIsTold DEF SettledTurnsAreTold
<1>4. ASSUME TurnBegins PROVE SettledTurnsAreTold'
  <2>1. PICK arg : log' = Append(log, Said("user.input", arg))
    BY <1>4 DEF TurnBegins
  <2> DEFINE p == Said("user.input", arg)
  <2>2. p.kind # "ray.darkened"
    BY DEF Said, Photon
  <2>3. log' = Append(log, p)
    BY <2>1
  <2> HIDE DEF p
  <2> QED
    BY <1>2, <2>2, <2>3
<1>5. SettledTurnsAreTold'
  BY <1>0, <1>1, <1>2, <1>3, <1>4 DEF ToldStep
<1> QED
  BY <1>0, <1>5, ToldKept

LEMMA ToldInit == ASSUME Init PROVE ToldInv /\ SettledTurnsAreTold
<1>1. log = <<>> /\ beat = Idle
  BY DEF Init, BeatInit
<1>2. DOMAIN log = {}
  BY <1>1
<1> QED
  BY <1>1, <1>2 DEF ToldInv, IsTold, InBeat, Idle, SettledTurnsAreTold, Now

(* A turn that has gone dark is told as it ended: never as running, never   *)
(* as completed or failed in the trace alone (ui_projection.cpp:249-325,    *)
(* 876-941, after janus_lens.cpp, derive_state).                           *)
THEOREM DarkTurnsAreTold == Spec => []SettledTurnsAreTold
<1>1. Init => ToldInv /\ SettledTurnsAreTold
  BY ToldInit
<1>2. AgentInv /\ ToldInv /\ SettledTurnsAreTold /\ [Next]_vars => (ToldInv /\ SettledTurnsAreTold)'
  BY SettledKept
<1> QED
  BY <1>1, <1>2, AgentInvHolds, PTL DEF Spec
=============================================================================
