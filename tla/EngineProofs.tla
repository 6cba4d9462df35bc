---------------------------- MODULE EngineProofs ----------------------------
(***************************************************************************)
(* What TLAPS proves of the engine: its types, that closing a generation   *)
(* leaves no Beam unaware, that every terminal photon closes a start, that *)
(* a cancelled ray starts one more Act at most, and that the log is a trail *)
(* on which each Act is started once and then settled once.                *)
(***************************************************************************)
EXTENDS MCEngine, FiniteSetTheorems, TLAPS

(* How one more photon changes what is open in a log. *)

\* Appending a photon that does not end a leaves a open.
LEMMA OpenStays ==
    ASSUME NEW S, NEW l \in Seq(S), NEW p \in S, NEW a, Open(l, a), ~Ends(p, a)
    PROVE  Open(Append(l, p), a)
<1>1. PICK i \in DOMAIN l : /\ Starts(l[i], a)
                            /\ \A j \in DOMAIN l : j > i => ~Ends(l[j], a)
  BY DEF Open
<1>2. /\ Len(Append(l, p)) = Len(l) + 1
      /\ Append(l, p)[Len(l) + 1] = p
      /\ \A j \in 1..Len(l) : Append(l, p)[j] = l[j]
      /\ DOMAIN Append(l, p) = 1..(Len(l) + 1)
      /\ DOMAIN l = 1..Len(l)
  OBVIOUS
<1>3. \A j \in DOMAIN Append(l, p) : j > i => ~Ends(Append(l, p)[j], a)
  BY <1>1, <1>2
<1>4. i \in DOMAIN Append(l, p) /\ Starts(Append(l, p)[i], a)
  BY <1>1, <1>2
<1> QED BY <1>3, <1>4 DEF Open

\* act.started opens its Act.
LEMMA StartOpens ==
    ASSUME NEW S, NEW l \in Seq(S), NEW p \in S, NEW a, Starts(p, a)
    PROVE  Open(Append(l, p), a)
<1>1. /\ Append(l, p)[Len(l) + 1] = p
      /\ DOMAIN Append(l, p) = 1..(Len(l) + 1)
      /\ Len(l) + 1 \in DOMAIN Append(l, p)
      /\ \A j \in DOMAIN Append(l, p) : ~(j > Len(l) + 1)
  OBVIOUS
<1> QED BY <1>1 DEF Open

(* A log whose ends all close a start keeps that form when the photon       *)
(* appended ends only Acts that are open.                                   *)
LEMMA CloseStays ==
    ASSUME NEW S, NEW l \in Seq(S), NEW p \in S, NEW acts,
           TerminalsClose(l, acts),
           \A a \in acts : Ends(p, a) => Open(l, a)
    PROVE  TerminalsClose(Append(l, p), acts)
<1> DEFINE m == Append(l, p)
<1>1. /\ m[Len(l) + 1] = p
      /\ \A j \in 1..Len(l) : m[j] = l[j]
      /\ DOMAIN m = 1..(Len(l) + 1)
      /\ DOMAIN l = 1..Len(l)
      /\ Len(l) \in Nat
  OBVIOUS
<1> HIDE DEF m
<1>2. SUFFICES ASSUME NEW j \in DOMAIN m, NEW a \in acts, Ends(m[j], a)
               PROVE  \E i \in 1..(j - 1) :
                         /\ Starts(m[i], a)
                         /\ \A k \in (i + 1)..(j - 1) : ~Ends(m[k], a)
  BY DEF TerminalsClose, m
<1>3. CASE j \in DOMAIN l
  <2>1. PICK i \in 1..(j - 1) : /\ Starts(l[i], a)
                                /\ \A k \in (i + 1)..(j - 1) : ~Ends(l[k], a)
    BY <1>1, <1>2, <1>3 DEF TerminalsClose
  <2>2. Starts(m[i], a) /\ \A k \in (i + 1)..(j - 1) : ~Ends(m[k], a)
    BY <1>1, <1>3, <2>1
  <2> QED BY <2>2
<1>4. CASE j = Len(l) + 1
  <2>1. Open(l, a)
    BY <1>1, <1>2, <1>4
  <2>2. PICK i \in DOMAIN l : /\ Starts(l[i], a)
                              /\ \A k \in DOMAIN l : k > i => ~Ends(l[k], a)
    BY <2>1 DEF Open
  <2>3. i \in 1..(j - 1) /\ Starts(m[i], a)
    BY <1>1, <1>4, <2>2
  <2>4. \A k \in (i + 1)..(j - 1) : ~Ends(m[k], a)
    BY <1>1, <1>4, <2>2
  <2> QED BY <2>3, <2>4
<1> QED BY <1>1, <1>3, <1>4

\* What recovery takes for unfinished is open, if it has read the whole log.
LEMMA UnsettledIsOpen ==
    ASSUME NEW S, NEW l \in Seq(S), NEW limit \in Nat, Len(l) <= limit,
           NEW acts, NEW a \in Unsettled(ReadAll(l, limit), acts)
    PROVE  Open(l, a)
<1>1. Len(l) \in Nat /\ DOMAIN l = 1..Len(l)
  OBVIOUS
<1>2. Len(l) < limit \/ Len(l) = limit
  <2>1. \A n \in Nat : n <= limit => n < limit \/ n = limit
    OBVIOUS
  <2> QED BY <1>1, <2>1
<1>3. ReadAll(l, limit) = SubSeq(l, 1, Len(l))
  BY <1>1, <1>2 DEF ReadAll
<1>4. /\ DOMAIN SubSeq(l, 1, Len(l)) = 1..Len(l)
      /\ \A i \in 1..Len(l) : SubSeq(l, 1, Len(l))[i] = l[i]
  BY <1>1
<1> QED BY <1>1, <1>3, <1>4 DEF Unsettled, Open
-----------------------------------------------------------------------------

Photons == [kind : Kinds, ray : Rays \cup {NoRay}, act : Acts \cup {NoAct}]

Procs == [phase : {"down", "recovering", "up"}, unsettled : SUBSET Acts,
          stopping : BOOLEAN, cancelled : SUBSET Rays, stopQueue : SUBSET Rays,
          path : Nat, closed : SUBSET Nat]

Frames == [pc : PCs, ray : Rays \cup {NoRay}, act : Acts \cup {NoAct},
           viewed : Nat, snap : Nat, beats : 0..MaxBeats, stop : BOOLEAN,
           result : Results \cup {"none"}]

\* Where a caller carries an Act, and where it is inside a beat.
Carrying == {"propose", "admit", "acquire", "start", "run", "finish", "abort"}
InBeat == {"view", "propose", "admit", "acquire", "start", "run", "finish"}

(* What a frame holds at each place of advance.                             *)
FrameOK(f) ==
    /\ f.pc = "idle" => f.ray = NoRay
    /\ f.pc # "idle" => f.ray \in Rays
    /\ f.pc \in Carrying => f.act \in Acts /\ RayOf[f.act] = f.ray
    /\ f.pc \in InBeat => f.beats < MaxBeats
    /\ f.pc = "finish" => f.result \in Results

Typed == TypeOK /\ \A c \in Callers : FrameOK(call[c])

LEMMA Bounds == /\ Window \in Nat /\ MaxBeats \in Nat /\ MaxInputs \in Nat
                /\ MaxEpoch \in Nat /\ MaxCancels \in Nat
                /\ MaxCrashes \in Nat /\ MaxFaults \in Nat
BY BoundAssumption

LEMMA CountersGrow ==
    /\ \A n \in Nat : n + 1 \in Nat
    /\ \A n \in 0..MaxFaults : n < MaxFaults => n + 1 \in 0..MaxFaults
    /\ \A n \in 0..MaxCrashes : n < MaxCrashes => n + 1 \in 0..MaxCrashes
BY Bounds

LEMMA IdleIsFrame == Idle \in Frames /\ FrameOK(Idle)
BY Bounds DEF Idle, Frames, FrameOK, PCs, Carrying, InBeat

LEMMA DownIsProc == Down \in Procs
BY DEF Down, Procs

\* TypeOK in terms of the sets above.
LEMMA TypeOKIs ==
    TypeOK <=> /\ log \in Seq(Photons) /\ lastEpoch \in Nat
               /\ crashes \in 0..MaxCrashes /\ faults \in 0..MaxFaults
               /\ proc \in [Daemons -> Procs] /\ call \in [Callers -> Frames]
BY DEF TypeOK, Photons, Procs, Frames

LEMMA TypeOKNextIs ==
    TypeOK' <=> /\ log' \in Seq(Photons) /\ lastEpoch' \in Nat
                /\ crashes' \in 0..MaxCrashes /\ faults' \in 0..MaxFaults
                /\ proc' \in [Daemons -> Procs] /\ call' \in [Callers -> Frames]
BY DEF TypeOK, Photons, Procs, Frames

\* A caller that gets a well-formed frame leaves all frames well formed.
LEMMA ReturnsTyped ==
    ASSUME call \in [Callers -> Frames], \A c \in Callers : FrameOK(call[c]),
           NEW c \in Callers, NEW f \in Frames, FrameOK(f), Returns(c, f)
    PROVE  call' \in [Callers -> Frames] /\ \A b \in Callers : FrameOK(call'[b])
<1>1. \A b \in Callers : call'[b] = IF b = c THEN f ELSE call[b]
  BY DEF Returns
<1> QED BY <1>1 DEF Returns

LEMMA EmitsTyped ==
    ASSUME Typed, NEW c \in Callers, NEW p \in Photons, NEW f \in Frames,
           FrameOK(f), Emits(c, p, f)
    PROVE  /\ log' \in Seq(Photons) /\ faults' \in 0..MaxFaults
           /\ call' \in [Callers -> Frames]
           /\ \A b \in Callers : FrameOK(call'[b])
<1>1. PICK g \in {f, Idle} : Returns(c, g)
  BY DEF Emits
<1>2. g \in Frames /\ FrameOK(g)
  BY <1>1, IdleIsFrame
<1>3. call \in [Callers -> Frames] /\ \A b \in Callers : FrameOK(call[b])
  BY TypeOKIs DEF Typed
<1>4. call' \in [Callers -> Frames] /\ \A b \in Callers : FrameOK(call'[b])
  BY <1>1, <1>2, <1>3, ReturnsTyped
<1>5. log \in Seq(Photons) /\ faults \in 0..MaxFaults
  BY TypeOKIs DEF Typed
<1>6. Append(log, p) \in Seq(Photons)
  BY <1>5
<1>7. log' \in Seq(Photons) /\ faults' \in 0..MaxFaults
  BY <1>5, <1>6, Bounds DEF Emits
<1> QED BY <1>4, <1>7
-----------------------------------------------------------------------------
\* The type invariant holds at the start.
LEMMA InitTyped == Init => Typed
<1> SUFFICES ASSUME Init PROVE Typed
  OBVIOUS
<1>1. TypeOK
  BY IdleIsFrame, DownIsProc, TypeOKIs, Bounds DEF Init
<1>2. \A c \in Callers : FrameOK(call[c])
  BY IdleIsFrame DEF Init
<1> QED BY <1>1, <1>2 DEF Typed

\* Every step of a caller keeps it.
LEMMA StepTyped ==
    ASSUME Typed, NEW c \in Callers, Step(c)
    PROVE  Typed'
<1> DEFINE f == call[c]
<1>1. /\ f \in Frames /\ FrameOK(f) /\ call \in [Callers -> Frames]
      /\ \A b \in Callers : FrameOK(call[b])
      /\ log \in Seq(Photons) /\ faults \in 0..MaxFaults
      /\ lastEpoch \in Nat /\ crashes \in 0..MaxCrashes
      /\ proc \in [Daemons -> Procs]
  BY TypeOKIs DEF Typed
<1>2. Of(c) \in Procs
  BY <1>1, HostAssumption DEF Of
<1>3. SUFFICES /\ log' \in Seq(Photons) /\ faults' \in 0..MaxFaults
               /\ call' \in [Callers -> Frames]
               /\ \A b \in Callers : FrameOK(call'[b])
  <2>1. UNCHANGED <<lastEpoch, proc, crashes>>
    BY DEF Step, Input, Check, View, Propose, Admit, Acquire, Start, Run,
           Finish, Abort, Leave
  <2> QED BY <1>1, <2>1, TypeOKNextIs DEF Typed
<1>4. \A k \in Kinds, a \in Acts \cup {NoAct} : Photon(k, f.ray, a) \in Photons
  BY <1>1 DEF Photon, Photons, Frames
<1>5. \A k \in Kinds : Photon(k, f.ray, f.act) \in Photons
  BY <1>1 DEF Photon, Photons, Frames
<1>6. CASE Input(c)
  <2>1. [f EXCEPT !.pc = "check"] \in Frames /\ FrameOK([f EXCEPT !.pc = "check"])
    BY <1>1, <1>6 DEF Input, At, Frames, FrameOK, PCs, Carrying, InBeat
  <2>2. Photon("user.input", f.ray, NoAct) \in Photons
    BY <1>4 DEF Kinds
  <2> QED BY <1>6, <2>1, <2>2, EmitsTyped DEF Input
<1>7. CASE Check(c)
  <2>1. /\ [f EXCEPT !.pc = "leave"] \in Frames
        /\ FrameOK([f EXCEPT !.pc = "leave"])
    BY <1>1, <1>7 DEF Check, At, Frames, FrameOK, PCs, Carrying, InBeat
  <2>2. f.beats < MaxBeats => /\ [f EXCEPT !.pc = "view"] \in Frames
                              /\ FrameOK([f EXCEPT !.pc = "view"])
    BY <1>1, <1>7 DEF Check, At, Frames, FrameOK, PCs, Carrying, InBeat
  <2>3. Photon("ray.cancelled", f.ray, NoAct) \in Photons
    BY <1>4 DEF Kinds
  <2>4. CASE Emits(c, Photon("ray.cancelled", f.ray, NoAct), Idle)
    BY <2>3, <2>4, IdleIsFrame, EmitsTyped
  <2>5. CASE Returns(c, [f EXCEPT !.pc = "leave"]) /\ UNCHANGED <<log, faults>>
    BY <1>1, <2>1, <2>5, ReturnsTyped
  <2>6. CASE /\ f.beats < MaxBeats /\ Returns(c, [f EXCEPT !.pc = "view"])
             /\ UNCHANGED <<log, faults>>
    BY <1>1, <2>2, <2>6, ReturnsTyped
  <2> QED BY <1>7, <2>4, <2>5, <2>6 DEF Check
<1>8. CASE View(c)
  <2>1. Photon("ray.darkened", f.ray, NoAct) \in Photons
    BY <1>4 DEF Kinds
  <2>2. CASE Emits(c, Photon("ray.darkened", f.ray, NoAct), Idle)
    BY <2>1, <2>2, IdleIsFrame, EmitsTyped
  <2>3. ASSUME NEW a \in Proposable(f.ray),
               Returns(c, [f EXCEPT !.pc = "propose", !.act = a,
                                    !.viewed = Of(c).path]),
               UNCHANGED <<log, faults>>
        PROVE  /\ log' \in Seq(Photons) /\ faults' \in 0..MaxFaults
               /\ call' \in [Callers -> Frames]
               /\ \A b \in Callers : FrameOK(call'[b])
    <3>1. a \in Acts /\ RayOf[a] = f.ray
      BY DEF Proposable
    <3>2. Of(c).path \in Nat
      BY <1>2 DEF Procs
    <3> DEFINE g == [f EXCEPT !.pc = "propose", !.act = a, !.viewed = Of(c).path]
    <3>3. g \in Frames
      BY <1>1, <3>1, <3>2 DEF Frames, PCs
    <3>4. FrameOK(g)
      BY <1>1, <1>8, <3>1 DEF View, At, FrameOK, Frames, Carrying, InBeat
    <3> QED BY <1>1, <2>3, <3>3, <3>4, ReturnsTyped
  <2> QED BY <1>8, <2>2, <2>3 DEF View
<1>9. CASE Propose(c)
  <2> DEFINE g == [f EXCEPT !.pc = "admit", !.snap = Of(c).path]
  <2>1. Of(c).path \in Nat
    BY <1>2 DEF Procs
  <2>2. g \in Frames /\ FrameOK(g)
    BY <1>1, <1>9, <2>1 DEF Propose, At, Frames, FrameOK, PCs, Carrying, InBeat
  <2>3. Photon("act.proposed", f.ray, f.act) \in Photons
    BY <1>5 DEF Kinds
  <2> QED BY <1>9, <2>2, <2>3, EmitsTyped DEF Propose, Audits
<1>10. CASE Admit(c)
  <2>1. /\ [f EXCEPT !.pc = "acquire"] \in Frames
        /\ FrameOK([f EXCEPT !.pc = "acquire"])
    BY <1>1, <1>10 DEF Admit, At, Frames, FrameOK, PCs, Carrying, InBeat
  <2>2. /\ Photon("act.admitted", f.ray, f.act) \in Photons
        /\ Photon("act.rejected", f.ray, NoAct) \in Photons
    BY <1>4, <1>5 DEF Kinds, TerminalKinds
  <2> QED BY <1>10, <2>1, <2>2, IdleIsFrame, EmitsTyped DEF Admit, Audits
<1>11. CASE Acquire(c)
  <2>1. /\ [f EXCEPT !.pc = "start", !.stop = FALSE] \in Frames
        /\ FrameOK([f EXCEPT !.pc = "start", !.stop = FALSE])
    BY <1>1, <1>11 DEF Acquire, At, Frames, FrameOK, PCs, Carrying, InBeat
  <2> QED BY <1>1, <1>11, <2>1, IdleIsFrame, ReturnsTyped DEF Acquire
<1>12. CASE Start(c)
  <2>1. [f EXCEPT !.pc = "run"] \in Frames /\ FrameOK([f EXCEPT !.pc = "run"])
    BY <1>1, <1>12 DEF Start, At, Frames, FrameOK, PCs, Carrying, InBeat
  <2>2. Photon("act.started", f.ray, f.act) \in Photons
    BY <1>5 DEF Kinds
  <2> QED BY <1>12, <2>1, <2>2, EmitsTyped DEF Start, Audits
<1>13. CASE Run(c)
  <2>1. PICK r \in Results : Returns(c, [f EXCEPT !.pc = "finish", !.stop = FALSE,
                                                  !.result = r])
    BY <1>13 DEF Run
  <2> DEFINE g == [f EXCEPT !.pc = "finish", !.stop = FALSE, !.result = r]
  <2>2. g \in Frames /\ FrameOK(g)
    BY <1>1, <1>13 DEF Run, At, Frames, FrameOK, PCs, Carrying, InBeat
  <2> QED BY <1>1, <1>13, <2>1, <2>2, ReturnsTyped DEF Run
<1>14. CASE Finish(c)
  <2> DEFINE g == [Idle EXCEPT !.pc = "check", !.ray = f.ray, !.beats = f.beats + 1]
  <2>1. g \in Frames /\ FrameOK(g)
    <3>1. f.ray \in Rays /\ f.beats \in 0..MaxBeats /\ f.beats < MaxBeats
      BY <1>1, <1>14 DEF Finish, At, FrameOK, Frames, InBeat
    <3>2. f.beats + 1 \in 0..MaxBeats
      BY <3>1, Bounds
    <3> QED BY <3>1, <3>2, Bounds DEF Idle, Frames, FrameOK, PCs, Carrying, InBeat
  <2>2. [f EXCEPT !.pc = "abort"] \in Frames /\ FrameOK([f EXCEPT !.pc = "abort"])
    BY <1>1, <1>14 DEF Finish, At, Frames, FrameOK, PCs, Carrying, InBeat
  <2>3. \A k \in TerminalKinds : Photon(k, f.ray, f.act) \in Photons
    BY <1>5 DEF Kinds
  <2>4. "act.failed" \in TerminalKinds
    BY DEF TerminalKinds
  <2> QED BY <1>14, <2>1, <2>2, <2>3, <2>4, IdleIsFrame, EmitsTyped DEF Finish, Audits
<1>15. CASE Abort(c)
  <2>1. Photon("ray.cancelled", f.ray, f.act) \in Photons
    BY <1>5 DEF Kinds
  <2> QED BY <1>15, <2>1, IdleIsFrame, EmitsTyped DEF Abort, Audits
<1>16. CASE Leave(c)
  <2>1. Photon("ray.budget-exhausted", f.ray, NoAct) \in Photons
    BY <1>4 DEF Kinds
  <2> QED BY <1>16, <2>1, IdleIsFrame, EmitsTyped DEF Leave
<1> QED BY <1>6, <1>7, <1>8, <1>9, <1>10, <1>11, <1>12, <1>13, <1>14, <1>15,
           <1>16 DEF Step

LEMMA BeginTyped ==
    ASSUME Typed, NEW c \in Callers, NEW r \in Rays, Begin(c, r)
    PROVE  Typed'
<1> DEFINE g == [Idle EXCEPT !.pc = "input", !.ray = r]
<1>1. g \in Frames /\ FrameOK(g)
  BY IdleIsFrame DEF Frames, FrameOK, PCs, Carrying, InBeat
<1>2. call \in [Callers -> Frames] /\ \A b \in Callers : FrameOK(call[b])
  BY TypeOKIs DEF Typed
<1>3. call' \in [Callers -> Frames] /\ \A b \in Callers : FrameOK(call'[b])
  BY <1>1, <1>2, ReturnsTyped DEF Begin
<1> QED BY <1>3, TypeOKIs, TypeOKNextIs DEF Typed, Begin

\* Setting or keeping stop flags, or dropping frames, keeps them well formed.
LEMMA FlagsTyped ==
    ASSUME Typed,
           call' \in [Callers -> {Idle} \cup Frames],
           \A c \in Callers : \/ call'[c] = Idle
                              \/ call'[c] = call[c]
                              \/ call'[c] = [call[c] EXCEPT !.stop = TRUE]
    PROVE  call' \in [Callers -> Frames] /\ \A c \in Callers : FrameOK(call'[c])
<1>1. \A c \in Callers : call[c] \in Frames /\ FrameOK(call[c])
  BY TypeOKIs DEF Typed
<1>2. \A c \in Callers : FrameOK([call[c] EXCEPT !.stop = TRUE])
  BY <1>1 DEF FrameOK, Frames
<1> QED BY <1>1, <1>2, IdleIsFrame

\* The other threads of a daemon, and its life, keep the types.
LEMMA DaemonTyped ==
    ASSUME Typed, NEW d \in Daemons,
           \/ Boot(d)
           \/ \E r \in Rays : CancelRay(d, r) \/ StopRay(d, r)
           \/ CloseGeneration(d) \/ Publish(d)
           \/ RequestStop(d) \/ Exit(d) \/ Crash(d)
    PROVE  Typed'
<1>1. /\ log \in Seq(Photons) /\ lastEpoch \in Nat
      /\ crashes \in 0..MaxCrashes /\ faults \in 0..MaxFaults
      /\ proc \in [Daemons -> Procs] /\ call \in [Callers -> Frames]
      /\ \A c \in Callers : call[c] \in Frames /\ FrameOK(call[c])
  BY TypeOKIs DEF Typed
<1>2. proc[d] \in Procs
  BY <1>1
<1>3. \A c \in Callers : [call[c] EXCEPT !.stop = TRUE] \in Frames
  BY <1>1 DEF Frames
<1>4. SUFFICES /\ log' \in Seq(Photons) /\ lastEpoch' \in Nat
               /\ crashes' \in 0..MaxCrashes /\ faults' \in 0..MaxFaults
               /\ proc' \in [Daemons -> Procs] /\ call' \in [Callers -> Frames]
               /\ \A c \in Callers : FrameOK(call'[c])
  BY TypeOKNextIs DEF Typed
<1>5. CASE OpenRuntime(d)
  <2>1. Unsettled(ReadAll(log, Window), Acts) \in SUBSET Acts
    BY DEF Unsettled
  <2> QED BY <1>1, <1>2, <1>5, <2>1 DEF OpenRuntime, Procs
<1>6. ASSUME NEW a \in Acts, Recover(d, a)
      PROVE  /\ log' \in Seq(Photons) /\ lastEpoch' \in Nat
             /\ crashes' \in 0..MaxCrashes /\ faults' \in 0..MaxFaults
             /\ proc' \in [Daemons -> Procs] /\ call' \in [Callers -> Frames]
             /\ \A c \in Callers : FrameOK(call'[c])
  <2>1. Photon("act.outcome-unknown", RayOf[a], a) \in Photons
    BY RayOfAssumption DEF Photon, Photons, Kinds, TerminalKinds
  <2>2. log' \in Seq(Photons) /\ faults' \in 0..MaxFaults
    <3>1. Append(log, Photon("act.outcome-unknown", RayOf[a], a)) \in Seq(Photons)
      BY <1>1, <2>1
    <3> QED BY <1>1, <1>6, <3>1, CountersGrow DEF Recover
  <2>3. proc' \in [Daemons -> Procs]
    <3>1. [proc[d] EXCEPT !.unsettled = @ \ {a}] \in Procs
      BY <1>2 DEF Procs
    <3> QED BY <1>1, <1>6, <3>1, DownIsProc DEF Recover
  <2> QED BY <1>1, <1>6, <2>2, <2>3 DEF Recover
<1>7. CASE Ready(d)
  <2>1. Photon("system.started", NoRay, NoAct) \in Photons
    BY DEF Photon, Photons, Kinds
  <2>2. log' \in Seq(Photons) /\ faults' \in 0..MaxFaults /\ lastEpoch' \in Nat
    <3>1. Append(log, Photon("system.started", NoRay, NoAct)) \in Seq(Photons)
      BY <1>1, <2>1
    <3> QED BY <1>1, <1>7, <3>1, CountersGrow DEF Ready
  <2>3. [proc[d] EXCEPT !.phase = "up", !.path = lastEpoch + 1] \in Procs
    <3>1. lastEpoch + 1 \in Nat
      BY <1>1, CountersGrow
    <3> QED BY <1>2, <3>1 DEF Procs
  <2> QED BY <1>1, <1>7, <2>2, <2>3, DownIsProc DEF Ready
<1>8. ASSUME NEW r \in Rays, CancelRay(d, r)
      PROVE  proc' \in [Daemons -> Procs] /\ UNCHANGED <<log, lastEpoch, call, crashes, faults>>
  <2>1. [proc[d] EXCEPT !.cancelled = @ \cup {r}, !.stopQueue = @ \cup {r}] \in Procs
    BY <1>2 DEF Procs
  <2> QED BY <1>1, <1>8, <2>1 DEF CancelRay
<1>9. ASSUME NEW r \in Rays, StopRay(d, r)
      PROVE  /\ proc' \in [Daemons -> Procs] /\ call' \in [Callers -> Frames]
             /\ UNCHANGED <<log, lastEpoch, crashes, faults>>
             /\ \A c \in Callers : FrameOK(call'[c])
  <2>1. [proc[d] EXCEPT !.stopQueue = @ \ {r}] \in Procs
    BY <1>2 DEF Procs
  <2>2. call' \in [Callers -> Frames] /\ \A c \in Callers : FrameOK(call'[c])
    BY <1>1, <1>3, <1>9, FlagsTyped DEF StopRay
  <2> QED BY <1>1, <1>9, <2>1, <2>2 DEF StopRay
<1>10. CASE CloseGeneration(d)
  <2>1. [proc[d] EXCEPT !.closed = @ \cup {proc[d].path}] \in Procs
    BY <1>2 DEF Procs
  <2>2. call' \in [Callers -> Frames] /\ \A c \in Callers : FrameOK(call'[c])
    BY <1>1, <1>3, <1>10, FlagsTyped DEF CloseGeneration
  <2> QED BY <1>1, <1>10, <2>1, <2>2 DEF CloseGeneration
<1>11. CASE Publish(d)
  <2>1. lastEpoch + 1 \in Nat /\ [proc[d] EXCEPT !.path = lastEpoch + 1] \in Procs
    <3>1. lastEpoch + 1 \in Nat
      BY <1>1, CountersGrow
    <3> QED BY <1>2, <3>1 DEF Procs
  <2> QED BY <1>1, <1>11, <2>1 DEF Publish
<1>12. CASE RequestStop(d)
  <2>1. [proc[d] EXCEPT !.stopping = TRUE] \in Procs
    BY <1>2 DEF Procs
  <2> QED BY <1>1, <1>12, <2>1, Bounds DEF RequestStop
<1>13. CASE Exit(d)
  BY <1>1, <1>13, DownIsProc DEF Exit
<1>14. CASE Crash(d)
  <2>1. call' \in [Callers -> Frames] /\ \A c \in Callers : FrameOK(call'[c])
    BY <1>1, <1>14, IdleIsFrame DEF Crash
  <2> QED BY <1>1, <1>14, <2>1, DownIsProc, Bounds DEF Crash
<1> QED BY <1>1, <1>5, <1>6, <1>7, <1>8, <1>9, <1>10, <1>11, <1>12, <1>13, <1>14 DEF Boot

LEMMA NextTyped == Typed /\ [Next]_vars => Typed'
<1> SUFFICES ASSUME Typed, [Next]_vars PROVE Typed'
  OBVIOUS
<1>1. CASE UNCHANGED vars
  BY <1>1, TypeOKIs, TypeOKNextIs DEF Typed, vars
<1>2. CASE Next
  BY <1>2, StepTyped, BeginTyped, DaemonTyped DEF Next
<1> QED BY <1>1, <1>2

(* Every state of every instance is well typed: in particular no call runs  *)
(* more than max_beats beats.                                               *)
THEOREM TypeCorrect == Spec => []TypeOK
<1>1. Spec => []Typed
  BY InitTyped, NextTyped, PTL DEF Spec
<1>2. Typed => TypeOK
  BY DEF Typed
<1> QED BY <1>1, <1>2, PTL
-----------------------------------------------------------------------------
\* Only c's own frame changes, and to what the action says, or to Idle.
LEMMA ReturnsFrame ==
    ASSUME Typed, NEW c \in Callers, NEW f, Returns(c, f)
    PROVE  call'[c] = f /\ \A b \in Callers \ {c} : call'[b] = call[b]
BY TypeOKIs DEF Typed, Returns

LEMMA EmitsFrame ==
    ASSUME Typed, NEW c \in Callers, NEW p, NEW f, Emits(c, p, f)
    PROVE  /\ call'[c] \in {f, Idle}
           /\ \A b \in Callers \ {c} : call'[b] = call[b]
           /\ call'[c] = f \/ log' = log
           /\ log' \in {log, Append(log, p)}
BY ReturnsFrame DEF Emits

LEMMA ViewFrame ==
    ASSUME Typed, NEW c \in Callers, View(c)
    PROVE  /\ \/ call'[c] = Idle
              \/ \E a : call'[c] = [call[c] EXCEPT !.pc = "propose", !.act = a,
                                                  !.viewed = Of(c).path]
           /\ \A b \in Callers \ {c} : call'[b] = call[b]
<1>1. CASE Emits(c, Photon("ray.darkened", call[c].ray, NoAct), Idle)
  BY <1>1, EmitsFrame
<1>2. ASSUME NEW a, Returns(c, [call[c] EXCEPT !.pc = "propose", !.act = a,
                                               !.viewed = Of(c).path])
      PROVE  /\ call'[c] = [call[c] EXCEPT !.pc = "propose", !.act = a,
                                           !.viewed = Of(c).path]
             /\ \A b \in Callers \ {c} : call'[b] = call[b]
  BY <1>2, ReturnsFrame
<1> QED BY <1>1, <1>2 DEF View

Ticketed(f) == f.pc \in {"start", "run"}

LEMMA StoppedIs ==
    ClosedGenerationsAreStopped <=>
        \A c \in Callers : (Ticketed(call[c]) /\ call[c].snap \in Of(c).closed)
                            => call[c].stop
BY HostAssumption DEF ClosedGenerationsAreStopped, Beams, CallersOf, Ticketed, Of

LEMMA StoppedNextIs ==
    ClosedGenerationsAreStopped' <=>
        \A c \in Callers : (Ticketed(call'[c]) /\ call'[c].snap \in proc'[Host[c]].closed)
                            => call'[c].stop
BY HostAssumption DEF ClosedGenerationsAreStopped, Beams, CallersOf, Ticketed

\* What one step of a caller does to its ticket.
LEMMA StepTicket ==
    ASSUME Typed, NEW c \in Callers, Step(c), Ticketed(call'[c])
    PROVE  \/ call'[c].snap \notin Of(c).closed
           \/ /\ Ticketed(call[c])
              /\ call'[c].snap = call[c].snap /\ call'[c].stop = call[c].stop
<1> DEFINE f == call[c]
<1>1. f \in Frames /\ FrameOK(f) /\ ~Ticketed(Idle)
  BY TypeOKIs DEF Typed, Ticketed, Idle
<1>2. CASE Acquire(c)
  <2>1. call'[c] = [f EXCEPT !.pc = "start", !.stop = FALSE] /\ f.snap \notin Of(c).closed
    BY <1>1, <1>2, ReturnsFrame DEF Acquire
  <2> QED BY <1>1, <2>1 DEF Frames
<1>3. CASE Start(c)
  <2>1. call'[c] \in {[f EXCEPT !.pc = "run"], Idle}
    BY <1>3, EmitsFrame DEF Start, Audits
  <2> QED BY <1>1, <1>3, <2>1 DEF Start, At, Frames, Ticketed
<1>4. CASE Input(c) \/ Propose(c) \/ Admit(c) \/ Finish(c) \/ Abort(c) \/ Leave(c)
  <2>1. PICK g : /\ g \in {[f EXCEPT !.pc = "check"],
                           [f EXCEPT !.pc = "admit", !.snap = Of(c).path],
                           [f EXCEPT !.pc = "acquire"],
                           [Idle EXCEPT !.pc = "check", !.ray = f.ray,
                                        !.beats = f.beats + 1],
                           [f EXCEPT !.pc = "abort"], Idle}
                 /\ \E p : Emits(c, p, g)
    BY <1>4 DEF Input, Propose, Admit, Finish, Abort, Leave, Audits
  <2>2. call'[c] \in {g, Idle}
    BY <2>1, EmitsFrame
  <2>3. ~Ticketed(g)
    BY <1>1, <2>1 DEF Frames, Ticketed, Idle
  <2> QED BY <1>1, <2>2, <2>3
<1>5. CASE Check(c)
  <2>1. call'[c] \in {[f EXCEPT !.pc = "leave"], [f EXCEPT !.pc = "view"], Idle}
    BY <1>5, ReturnsFrame, EmitsFrame DEF Check
  <2> QED BY <1>1, <2>1 DEF Frames, Ticketed
<1>6. CASE View(c)
  <2>1. call'[c] = Idle \/ \E a : call'[c] =
          [f EXCEPT !.pc = "propose", !.act = a, !.viewed = Of(c).path]
    BY <1>6, ViewFrame
  <2> QED BY <1>1, <2>1 DEF Frames, Ticketed
<1>7. CASE Run(c)
  <2>1. \E r : call'[c] = [f EXCEPT !.pc = "finish", !.stop = FALSE, !.result = r]
    BY <1>7, ReturnsFrame DEF Run
  <2> QED BY <1>1, <2>1 DEF Frames, Ticketed
<1> QED BY <1>2, <1>3, <1>4, <1>5, <1>6, <1>7 DEF Step

LEMMA StoppedNext ==
    Typed /\ ClosedGenerationsAreStopped /\ [Next]_vars => ClosedGenerationsAreStopped'
<1> SUFFICES ASSUME Typed, ClosedGenerationsAreStopped, [Next]_vars,
                    NEW b \in Callers, Ticketed(call'[b]),
                    call'[b].snap \in proc'[Host[b]].closed
             PROVE  call'[b].stop
  BY StoppedNextIs
<1>1. (Ticketed(call[b]) /\ call[b].snap \in proc[Host[b]].closed) => call[b].stop
  BY StoppedIs DEF Of
<1>2. /\ call \in [Callers -> Frames] /\ proc \in [Daemons -> Procs]
      /\ Host[b] \in Daemons /\ call[b] \in Frames
  BY TypeOKIs, HostAssumption DEF Typed
<1>3. ~Ticketed(Idle) /\ Down.closed = {}
  BY DEF Ticketed, Idle, Down
<1>4. CASE UNCHANGED vars
  BY <1>1, <1>4 DEF vars
<1>5. ASSUME NEW c \in Callers, Step(c)
      PROVE  call'[b].stop
  <2>1. UNCHANGED proc /\ (b # c => call'[b] = call[b])
    BY <1>2, <1>5 DEF Step, Input, Check, View, Propose, Admit, Acquire, Start,
           Run, Finish, Abort, Leave, Audits, Emits, Returns
  <2>2. CASE b # c
    BY <1>1, <2>1, <2>2
  <2>3. CASE b = c
    BY <1>1, <1>5, <2>1, <2>3, StepTicket DEF Of
  <2> QED BY <2>2, <2>3
<1>6. ASSUME NEW c \in Callers, NEW r \in Rays, Begin(c, r)
      PROVE  call'[b].stop
  <2>1. UNCHANGED proc /\ call'[c] = [Idle EXCEPT !.pc = "input", !.ray = r]
        /\ (b # c => call'[b] = call[b])
    BY <1>2, <1>6, ReturnsFrame DEF Begin
  <2>2. ~Ticketed([Idle EXCEPT !.pc = "input", !.ray = r])
    BY DEF Ticketed, Idle
  <2> QED BY <1>1, <2>1, <2>2
<1>7. ASSUME NEW d \in Daemons, CloseGeneration(d)
      PROVE  call'[b].stop
  <2>1. CASE b \in Beams(d) /\ call[b].snap = proc[d].path
    <3>1. call'[b] = [call[b] EXCEPT !.stop = TRUE]
      BY <1>7, <2>1 DEF CloseGeneration
    <3> QED BY <1>2, <3>1 DEF Frames
  <2>2. CASE ~(b \in Beams(d) /\ call[b].snap = proc[d].path)
    <3>1. call'[b] = call[b]
      BY <1>7, <2>2 DEF CloseGeneration
    <3>2. CASE Host[b] = d
      <4>1. call[b].snap # proc[d].path
        BY <2>2, <3>1, <3>2 DEF Beams, CallersOf, Ticketed
      <4>2. proc'[d].closed = proc[d].closed \cup {proc[d].path}
        BY <1>2, <1>7 DEF CloseGeneration, Procs
      <4> QED BY <1>1, <3>1, <3>2, <4>1, <4>2
    <3>3. CASE Host[b] # d
      <4>1. proc'[Host[b]] = proc[Host[b]]
        BY <1>2, <1>7, <3>3 DEF CloseGeneration
      <4> QED BY <1>1, <3>1, <4>1
    <3> QED BY <3>2, <3>3
  <2> QED BY <2>1, <2>2
<1>8. ASSUME NEW d \in Daemons,
             \/ Boot(d) \/ Publish(d) \/ RequestStop(d) \/ Exit(d) \/ Crash(d)
             \/ \E r \in Rays : CancelRay(d, r) \/ StopRay(d, r)
      PROVE  call'[b].stop
  <2>1. proc'[Host[b]].closed \subseteq proc[Host[b]].closed
    <3>1. \/ proc'[d].closed = proc[d].closed
          \/ proc'[d] = Down
      <4>1. proc[d] \in Procs
        BY <1>2
      <4>2. CASE OpenRuntime(d) \/ \E a \in Acts : Recover(d, a)
        BY <1>2, <4>1, <4>2 DEF OpenRuntime, Recover, Procs
      <4>3. CASE Ready(d) \/ Publish(d) \/ RequestStop(d)
        BY <1>2, <4>1, <4>3 DEF Ready, Publish, RequestStop, Procs
      <4>4. CASE \E r \in Rays : CancelRay(d, r) \/ StopRay(d, r)
        BY <1>2, <4>1, <4>4 DEF CancelRay, StopRay, Procs
      <4>5. CASE Exit(d) \/ Crash(d)
        BY <1>2, <4>5 DEF Exit, Crash
      <4> QED BY <1>8, <4>2, <4>3, <4>4, <4>5 DEF Boot
    <3>2. Host[b] # d => proc'[Host[b]] = proc[Host[b]]
      BY <1>2, <1>8 DEF Boot, OpenRuntime, Recover, Ready, Publish, RequestStop, Exit,
             Crash, CancelRay, StopRay
    <3> QED BY <1>3, <3>1, <3>2
  <2>2. \/ call'[b] = call[b] \/ call'[b] = Idle
        \/ call'[b] = [call[b] EXCEPT !.stop = TRUE]
    BY <1>8 DEF Boot, OpenRuntime, Recover, Ready, Publish, RequestStop, Exit,
           Crash, CancelRay, StopRay
  <2> QED BY <1>1, <1>2, <1>3, <2>1, <2>2 DEF Frames
<1> QED BY <1>4, <1>5, <1>6, <1>7, <1>8 DEF Next

(* For any number of daemons, callers, rays and remounts: a Beam of a       *)
(* closed generation has been told to stop.                                 *)
THEOREM ClosedGenerationsStop == Spec => []ClosedGenerationsAreStopped
<1>1. Init => ClosedGenerationsAreStopped
  <2>1. Init => \A c \in Callers : call[c].pc = "idle"
    BY DEF Init, Idle
  <2> QED BY <2>1, StoppedIs DEF Ticketed
<1>2. Typed /\ ClosedGenerationsAreStopped /\ [Next]_vars
      => Typed' /\ ClosedGenerationsAreStopped'
  BY NextTyped, StoppedNext
<1> QED BY <1>1, <1>2, InitTyped, PTL DEF Spec
-----------------------------------------------------------------------------
(* The rest is about one daemon: a second one that recovers while the first *)
(* runs breaks it.  And about logs that read_all() still returns whole.     *)
OneDaemon == \E d : Daemons = {d}

Busy(f) == f.pc \in {"run", "finish"}

\* No two callers on one ray; callers only in a daemon that is up.
Exclusive == \A b, c \in Callers :
    b # c /\ call[b].ray = call[c].ray => call[c].ray = NoRay

Alive == \A c \in Callers : ~At(c, "idle") => Of(c).phase = "up"

WorkOnlyInRecovery ==
    \A d \in Daemons : proc[d].phase # "recovering" => proc[d].unsettled = {}

(* Whatever is going to end an Act finds it open: the caller that runs it,  *)
(* and the work list of recovery.                                           *)
EndersFindOpen ==
    /\ \A c \in Callers : Busy(call[c]) => Open(log, call[c].act)
    /\ \A d \in Daemons : \A a \in proc[d].unsettled : Open(log, a)

Writers == Typed /\ Exclusive /\ Alive /\ WorkOnlyInRecovery

LogInv == Len(log) <= Window => TerminalsCloseStarts /\ EndersFindOpen

\* A photon that ends no Act changes nothing about the log.
LEMMA Harmless ==
    ASSUME log \in Seq(Photons), NEW p \in Photons, log' \in {log, Append(log, p)},
           \A a \in Acts : ~Ends(p, a)
    PROVE  /\ TerminalsClose(log, Acts) => TerminalsClose(log', Acts)
           /\ \A a \in Acts : Open(log, a) => Open(log', a)
<1>1. TerminalsClose(log, Acts) => TerminalsClose(Append(log, p), Acts)
  BY CloseStays
<1>2. \A a \in Acts : Open(log, a) => Open(Append(log, p), a)
  BY OpenStays
<1> QED BY <1>1, <1>2

LEMMA LogGrows ==
    ASSUME log \in Seq(Photons), NEW p \in Photons, log' \in {log, Append(log, p)}
    PROVE  Len(log) \in Nat /\ Len(log') \in {Len(log), Len(log) + 1}
<1>1. Len(Append(log, p)) = Len(log) + 1 /\ Len(log) \in Nat
  OBVIOUS
<1> QED BY <1>1

\* A caller becomes busy by starting its Act and stays busy with that Act.
LEMMA StepBusy ==
    ASSUME Typed, NEW c \in Callers, Step(c), Busy(call'[c])
    PROVE  /\ call'[c].act = call[c].act
           /\ \/ /\ Start(c)
                 /\ log' = Append(log, Photon("act.started", call[c].ray, call[c].act))
              \/ Run(c)
<1> DEFINE f == call[c]
<1>1. f \in Frames /\ FrameOK(f) /\ ~Busy(Idle)
  BY TypeOKIs DEF Typed, Busy, Idle
<1>2. CASE Acquire(c)
  <2>1. call'[c] \in {[f EXCEPT !.pc = "start", !.stop = FALSE], Idle}
    BY <1>1, <1>2, ReturnsFrame DEF Acquire
  <2> QED BY <1>1, <2>1 DEF Frames, Busy
<1>3. CASE Start(c)
  <2>1. call'[c] = [f EXCEPT !.pc = "run"]
    BY <1>1, <1>3, EmitsFrame DEF Start, Audits
  <2>2. log' = Append(log, Photon("act.started", call[c].ray, call[c].act))
    <3>1. [f EXCEPT !.pc = "run"] # Idle
      BY <1>1, <2>1 DEF Busy, Idle
    <3> QED BY <1>3, <2>1, <3>1, ReturnsFrame DEF Start, Audits, Emits
  <2> QED BY <1>1, <1>3, <2>1, <2>2 DEF Frames
<1>4. CASE Input(c) \/ Propose(c) \/ Admit(c) \/ Finish(c) \/ Abort(c) \/ Leave(c)
  <2>1. PICK g : /\ g \in {[f EXCEPT !.pc = "check"],
                           [f EXCEPT !.pc = "admit", !.snap = Of(c).path],
                           [f EXCEPT !.pc = "acquire"],
                           [Idle EXCEPT !.pc = "check", !.ray = f.ray,
                                        !.beats = f.beats + 1],
                           [f EXCEPT !.pc = "abort"], Idle}
                 /\ \E p : Emits(c, p, g)
    BY <1>4 DEF Input, Propose, Admit, Finish, Abort, Leave, Audits
  <2>2. call'[c] \in {g, Idle}
    BY <2>1, EmitsFrame
  <2>3. ~Busy(g)
    BY <1>1, <2>1 DEF Frames, Busy, Idle
  <2> QED BY <1>1, <2>2, <2>3
<1>5. CASE Check(c)
  <2>1. call'[c] \in {[f EXCEPT !.pc = "leave"], [f EXCEPT !.pc = "view"], Idle}
    BY <1>5, ReturnsFrame, EmitsFrame DEF Check
  <2> QED BY <1>1, <2>1 DEF Frames, Busy
<1>6. CASE View(c)
  <2>1. call'[c] = Idle \/ \E a : call'[c] =
          [f EXCEPT !.pc = "propose", !.act = a, !.viewed = Of(c).path]
    BY <1>6, ViewFrame
  <2> QED BY <1>1, <2>1 DEF Frames, Busy
<1>7. CASE Run(c)
  <2>1. \E r : call'[c] = [f EXCEPT !.pc = "finish", !.stop = FALSE, !.result = r]
    BY <1>7, ReturnsFrame DEF Run
  <2> QED BY <1>1, <1>7, <2>1 DEF Frames
<1> QED BY <1>2, <1>3, <1>4, <1>5, <1>6, <1>7 DEF Step

\* Only Finish writes a photon that ends an Act, and it ends the Act it carries.
LEMMA StepWrites ==
    ASSUME Typed, NEW c \in Callers, Step(c)
    PROVE  \E p \in Photons :
              /\ log' \in {log, Append(log, p)}
              /\ \A a \in Acts : Ends(p, a) => Finish(c) /\ a = call[c].act
<1> DEFINE f == call[c]
<1>1. f \in Frames /\ FrameOK(f) /\ NoAct \notin Acts
  BY TypeOKIs, ActAssumption DEF Typed
<1>2. ASSUME NEW k \in Kinds \ TerminalKinds, NEW a \in Acts \cup {NoAct}
      PROVE  /\ Photon(k, f.ray, a) \in Photons
             /\ \A x \in Acts : ~Ends(Photon(k, f.ray, a), x)
  BY <1>1 DEF Photon, Photons, Frames, Ends
<1>3. ASSUME NEW k \in TerminalKinds
      PROVE  /\ Photon(k, f.ray, f.act) \in Photons
             /\ Photon(k, f.ray, NoAct) \in Photons
             /\ \A x \in Acts : ~Ends(Photon(k, f.ray, NoAct), x)
             /\ \A x \in Acts : Ends(Photon(k, f.ray, f.act), x) => x = f.act
  BY <1>1 DEF Photon, Photons, Frames, Ends, Kinds
<1>4. /\ {"user.input", "ray.cancelled", "ray.darkened", "act.proposed", "act.admitted",
          "act.started", "ray.budget-exhausted"} \subseteq Kinds \ TerminalKinds
      /\ {"act.rejected", "act.failed"} \subseteq TerminalKinds
  BY DEF Kinds, TerminalKinds
<1>5. f.act \in Acts \cup {NoAct}
  BY <1>1 DEF Frames
<1>6. CASE UNCHANGED log
  BY <1>2, <1>4, <1>6
<1>7. CASE \E k \in Kinds \ TerminalKinds, a \in Acts \cup {NoAct} : \E g :
              Emits(c, Photon(k, f.ray, a), g)
  BY <1>2, <1>7, EmitsFrame
<1>8. CASE \E k \in TerminalKinds : \E g : Emits(c, Photon(k, f.ray, NoAct), g)
  BY <1>3, <1>8, EmitsFrame
<1>9. CASE Finish(c)
  <2>1. PICK k \in TerminalKinds : \E g : Emits(c, Photon(k, f.ray, f.act), g)
    BY <1>4, <1>9 DEF Finish, Audits
  <2> QED BY <1>3, <1>9, <2>1, EmitsFrame
<1>10. CASE Input(c)
  BY <1>4, <1>7, <1>10 DEF Input
<1>11. CASE Check(c)
  BY <1>4, <1>6, <1>7, <1>11 DEF Check
<1>12. CASE View(c)
  BY <1>4, <1>6, <1>7, <1>12 DEF View
<1>13. CASE Propose(c)
  BY <1>4, <1>5, <1>7, <1>13 DEF Propose, Audits
<1>14. CASE Admit(c)
  BY <1>4, <1>5, <1>7, <1>8, <1>14 DEF Admit, Audits
<1>15. CASE Acquire(c) \/ Run(c)
  BY <1>6, <1>15 DEF Acquire, Run
<1>16. CASE Start(c)
  BY <1>4, <1>5, <1>7, <1>16 DEF Start, Audits
<1>17. CASE Abort(c)
  BY <1>4, <1>5, <1>7, <1>17 DEF Abort, Audits
<1>18. CASE Leave(c)
  BY <1>4, <1>7, <1>18 DEF Leave
<1> QED BY <1>9, <1>10, <1>11, <1>12, <1>13, <1>14, <1>15, <1>16, <1>17, <1>18 DEF Step

\* A step of a caller keeps its ray, or gives it up on returning.
LEMMA StepRay ==
    ASSUME Typed, NEW c \in Callers, Step(c)
    PROVE  /\ call'[c].ray \in {call[c].ray, NoRay}
           /\ \A b \in Callers \ {c} : call'[b] = call[b]
           /\ ~At(c, "idle") /\ UNCHANGED proc
<1> DEFINE f == call[c]
<1>1. f \in Frames /\ Idle.ray = NoRay
  BY TypeOKIs DEF Typed, Idle
<1>2. ~At(c, "idle") /\ UNCHANGED proc
  BY DEF Step, At, Input, Check, View, Propose, Admit, Acquire, Start, Run, Finish,
         Abort, Leave
<1>3. CASE Input(c) \/ Propose(c) \/ Admit(c) \/ Finish(c) \/ Abort(c) \/ Leave(c)
           \/ Start(c)
  <2>1. PICK g : /\ g \in {[f EXCEPT !.pc = "check"],
                           [f EXCEPT !.pc = "admit", !.snap = Of(c).path],
                           [f EXCEPT !.pc = "acquire"], [f EXCEPT !.pc = "run"],
                           [Idle EXCEPT !.pc = "check", !.ray = f.ray,
                                        !.beats = f.beats + 1],
                           [f EXCEPT !.pc = "abort"], Idle}
                 /\ \E p : Emits(c, p, g)
    BY <1>3 DEF Input, Propose, Admit, Finish, Abort, Leave, Start, Audits
  <2>2. call'[c] \in {g, Idle} /\ \A b \in Callers \ {c} : call'[b] = call[b]
    BY <2>1, EmitsFrame
  <2>3. g.ray \in {f.ray, NoRay}
    BY <1>1, <2>1 DEF Frames, Idle
  <2> QED BY <1>1, <1>2, <2>2, <2>3
<1>4. CASE Check(c)
  <2>1. /\ call'[c] \in {[f EXCEPT !.pc = "leave"], [f EXCEPT !.pc = "view"], Idle}
        /\ \A b \in Callers \ {c} : call'[b] = call[b]
    BY <1>4, ReturnsFrame, EmitsFrame DEF Check
  <2> QED BY <1>1, <1>2, <2>1 DEF Frames
<1>5. CASE View(c)
  <2>1. /\ \/ call'[c] = Idle
           \/ \E a : call'[c] =
                 [f EXCEPT !.pc = "propose", !.act = a, !.viewed = Of(c).path]
        /\ \A b \in Callers \ {c} : call'[b] = call[b]
    BY <1>5, ViewFrame
  <2> QED BY <1>1, <1>2, <2>1 DEF Frames
<1>6. CASE Acquire(c)
  <2>1. /\ call'[c] \in {[f EXCEPT !.pc = "start", !.stop = FALSE], Idle}
        /\ \A b \in Callers \ {c} : call'[b] = call[b]
    BY <1>6, ReturnsFrame DEF Acquire
  <2> QED BY <1>1, <1>2, <2>1 DEF Frames
<1>7. CASE Run(c)
  <2>1. /\ \E r : call'[c] = [f EXCEPT !.pc = "finish", !.stop = FALSE, !.result = r]
        /\ \A b \in Callers \ {c} : call'[b] = call[b]
    BY <1>7, ReturnsFrame DEF Run
  <2> QED BY <1>1, <1>2, <2>1 DEF Frames
<1> QED BY <1>3, <1>4, <1>5, <1>6, <1>7 DEF Step

\* Callers, rays and the recovery work list of a single daemon.
LEMMA WritersNext ==
    ASSUME OneDaemon, Writers, [Next]_vars
    PROVE  Writers'
<1>1. Typed /\ Exclusive /\ Alive /\ WorkOnlyInRecovery /\ Typed'
  BY NextTyped DEF Writers
<1>2. PICK e : Daemons = {e}
  BY DEF OneDaemon
<1>3. /\ proc \in [Daemons -> Procs] /\ call \in [Callers -> Frames]
      /\ \A c \in Callers : Host[c] = e /\ FrameOK(call[c]) /\ call[c] \in Frames
  BY <1>1, <1>2, TypeOKIs, HostAssumption DEF Typed
<1>4. SUFFICES /\ \A b, c \in Callers : b # c /\ call'[b].ray = call'[c].ray
                                      => call'[c].ray = NoRay
               /\ \A c \in Callers : call'[c].pc # "idle" => proc'[e].phase = "up"
               /\ proc'[e].phase # "recovering" => proc'[e].unsettled = {}
  BY <1>1, <1>2, <1>3 DEF Writers, Exclusive, Alive, WorkOnlyInRecovery, At, Of
<1>5. /\ \A b, c \in Callers : b # c /\ call[b].ray = call[c].ray => call[c].ray = NoRay
      /\ \A c \in Callers : call[c].pc # "idle" => proc[e].phase = "up"
      /\ proc[e].phase # "recovering" => proc[e].unsettled = {}
  BY <1>1, <1>2, <1>3 DEF Exclusive, Alive, WorkOnlyInRecovery, At, Of
<1>6. CASE UNCHANGED vars
  BY <1>5, <1>6 DEF vars
<1>7. ASSUME NEW c \in Callers, Step(c)
      PROVE  <1>4!1
  <2>1. /\ call'[c].ray \in {call[c].ray, NoRay}
        /\ \A b \in Callers \ {c} : call'[b] = call[b]
        /\ call[c].pc # "idle" /\ UNCHANGED proc
    BY <1>1, <1>7, StepRay DEF At
  <2> QED BY <1>5, <2>1
<1>8. ASSUME NEW c \in Callers, NEW r \in Rays, Begin(c, r)
      PROVE  <1>4!1
  <2>1. /\ call'[c].ray = r /\ UNCHANGED proc /\ proc[e].phase = "up"
        /\ \A b \in Callers \ {c} : call'[b] = call[b]
        /\ \A b \in Callers : call[b].ray # r
    <3>1. call'[c] = [Idle EXCEPT !.pc = "input", !.ray = r]
          /\ \A b \in Callers \ {c} : call'[b] = call[b]
      BY <1>1, <1>8, ReturnsFrame DEF Begin
    <3> QED BY <1>3, <1>8, <3>1 DEF Begin, CallersOf, Of, Idle
  <2> QED BY <1>5, <2>1
<1>9. ASSUME NEW d \in Daemons,
             \/ Boot(d)
             \/ \E r \in Rays : CancelRay(d, r) \/ StopRay(d, r)
             \/ CloseGeneration(d) \/ Publish(d)
             \/ RequestStop(d) \/ Exit(d) \/ Crash(d)
      PROVE  <1>4!1
  <2>1. d = e /\ proc[e] \in Procs
    BY <1>2, <1>3
  <2>2. CASE Boot(d) \/ Publish(d) \/ RequestStop(d) \/ (\E r \in Rays : CancelRay(d, r))
    <3>1. UNCHANGED call
      BY <2>2 DEF Boot, OpenRuntime, Recover, Ready, Publish, RequestStop, CancelRay
    <3>2. /\ proc[e].phase = "up" => proc'[e].phase = "up"
          /\ proc'[e].phase # "recovering" => proc'[e].unsettled = {}
      <4>1. CASE OpenRuntime(d)
        BY <1>3, <2>1, <4>1 DEF OpenRuntime, Procs
      <4>2. CASE \E a \in Acts : Recover(d, a)
        BY <1>3, <2>1, <4>2 DEF Recover, Procs, Down
      <4>3. CASE Ready(d)
        BY <1>3, <2>1, <4>3 DEF Ready, Procs, Down
      <4>4. CASE Publish(d) \/ RequestStop(d) \/ (\E r \in Rays : CancelRay(d, r))
        <5>1. /\ proc'[e].phase = proc[e].phase
              /\ proc'[e].unsettled = proc[e].unsettled
          <6>1. CASE Publish(d) \/ RequestStop(d)
            BY <1>3, <2>1, <6>1 DEF Publish, RequestStop, Procs
          <6>2. CASE \E r \in Rays : CancelRay(d, r)
            BY <1>3, <2>1, <6>2 DEF CancelRay, Procs
          <6> QED BY <4>4, <6>1, <6>2
        <5> QED BY <1>5, <5>1
      <4> QED BY <2>2, <4>1, <4>2, <4>3, <4>4 DEF Boot
    <3> QED BY <1>5, <3>1, <3>2
  <2>3. CASE CloseGeneration(d) \/ \E r \in Rays : StopRay(d, r)
    <3>1. \A c \in Callers : call'[c].ray = call[c].ray /\ call'[c].pc = call[c].pc
      <4>1. \A c \in Callers : call'[c] \in {call[c], [call[c] EXCEPT !.stop = TRUE]}
        BY <2>3 DEF CloseGeneration, StopRay
      <4> QED BY <1>3, <4>1 DEF Frames
    <3>2. proc'[e].phase = proc[e].phase /\ proc'[e].unsettled = proc[e].unsettled
      BY <1>3, <2>1, <2>3 DEF CloseGeneration, StopRay, Procs
    <3> QED BY <1>5, <3>1, <3>2
  <2>4. CASE Exit(d) \/ Crash(d)
    <3>1. \A c \in Callers : call'[c].ray = NoRay /\ call'[c].pc = "idle"
      BY <1>3, <2>1, <2>4 DEF Exit, Crash, CallersOf, At, Idle, FrameOK
    <3>2. proc'[e] = Down
      BY <1>3, <2>1, <2>4 DEF Exit, Crash
    <3> QED BY <3>1, <3>2 DEF Down
  <2> QED BY <1>9, <2>2, <2>3, <2>4
<1> QED BY <1>6, <1>7, <1>8, <1>9 DEF Next

\* The photons of a step close what they end and open what they start.
LEMMA LogNext ==
    ASSUME OneDaemon, Writers, LogInv, [Next]_vars
    PROVE  LogInv'
<1>1. /\ Typed /\ Exclusive /\ Alive /\ WorkOnlyInRecovery
      /\ log \in Seq(Photons) /\ proc \in [Daemons -> Procs]
      /\ call \in [Callers -> Frames] /\ \A c \in Callers : FrameOK(call[c])
  BY TypeOKIs DEF Writers, Typed
<1>2. PICK e : Daemons = {e}
  BY DEF OneDaemon
<1>3. \A c \in Callers : Host[c] = e
  BY <1>2, HostAssumption
<1>4. SUFFICES ASSUME Len(log') <= Window
               PROVE  /\ TerminalsClose(log', Acts)
                      /\ \A c \in Callers : Busy(call'[c]) => Open(log', call'[c].act)
                      /\ \A a \in proc'[e].unsettled : Open(log', a)
  BY <1>2 DEF LogInv, TerminalsCloseStarts, EndersFindOpen
<1>5. Len(log) <= Window =>
        /\ TerminalsClose(log, Acts)
        /\ \A c \in Callers : Busy(call[c]) => Open(log, call[c].act)
        /\ \A a \in proc[e].unsettled : Open(log, a)
  BY <1>2 DEF LogInv, TerminalsCloseStarts, EndersFindOpen
<1>6. \A c \in Callers : Busy(call[c]) => call[c].act \in Acts
                                        /\ RayOf[call[c].act] = call[c].ray
  BY <1>1 DEF Busy, FrameOK, Carrying
<1>7. ASSUME NEW p \in Photons, log' \in {log, Append(log, p)}
      PROVE  /\ TerminalsClose(log, Acts)
             /\ \A c \in Callers : Busy(call[c]) => Open(log, call[c].act)
             /\ \A a \in proc[e].unsettled : Open(log, a)
  <2>1. Len(log) \in Nat /\ Len(log') \in {Len(log), Len(log) + 1}
    BY <1>1, <1>7, LogGrows
  <2> QED BY <1>4, <1>5, <2>1, Bounds
<1>8. CASE UNCHANGED vars
  BY <1>4, <1>5, <1>8 DEF vars
<1>9. ASSUME NEW c \in Callers, Step(c)
      PROVE  <1>4!1!2
  <2>1. PICK p \in Photons :
              /\ log' \in {log, Append(log, p)}
              /\ \A a \in Acts : Ends(p, a) => Finish(c) /\ a = call[c].act
    BY <1>1, <1>9, StepWrites
  <2>2. /\ TerminalsClose(log, Acts)
        /\ \A b \in Callers : Busy(call[b]) => Open(log, call[b].act)
        /\ \A a \in proc[e].unsettled : Open(log, a)
    BY <1>7, <2>1
  <2>3. /\ \A b \in Callers \ {c} : call'[b] = call[b]
        /\ ~At(c, "idle") /\ UNCHANGED proc
    BY <1>1, <1>9, StepRay
  <2>4. proc[e].unsettled = {}
    BY <1>1, <1>2, <1>3, <2>3 DEF Alive, WorkOnlyInRecovery, Of
  <2>5. \A a \in Acts : Ends(p, a) => Open(log, a)
    BY <2>1, <2>2 DEF Finish, At, Busy
  <2>6. TerminalsClose(log', Acts)
    BY <1>1, <2>1, <2>2, <2>5, CloseStays
  <2>7. ASSUME NEW b \in Callers, Busy(call'[b])
        PROVE  Open(log', call'[b].act)
    <3>1. CASE b = c
      <4>1. CASE Run(c)
        <5>1. call'[c].act = call[c].act /\ UNCHANGED log /\ Busy(call[c])
          BY <1>1, <1>9, <2>7, <3>1, <4>1, StepBusy DEF Run, At, Busy
        <5> QED BY <2>2, <3>1, <5>1
      <4>2. CASE log' = Append(log, Photon("act.started", call[c].ray, call[c].act))
        <5>1. call'[c].act = call[c].act
          BY <1>1, <1>9, <2>7, <3>1, StepBusy
        <5>2. /\ Photon("act.started", call[c].ray, call[c].act) \in Photons
              /\ Starts(Photon("act.started", call[c].ray, call[c].act), call[c].act)
          BY <1>1 DEF Photon, Photons, Starts, Kinds, Frames
        <5> QED BY <1>1, <3>1, <4>2, <5>1, <5>2, StartOpens
      <4> QED BY <1>1, <1>9, <2>7, <3>1, <4>1, <4>2, StepBusy
    <3>2. CASE b # c
      <4>1. call'[b] = call[b] /\ Busy(call[b]) /\ Open(log, call[b].act)
        BY <2>2, <2>3, <2>7, <3>2
      <4>2. ~Ends(p, call[b].act)
        <5>1. ASSUME Ends(p, call[b].act) PROVE FALSE
          <6>1. call[b].act \in Acts /\ RayOf[call[b].act] = call[b].ray
            BY <1>6, <4>1
          <6>2. Finish(c) /\ call[b].act = call[c].act
            BY <2>1, <5>1, <6>1
          <6>3. RayOf[call[c].act] = call[c].ray
            BY <1>6, <6>2 DEF Finish, At, Busy
          <6>4. call[b].ray = NoRay
            BY <1>1, <3>2, <6>1, <6>2, <6>3 DEF Exclusive
          <6> QED BY <6>1, <6>4, RayOfAssumption
        <5> QED BY <5>1
      <4> QED BY <1>1, <2>1, <4>1, <4>2, OpenStays
    <3> QED BY <3>1, <3>2
  <2> QED BY <2>3, <2>4, <2>6, <2>7
<1>10. ASSUME NEW c \in Callers, NEW r \in Rays, Begin(c, r)
       PROVE  <1>4!1!2
  <2>1. /\ UNCHANGED <<log, proc>> /\ ~Busy(call'[c])
        /\ \A b \in Callers \ {c} : call'[b] = call[b]
    <3>1. call'[c] = [Idle EXCEPT !.pc = "input", !.ray = r]
          /\ \A b \in Callers \ {c} : call'[b] = call[b]
      BY <1>1, <1>10, ReturnsFrame DEF Begin
    <3> QED BY <1>10, <3>1 DEF Begin, Idle, Busy
  <2> QED BY <1>4, <1>5, <2>1
<1>11. ASSUME NEW d \in Daemons,
              \/ Boot(d)
              \/ \E r \in Rays : CancelRay(d, r) \/ StopRay(d, r)
              \/ CloseGeneration(d) \/ Publish(d)
              \/ RequestStop(d) \/ Exit(d) \/ Crash(d)
       PROVE  <1>4!1!2
  <2>1. d = e /\ proc[e] \in Procs
    BY <1>1, <1>2
  <2>2. \A c \in Callers : Busy(call'[c]) => Busy(call[c]) /\ call'[c].act = call[c].act
    <3>1. \A c \in Callers : call'[c] \in {call[c], [call[c] EXCEPT !.stop = TRUE], Idle}
      <4>1. CASE UNCHANGED call
        BY <4>1
      <4>2. CASE CloseGeneration(d) \/ \E r \in Rays : StopRay(d, r)
        BY <4>2 DEF CloseGeneration, StopRay
      <4>3. CASE Crash(d)
        BY <4>3 DEF Crash
      <4> QED BY <1>11, <4>1, <4>2, <4>3 DEF Boot, OpenRuntime, Recover, Ready,
                 CancelRay, Publish, RequestStop, Exit
    <3>2. \A c \in Callers : call[c] \in Frames
      BY <1>1
    <3>3. \A c \in Callers : LET f == [call[c] EXCEPT !.stop = TRUE]
                            IN  f.pc = call[c].pc /\ f.act = call[c].act
      BY <3>2 DEF Frames
    <3>4. ~Busy(Idle)
      BY DEF Busy, Idle
    <3> QED BY <3>1, <3>3, <3>4 DEF Busy
  <2>3. CASE OpenRuntime(d)
    <3>1. UNCHANGED log
      BY <2>3 DEF OpenRuntime
    <3>2. proc'[e].unsettled = Unsettled(ReadAll(log, Window), Acts)
      BY <1>1, <2>1, <2>3 DEF OpenRuntime, Procs
    <3>3. Len(log) <= Window
      BY <1>4, <3>1
    <3>4. \A a \in proc'[e].unsettled : Open(log, a)
      BY <1>1, <3>2, <3>3, Bounds, UnsettledIsOpen
    <3> QED BY <1>5, <2>2, <3>1, <3>3, <3>4
  <2>4. ASSUME NEW a \in Acts, Recover(d, a)
        PROVE  <1>4!1!2
    <3> DEFINE p == Photon("act.outcome-unknown", RayOf[a], a)
    <3>1. p \in Photons /\ log' \in {log, Append(log, p)}
      BY <2>4, RayOfAssumption DEF Recover, Photon, Photons, Kinds, TerminalKinds
    <3>2. /\ TerminalsClose(log, Acts)
          /\ \A x \in proc[e].unsettled : Open(log, x)
      BY <1>7, <3>1
    <3>3. \A x : Ends(p, x) => x = a
      BY DEF Ends, Photon
    <3>4. Open(log, a)
      BY <2>1, <2>4, <3>2 DEF Recover
    <3>5. TerminalsClose(log', Acts)
      BY <1>1, <3>1, <3>2, <3>3, <3>4, CloseStays
    <3>6. \A c \in Callers : ~Busy(call'[c])
      <4>1. proc[e].phase = "recovering"
        BY <2>1, <2>4 DEF Recover
      <4>2. \A c \in Callers : call[c].pc = "idle"
        BY <1>1, <1>3, <4>1 DEF Alive, At, Of
      <4> QED BY <2>2, <4>2 DEF Busy
    <3>7. \A x \in proc'[e].unsettled : Open(log', x)
      <4>1. CASE proc' = [proc EXCEPT ![d].unsettled = @ \ {a}]
        <5>1. proc'[e].unsettled = proc[e].unsettled \ {a}
          BY <1>1, <2>1, <4>1 DEF Procs
        <5>2. \A x \in proc'[e].unsettled : Open(log, x) /\ ~Ends(p, x)
          BY <3>2, <3>3, <5>1
        <5> QED BY <1>1, <3>1, <5>2, OpenStays
      <4>2. CASE proc' = [proc EXCEPT ![d] = Down]
        BY <1>1, <2>1, <4>2 DEF Down
      <4> QED BY <2>4, <4>1, <4>2 DEF Recover
    <3> QED BY <3>5, <3>6, <3>7
  <2>5. CASE Ready(d)
    <3> DEFINE p == Photon("system.started", NoRay, NoAct)
    <3>1. /\ p \in Photons /\ log' \in {log, Append(log, p)}
          /\ \A a \in Acts : ~Ends(p, a)
      BY <2>5 DEF Ready, Photon, Photons, Kinds, TerminalKinds, Ends
    <3>2. proc'[e].unsettled = {}
      BY <1>1, <2>1, <2>5 DEF Ready, Procs, Down
    <3>3. /\ TerminalsClose(log, Acts)
          /\ \A c \in Callers : Busy(call[c]) => Open(log, call[c].act)
      BY <1>7, <3>1
    <3> QED BY <1>1, <1>6, <2>2, <3>1, <3>2, <3>3, Harmless
  <2>6. CASE \/ \E r \in Rays : CancelRay(d, r) \/ StopRay(d, r)
             \/ CloseGeneration(d) \/ Publish(d) \/ RequestStop(d)
             \/ Exit(d) \/ Crash(d)
    <3>1. UNCHANGED log
      BY <2>6 DEF CancelRay, StopRay, CloseGeneration, Publish, RequestStop, Exit, Crash
    <3>2. proc'[e].unsettled \subseteq proc[e].unsettled
      <4>1. CASE \E r \in Rays : CancelRay(d, r) \/ StopRay(d, r)
        BY <1>1, <2>1, <4>1 DEF CancelRay, StopRay, Procs
      <4>2. CASE CloseGeneration(d) \/ Publish(d) \/ RequestStop(d)
        BY <1>1, <2>1, <4>2 DEF CloseGeneration, Publish, RequestStop, Procs
      <4>3. CASE Exit(d) \/ Crash(d)
        BY <1>1, <2>1, <4>3 DEF Exit, Crash, Down
      <4> QED BY <2>6, <4>1, <4>2, <4>3
    <3> QED BY <1>4, <1>5, <2>2, <3>1, <3>2
  <2> QED BY <1>11, <2>3, <2>4, <2>5, <2>6 DEF Boot
<1> QED BY <1>8, <1>9, <1>10, <1>11 DEF Next

(* With one daemon on the database, and as long as recovery reads the whole *)
(* log, every terminal photon closes a start of its own, through any number *)
(* of callers, rays, crashes, failing appends, stops and recoveries.        *)
THEOREM OneEndPerStart ==
    ASSUME OneDaemon
    PROVE  Spec => [](Len(log) <= Window => TerminalsCloseStarts)
<1>1. Init => Writers /\ LogInv
  <2> SUFFICES ASSUME Init PROVE Writers /\ LogInv
    OBVIOUS
  <2>1. /\ \A c \in Callers : call[c] = Idle
        /\ \A d \in Daemons : proc[d] = Down
        /\ log = <<>>
    BY DEF Init
  <2>2. Exclusive /\ Alive /\ WorkOnlyInRecovery
    BY <2>1 DEF Exclusive, Alive, WorkOnlyInRecovery, At, Idle, Down
  <2>3. TerminalsCloseStarts
    BY <2>1 DEF TerminalsCloseStarts, TerminalsClose
  <2>4. EndersFindOpen
    BY <2>1 DEF EndersFindOpen, Busy, Idle, Down
  <2> QED BY InitTyped, <2>2, <2>3, <2>4 DEF Writers, LogInv
<1>2. Writers /\ LogInv /\ [Next]_vars => Writers' /\ LogInv'
  BY WritersNext, LogNext
<1>3. LogInv => (Len(log) <= Window => TerminalsCloseStarts)
  BY DEF LogInv
<1> QED BY <1>1, <1>2, <1>3, PTL DEF Spec
-----------------------------------------------------------------------------
(* A cancelled ray, in its daemon.  A caller that is Spent has to pass the  *)
(* head of the loop before it can start an Act.                             *)
Spent(f) == f.pc \in {"idle", "run", "finish", "check", "abort", "leave"}

\* No two callers of one daemon on one ray.
OwnRays == \A b, c \in Callers :
    b # c /\ Host[b] = Host[c] /\ call[b].ray = call[c].ray => call[c].ray = NoRay

(* A late start is counted once: the ray was cancelled, its caller is spent *)
(* and it takes no other caller.                                            *)
LateIsLast ==
    /\ late \in [Daemons -> [Rays -> {0, 1}]]
    /\ \A d \in Daemons, r \in Rays : late[d][r] = 1 =>
          /\ r \in proc[d].cancelled
          /\ \A c \in CallersOf(d) : call[c].ray = r => Spent(call[c])

LateInv == Typed /\ OwnRays /\ LateIsLast

\* The other threads of a daemon: what they do to frames and to cancelled rays.
LEMMA DaemonFrames ==
    ASSUME Typed, NEW d \in Daemons,
           \/ Boot(d)
           \/ \E r \in Rays : CancelRay(d, r) \/ StopRay(d, r)
           \/ CloseGeneration(d) \/ Publish(d)
           \/ RequestStop(d) \/ Exit(d) \/ Crash(d)
    PROVE  /\ \A c \in Callers :
                 \/ call'[c].pc = call[c].pc /\ call'[c].ray = call[c].ray
                 \/ call'[c].pc = "idle" /\ call'[c].ray = NoRay
           /\ \A e \in Daemons : \/ proc[e].cancelled \subseteq proc'[e].cancelled
                                 \/ proc'[e].phase = "down"
<1>1. /\ proc \in [Daemons -> Procs] /\ proc[d] \in Procs
      /\ \A c \in Callers : call[c] \in Frames
  BY TypeOKIs DEF Typed
<1>2. \A c \in Callers : call'[c] \in {call[c], [call[c] EXCEPT !.stop = TRUE], Idle}
  <2>1. CASE UNCHANGED call
    BY <2>1
  <2>2. CASE CloseGeneration(d) \/ \E r \in Rays : StopRay(d, r)
    BY <2>2 DEF CloseGeneration, StopRay
  <2>3. CASE Crash(d)
    BY <2>3 DEF Crash
  <2> QED BY <2>1, <2>2, <2>3 DEF Boot, OpenRuntime, Recover, Ready,
             CancelRay, Publish, RequestStop, Exit
<1>3. \A c \in Callers : \/ call'[c].pc = call[c].pc /\ call'[c].ray = call[c].ray
                         \/ call'[c].pc = "idle" /\ call'[c].ray = NoRay
  BY <1>1, <1>2 DEF Frames, Idle
<1>4. \A e \in Daemons \ {d} : proc'[e] = proc[e]
  BY <1>1 DEF Boot, OpenRuntime, Recover, Ready, Publish, RequestStop, Exit,
         Crash, CancelRay, StopRay, CloseGeneration
<1>5. proc[d].cancelled \subseteq proc'[d].cancelled \/ proc'[d].phase = "down"
  <2>1. CASE OpenRuntime(d) \/ \E a \in Acts : Recover(d, a)
    BY <1>1, <2>1 DEF OpenRuntime, Recover, Procs, Down
  <2>2. CASE Ready(d) \/ Publish(d) \/ RequestStop(d)
    BY <1>1, <2>2 DEF Ready, Publish, RequestStop, Procs, Down
  <2>3. CASE CloseGeneration(d)
    BY <1>1, <2>3 DEF CloseGeneration, Procs
  <2>4. CASE \E r \in Rays : CancelRay(d, r) \/ StopRay(d, r)
    BY <1>1, <2>4 DEF CancelRay, StopRay, Procs
  <2>5. CASE Exit(d) \/ Crash(d)
    BY <1>1, <2>5 DEF Exit, Crash, Down
  <2> QED BY <2>1, <2>2, <2>3, <2>4, <2>5 DEF Boot
<1> QED BY <1>3, <1>4, <1>5

(* A caller leaves the head of the loop for a Lens only when its ray has    *)
(* not been cancelled.                                                      *)
LEMMA SpentStays ==
    ASSUME Typed, NEW c \in Callers, Step(c), Spent(call[c]),
           call[c].ray \in Of(c).cancelled
    PROVE  Spent(call'[c])
<1> DEFINE f == call[c]
<1>1. f \in Frames /\ Spent(Idle)
  BY TypeOKIs DEF Typed, Spent, Idle
<1>2. CASE Check(c)
  <2>1. call'[c] \in {[f EXCEPT !.pc = "leave"], Idle}
    BY <1>2, ReturnsFrame, EmitsFrame DEF Check
  <2> QED BY <1>1, <2>1 DEF Frames, Spent
<1>3. CASE Run(c)
  <2>1. \E r : call'[c] = [f EXCEPT !.pc = "finish", !.stop = FALSE, !.result = r]
    BY <1>3, ReturnsFrame DEF Run
  <2> QED BY <1>1, <2>1 DEF Frames, Spent
<1>4. CASE Finish(c) \/ Abort(c) \/ Leave(c)
  <2>1. PICK g : /\ g \in {[Idle EXCEPT !.pc = "check", !.ray = f.ray,
                                        !.beats = f.beats + 1],
                           [f EXCEPT !.pc = "abort"], Idle}
                 /\ \E p : Emits(c, p, g)
    BY <1>4 DEF Finish, Abort, Leave, Audits
  <2>2. call'[c] \in {g, Idle}
    BY <2>1, EmitsFrame
  <2>3. Spent(g)
    BY <1>1, <2>1 DEF Frames, Spent, Idle
  <2> QED BY <1>1, <2>2, <2>3
<1> QED BY <1>2, <1>3, <1>4 DEF Step, Spent, At, Input, View, Propose, Admit, Acquire, Start

\* No two callers of a daemon come to share a ray.
LEMMA OwnRaysNext == Typed /\ OwnRays /\ [Next]_vars => OwnRays'
<1> SUFFICES ASSUME Typed, OwnRays, [Next]_vars PROVE OwnRays'
  OBVIOUS
<1>1. CASE UNCHANGED vars
  BY <1>1 DEF OwnRays, vars
<1>2. ASSUME NEW c \in Callers, Step(c) PROVE OwnRays'
  BY <1>2, StepRay DEF OwnRays
<1>3. ASSUME NEW c \in Callers, NEW r \in Rays, Begin(c, r) PROVE OwnRays'
  <2>1. call'[c].ray = r /\ \A b \in Callers \ {c} : call'[b] = call[b]
    BY <1>3, ReturnsFrame DEF Begin, Idle
  <2>2. \A b \in Callers : Host[b] = Host[c] => call[b].ray # r
    BY <1>3 DEF Begin, CallersOf
  <2> QED BY <2>1, <2>2 DEF OwnRays
<1>4. ASSUME NEW d \in Daemons,
             \/ Boot(d)
             \/ \E r \in Rays : CancelRay(d, r) \/ StopRay(d, r)
             \/ CloseGeneration(d) \/ Publish(d)
             \/ RequestStop(d) \/ Exit(d) \/ Crash(d)
      PROVE  OwnRays'
  BY <1>4, DaemonFrames DEF OwnRays
<1> QED BY <1>1, <1>2, <1>3, <1>4 DEF Next

(* What a step does to a cancelled ray: it stays cancelled until its daemon *)
(* is down, and a caller spent on it stays spent.                           *)
LEMMA CancelledStays ==
    ASSUME Typed, Next, NEW d \in Daemons, NEW r \in Rays, r \in proc[d].cancelled
    PROVE  /\ r \in proc'[d].cancelled \/ proc'[d].phase = "down"
           /\ \A c \in CallersOf(d) : call'[c].ray = r =>
                 call[c].ray = r /\ (Spent(call[c]) => Spent(call'[c]))
<1>1. ASSUME NEW c \in Callers, Step(c)
      PROVE  /\ UNCHANGED proc
             /\ \A b \in CallersOf(d) : call'[b].ray = r =>
                   call[b].ray = r /\ (Spent(call[b]) => Spent(call'[b]))
  <2>1. /\ call'[c].ray \in {call[c].ray, NoRay} /\ UNCHANGED proc
        /\ \A b \in Callers \ {c} : call'[b] = call[b]
    BY <1>1, StepRay
  <2>2. ASSUME NEW b \in CallersOf(d), call'[b].ray = r
        PROVE  call[b].ray = r /\ (Spent(call[b]) => Spent(call'[b]))
    <3>1. r # NoRay
      BY RayOfAssumption
    <3>2. CASE b = c
      <4>1. call[c].ray = r /\ r \in Of(c).cancelled
        BY <2>1, <2>2, <3>1, <3>2 DEF CallersOf, Of
      <4> QED BY <1>1, <3>2, <4>1, SpentStays
    <3>3. CASE b # c
      BY <2>1, <2>2, <3>3 DEF CallersOf
    <3> QED BY <3>2, <3>3
  <2> QED BY <2>1, <2>2
<1>2. ASSUME NEW c \in Callers, NEW s \in Rays, Begin(c, s)
      PROVE  /\ UNCHANGED proc
             /\ \A b \in CallersOf(d) : call'[b].ray = r => call'[b] = call[b]
  <2>1. call'[c].ray = s /\ \A b \in Callers \ {c} : call'[b] = call[b]
    BY <1>2, ReturnsFrame DEF Begin, Idle
  <2>2. s \notin Of(c).cancelled /\ UNCHANGED proc
    BY <1>2 DEF Begin
  <2> QED BY <2>1, <2>2 DEF CallersOf, Of
<1>3. ASSUME NEW e \in Daemons,
             \/ Boot(e)
             \/ \E s \in Rays : CancelRay(e, s) \/ StopRay(e, s)
             \/ CloseGeneration(e) \/ Publish(e)
             \/ RequestStop(e) \/ Exit(e) \/ Crash(e)
      PROVE  /\ r \in proc'[d].cancelled \/ proc'[d].phase = "down"
             /\ \A c \in CallersOf(d) : call'[c].ray = r =>
                   call[c].ray = r /\ (Spent(call[c]) => Spent(call'[c]))
  <2>1. r # NoRay
    BY RayOfAssumption
  <2>2. \A c \in CallersOf(d) : c \in Callers
    BY DEF CallersOf
  <2> QED BY <1>3, <2>1, <2>2, DaemonFrames DEF Spent
<1> QED BY <1>1, <1>2, <1>3 DEF Next

LEMMA LateKept ==
    ASSUME LateInv, LateNext
    PROVE  LateIsLast'
<1> DEFINE count(d, r) == IF proc'[d].phase = "down" THEN 0
                          ELSE IF r \in proc[d].cancelled /\ StartsOn(d, r)
                            THEN late[d][r] + 1 ELSE late[d][r]
<1>1. /\ late' = [d \in Daemons |-> [r \in Rays |-> count(d, r)]]
      /\ Typed /\ OwnRays /\ LateIsLast /\ Next
  BY DEF LateNext, LateInv
<1>2. ASSUME NEW d \in Daemons, NEW r \in Rays
      PROVE  /\ count(d, r) \in {0, 1}
             /\ count(d, r) = 1 =>
                  /\ r \in proc'[d].cancelled
                  /\ \A c \in CallersOf(d) : call'[c].ray = r => Spent(call'[c])
  <2>1. /\ late[d][r] \in {0, 1}
        /\ late[d][r] = 1 => /\ r \in proc[d].cancelled
                             /\ \A c \in CallersOf(d) : call[c].ray = r => Spent(call[c])
    BY <1>1 DEF LateIsLast
  <2>2. CASE proc'[d].phase = "down"
    BY <2>2
  <2>3. CASE proc'[d].phase # "down" /\ r \in proc[d].cancelled /\ StartsOn(d, r)
    <3>1. PICK c \in CallersOf(d) : call[c].pc = "start" /\ call'[c].pc = "run" /\ call[c].ray = r
      BY <2>3 DEF StartsOn, At
    <3>2. late[d][r] = 0
      BY <2>1, <3>1 DEF Spent
    <3>3. count(d, r) = 1
      BY <2>3, <3>2
    <3>4. r \in proc'[d].cancelled
      BY <1>1, <2>3, CancelledStays
    <3>5. \A b \in CallersOf(d) : call'[b].ray = r => b = c
      <4>1. ASSUME NEW b \in CallersOf(d), call'[b].ray = r, b # c PROVE FALSE
        <5>1. call[b].ray = r
          BY <1>1, <2>3, <4>1, CancelledStays
        <5>2. r = NoRay
          BY <1>1, <3>1, <4>1, <5>1 DEF OwnRays, CallersOf
        <5> QED BY <5>2, RayOfAssumption
      <4> QED BY <4>1
    <3>6. Spent(call'[c])
      BY <3>1 DEF Spent
    <3> QED BY <3>3, <3>4, <3>5, <3>6
  <2>4. CASE proc'[d].phase # "down" /\ ~(r \in proc[d].cancelled /\ StartsOn(d, r))
    <3>1. count(d, r) = late[d][r]
      BY <2>4
    <3>2. CASE late[d][r] = 1
      <4>1. r \in proc[d].cancelled
        BY <2>1, <3>2
      <4>2. /\ r \in proc'[d].cancelled
            /\ \A c \in CallersOf(d) : call'[c].ray = r =>
                  call[c].ray = r /\ (Spent(call[c]) => Spent(call'[c]))
        BY <1>1, <2>4, <4>1, CancelledStays
      <4> QED BY <2>1, <3>1, <3>2, <4>2
    <3>3. CASE late[d][r] = 0
      BY <3>1, <3>3
    <3> QED BY <2>1, <3>2, <3>3
  <2> QED BY <2>2, <2>3, <2>4
<1> HIDE DEF count
<1>3. late' \in [Daemons -> [Rays -> {0, 1}]]
  BY <1>1, <1>2
<1>4. \A d \in Daemons, r \in Rays : late'[d][r] = count(d, r)
  BY <1>1
<1>5. \A d \in Daemons : CallersOf(d)' = CallersOf(d)
  BY DEF CallersOf
<1> QED BY <1>2, <1>3, <1>4, <1>5 DEF LateIsLast

(* For any number of daemons, callers and rays: once a ray is cancelled in  *)
(* a daemon, at most one more Act is started on it there, the one that was  *)
(* already past the head of the loop.                                       *)
THEOREM OneLateStart == LateSpec => []OneActAfterCancel
<1>1. LateInit => LateInv
  <2> SUFFICES ASSUME LateInit PROVE LateInv
    OBVIOUS
  <2>1. Typed
    BY InitTyped DEF LateInit
  <2>2. \A c \in Callers : call[c].ray = NoRay
    BY DEF LateInit, Init, Idle
  <2>3. late = [d \in Daemons |-> [r \in Rays |-> 0]]
    BY DEF LateInit
  <2> QED BY <2>1, <2>2, <2>3 DEF LateInv, OwnRays, LateIsLast
<1>2. LateInv /\ [LateNext]_<<vars, late>> => LateInv'
  <2> SUFFICES ASSUME LateInv, [LateNext]_<<vars, late>> PROVE LateInv'
    OBVIOUS
  <2>1. [Next]_vars
    BY DEF LateNext
  <2>2. Typed' /\ OwnRays'
    BY <2>1, NextTyped, OwnRaysNext DEF LateInv
  <2>3. CASE UNCHANGED <<vars, late>>
    <3>1. late' = late /\ proc' = proc /\ call' = call
      BY <2>3 DEF vars
    <3>2. LateIsLast'
      BY <3>1 DEF LateInv, LateIsLast, CallersOf, Spent
    <3> QED BY <2>2, <3>2 DEF LateInv
  <2>4. CASE LateNext
    BY ONLY LateInv, <2>4, <2>2, LateKept DEF LateInv
  <2> QED BY ONLY [LateNext]_<<vars, late>>, <2>3, <2>4
<1>3. LateInv => OneActAfterCancel
  BY DEF LateInv, LateIsLast, OneActAfterCancel
<1> QED BY <1>1, <1>2, <1>3, PTL DEF LateSpec
-----------------------------------------------------------------------------
(* The audit trail.  An Act made for one proposal is fresh, then running,   *)
(* then over, and the log tells which.                                      *)
StartsIn(l, a) == {i \in DOMAIN l : Starts(l[i], a)}
EndsIn(l, a) == {i \in DOMAIN l : Ends(l[i], a)}

Fresh(a) == StartsOf(a) = 0 /\ EndsOf(a) = 0
Running(a) == StartsOf(a) = 1 /\ EndsOf(a) = 0
Over(a) == StartsOf(a) = 1 /\ EndsOf(a) = 1

\* A caller with an Act that it has not started yet.
Bearing(f) == f.pc \in {"propose", "admit", "acquire", "start"}

(* What a caller is going to start was never started; what it or recovery   *)
(* is going to end is running.                                              *)
Stages == \A a \in MadeOnce : Fresh(a) \/ Running(a) \/ Over(a)

BearersHoldFresh ==
    \A c \in Callers, a \in MadeOnce : call[c].act = a =>
        /\ Bearing(call[c]) => Fresh(a)
        /\ Busy(call[c]) => Running(a)

WorkIsRunning == \A d \in Daemons : \A a \in proc[d].unsettled \cap MadeOnce : Running(a)

Life == Stages /\ BearersHoldFresh /\ WorkIsRunning

\* The moves of the audit trail.
Same(a) == StartsOf(a)' = StartsOf(a) /\ EndsOf(a)' = EndsOf(a)
Begun(a) == Fresh(a) /\ Running(a)'
Closed(a) == Running(a) /\ Over(a)'

Moves == \/ \A a \in MadeOnce : Same(a)
         \/ \E a \in MadeOnce : /\ Begun(a) \/ Closed(a)
                                /\ \A b \in MadeOnce \ {a} : Same(b)

LEMMA PositionsGrow ==
    ASSUME NEW S, NEW l \in Seq(S), NEW p \in S, NEW a
    PROVE  /\ StartsIn(Append(l, p), a) =
                 IF Starts(p, a) THEN StartsIn(l, a) \cup {Len(l) + 1} ELSE StartsIn(l, a)
           /\ EndsIn(Append(l, p), a) =
                 IF Ends(p, a) THEN EndsIn(l, a) \cup {Len(l) + 1} ELSE EndsIn(l, a)
           /\ Len(l) + 1 \notin StartsIn(l, a) /\ Len(l) + 1 \notin EndsIn(l, a)
           /\ IsFiniteSet(StartsIn(l, a)) /\ IsFiniteSet(EndsIn(l, a))
<1>1. /\ DOMAIN Append(l, p) = 1..(Len(l) + 1) /\ DOMAIN l = 1..Len(l)
      /\ Append(l, p)[Len(l) + 1] = p /\ \A i \in 1..Len(l) : Append(l, p)[i] = l[i]
      /\ Len(l) \in Nat /\ 1..(Len(l) + 1) = 1..Len(l) \cup {Len(l) + 1}
      /\ Len(l) + 1 \notin 1..Len(l)
  OBVIOUS
<1>2. IsFiniteSet(1..Len(l))
  BY <1>1, FS_Interval
<1>3. StartsIn(l, a) \in SUBSET (1..Len(l)) /\ EndsIn(l, a) \in SUBSET (1..Len(l))
  BY <1>1 DEF StartsIn, EndsIn
<1>4. IsFiniteSet(StartsIn(l, a)) /\ IsFiniteSet(EndsIn(l, a))
  BY <1>2, <1>3, FS_Subset
<1>5. StartsIn(Append(l, p), a) =
        IF Starts(p, a) THEN StartsIn(l, a) \cup {Len(l) + 1} ELSE StartsIn(l, a)
  BY <1>1 DEF StartsIn
<1>6. EndsIn(Append(l, p), a) =
        IF Ends(p, a) THEN EndsIn(l, a) \cup {Len(l) + 1} ELSE EndsIn(l, a)
  BY <1>1 DEF EndsIn
<1> QED BY <1>1, <1>3, <1>4, <1>5, <1>6

\* One more photon, counted.
LEMMA MarksGrow ==
    ASSUME log \in Seq(Photons), NEW p \in Photons, log' = Append(log, p), NEW a
    PROVE  /\ StartsOf(a) \in Nat /\ EndsOf(a) \in Nat
           /\ StartsOf(a)' = IF Starts(p, a) THEN StartsOf(a) + 1 ELSE StartsOf(a)
           /\ EndsOf(a)' = IF Ends(p, a) THEN EndsOf(a) + 1 ELSE EndsOf(a)
<1>1. /\ StartsOf(a) = Cardinality(StartsIn(log, a))
      /\ EndsOf(a) = Cardinality(EndsIn(log, a))
      /\ StartsOf(a)' = Cardinality(StartsIn(log', a))
      /\ EndsOf(a)' = Cardinality(EndsIn(log', a))
  BY DEF StartsOf, EndsOf, StartsIn, EndsIn
<1>2. /\ IsFiniteSet(StartsIn(log, a)) /\ IsFiniteSet(EndsIn(log, a))
      /\ Len(log) + 1 \notin StartsIn(log, a) /\ Len(log) + 1 \notin EndsIn(log, a)
      /\ StartsIn(log', a) = IF Starts(p, a) THEN StartsIn(log, a) \cup {Len(log) + 1}
                                             ELSE StartsIn(log, a)
      /\ EndsIn(log', a) = IF Ends(p, a) THEN EndsIn(log, a) \cup {Len(log) + 1}
                                         ELSE EndsIn(log, a)
  BY PositionsGrow
<1>3. Cardinality(StartsIn(log, a)) \in Nat /\ Cardinality(EndsIn(log, a)) \in Nat
  BY <1>2, FS_CardinalityType
<1>4. /\ Cardinality(StartsIn(log, a) \cup {Len(log) + 1})
           = Cardinality(StartsIn(log, a)) + 1
      /\ Cardinality(EndsIn(log, a) \cup {Len(log) + 1}) = Cardinality(EndsIn(log, a)) + 1
  BY <1>2, FS_AddElement
<1> QED BY <1>1, <1>2, <1>3, <1>4

\* An Act that no photon starts or ends is fresh.
LEMMA NoMarkIsFresh ==
    ASSUME NEW a, \A i \in DOMAIN log : ~Starts(log[i], a) /\ ~Ends(log[i], a)
    PROVE  Fresh(a)
<1>1. /\ {i \in DOMAIN log : Starts(log[i], a)} = {}
      /\ {i \in DOMAIN log : Ends(log[i], a)} = {}
  OBVIOUS
<1> QED BY <1>1, FS_EmptySet DEF Fresh, StartsOf, EndsOf

\* What recovery takes for unfinished was started and has no end.
LEMMA WorkHasNoEnd ==
    ASSUME log \in Seq(Photons), Len(log) <= Window,
           NEW a \in Unsettled(ReadAll(log, Window), Acts)
    PROVE  EndsOf(a) = 0 /\ StartsOf(a) # 0
<1>1. Len(log) \in Nat /\ DOMAIN log = 1..Len(log) /\ Window \in Nat
  BY Bounds
<1>2. ReadAll(log, Window) = SubSeq(log, 1, Len(log))
  <2>1. \A n \in Nat : n <= Window => n < Window \/ n = Window
    BY <1>1
  <2>2. Len(log) < Window \/ Len(log) = Window
    BY <1>1, <2>1
  <2> QED BY <2>2 DEF ReadAll
<1>3. /\ DOMAIN SubSeq(log, 1, Len(log)) = 1..Len(log)
      /\ \A i \in 1..Len(log) : SubSeq(log, 1, Len(log))[i] = log[i]
  BY <1>1
<1>4. /\ \E i \in DOMAIN log : Starts(log[i], a)
      /\ \A j \in DOMAIN log : ~Ends(log[j], a)
  BY <1>1, <1>2, <1>3 DEF Unsettled
<1>5. IsFiniteSet(StartsIn(log, a))
  <2>1. StartsIn(log, a) \in SUBSET (1..Len(log))
    BY <1>1 DEF StartsIn
  <2>2. IsFiniteSet(1..Len(log))
    BY <1>1, FS_Interval
  <2> QED BY <2>1, <2>2, FS_Subset
<1>6. StartsIn(log, a) # {} /\ EndsIn(log, a) = {}
  BY <1>4 DEF StartsIn, EndsIn
<1>7. Cardinality(StartsIn(log, a)) # 0 /\ Cardinality(EndsIn(log, a)) = 0
  BY <1>5, <1>6, FS_EmptySet
<1> QED BY <1>7 DEF StartsOf, EndsOf, StartsIn, EndsIn

\* A refused or failed append leaves the caller idle and the log as it was.
LEMMA EmitsEither ==
    ASSUME Typed, NEW c \in Callers, NEW p, NEW f, Emits(c, p, f)
    PROVE  \/ log' = Append(log, p) /\ call'[c] = f
           \/ log' = log /\ call'[c] = Idle
BY ReturnsFrame DEF Emits

\* What a step of a caller does to the marks of the log and to what it holds.
Silent(c) ==
    /\ \E p \in Photons : /\ log' \in {log, Append(log, p)}
                          /\ \A a \in Acts : ~Starts(p, a) /\ ~Ends(p, a)
    /\ Busy(call'[c]) => Busy(call[c]) /\ call'[c].act = call[c].act
    /\ Bearing(call'[c]) =>
          \/ Bearing(call[c]) /\ call'[c].act = call[c].act
          \/ log' = log /\ call'[c].act \in Proposable(call[c].ray)

Launches(c) ==
    /\ call[c].pc = "start" /\ call'[c].pc = "run" /\ call'[c].act = call[c].act
    /\ log' = Append(log, Photon("act.started", call[c].ray, call[c].act))

Lands(c) ==
    /\ call[c].pc = "finish" /\ call'[c].pc \in {"idle", "check", "abort"}
    /\ \E k \in TerminalKinds : log' = Append(log, Photon(k, call[c].ray, call[c].act))

LEMMA SilentEmit ==
    ASSUME Typed, NEW c \in Callers, NEW k \in Kinds \ (TerminalKinds \cup {"act.started"}),
           NEW x \in Acts \cup {NoAct}, NEW f, Emits(c, Photon(k, call[c].ray, x), f),
           ~Busy(f), Bearing(f) => Bearing(call[c]) /\ f.act = call[c].act
    PROVE  Silent(c)
<1> DEFINE p == Photon(k, call[c].ray, x)
<1>1. call[c] \in Frames
  BY TypeOKIs DEF Typed
<1>2. p \in Photons /\ \A a \in Acts : ~Starts(p, a) /\ ~Ends(p, a)
  BY <1>1 DEF Photon, Photons, Frames, Starts, Ends
<1>3. log' \in {log, Append(log, p)} /\ call'[c] \in {f, Idle}
  BY EmitsEither
<1>4. ~Busy(Idle) /\ ~Bearing(Idle)
  BY DEF Busy, Bearing, Idle
<1> QED BY <1>2, <1>3, <1>4 DEF Silent

LEMMA SilentReturn ==
    ASSUME Typed, NEW c \in Callers, NEW f, UNCHANGED log, call'[c] = f,
           Busy(f) => Busy(call[c]) /\ f.act = call[c].act,
           Bearing(f) => \/ Bearing(call[c]) /\ f.act = call[c].act
                         \/ f.act \in Proposable(call[c].ray)
    PROVE  Silent(c)
<1>1. Photon("user.input", NoRay, NoAct) \in Photons
  BY DEF Photon, Photons, Kinds
<1>2. \A a \in Acts : /\ ~Starts(Photon("user.input", NoRay, NoAct), a)
                      /\ ~Ends(Photon("user.input", NoRay, NoAct), a)
  BY ActAssumption DEF Photon, Starts, Ends
<1> QED BY <1>1, <1>2 DEF Silent

LEMMA StepMarks ==
    ASSUME Typed, NEW c \in Callers, Step(c)
    PROVE  Silent(c) \/ Launches(c) \/ Lands(c)
<1> DEFINE f == call[c]
<1>1. f \in Frames /\ ~Busy(Idle) /\ ~Bearing(Idle)
  BY TypeOKIs DEF Typed, Busy, Bearing, Idle
<1>2. /\ {"user.input", "ray.cancelled", "ray.darkened", "act.proposed", "act.admitted",
          "ray.budget-exhausted"} \subseteq Kinds \ (TerminalKinds \cup {"act.started"})
      /\ {"act.rejected", "act.failed"} \subseteq TerminalKinds
      /\ f.act \in Acts \cup {NoAct}
  BY <1>1 DEF Kinds, TerminalKinds, Frames
<1>3. CASE Input(c)
  <2>1. LET g == [f EXCEPT !.pc = "check"] IN ~Busy(g) /\ ~Bearing(g)
    BY <1>1 DEF Frames, Busy, Bearing
  <2> QED BY <1>2, <1>3, <2>1, SilentEmit DEF Input
<1>4. CASE Check(c)
  <2>1. \A pc \in {"leave", "view"} :
          LET g == [f EXCEPT !.pc = pc] IN ~Busy(g) /\ ~Bearing(g)
    BY <1>1 DEF Frames, Busy, Bearing
  <2>2. CASE Emits(c, Photon("ray.cancelled", f.ray, NoAct), Idle)
    BY <1>1, <1>2, <2>2, SilentEmit
  <2>3. CASE \E pc \in {"leave", "view"} :
               Returns(c, [f EXCEPT !.pc = pc]) /\ UNCHANGED <<log, faults>>
    BY <2>1, <2>3, ReturnsFrame, SilentReturn
  <2> QED BY <1>4, <2>2, <2>3 DEF Check
<1>5. CASE View(c)
  <2>1. CASE Emits(c, Photon("ray.darkened", f.ray, NoAct), Idle)
    BY <1>1, <1>2, <2>1, SilentEmit
  <2>2. ASSUME NEW a \in Proposable(f.ray), UNCHANGED log,
               Returns(c, [f EXCEPT !.pc = "propose", !.act = a, !.viewed = Of(c).path])
        PROVE  Silent(c)
    <3> DEFINE g == [f EXCEPT !.pc = "propose", !.act = a, !.viewed = Of(c).path]
    <3>1. call'[c] = g
      BY <2>2, ReturnsFrame
    <3>2. g.act = a /\ ~Busy(g)
      BY <1>1 DEF Frames, Busy
    <3> HIDE DEF g
    <3> QED BY <2>2, <3>1, <3>2, SilentReturn
  <2> QED BY <1>5, <2>1, <2>2 DEF View
<1>6. CASE Propose(c)
  <2>1. LET g == [f EXCEPT !.pc = "admit", !.snap = Of(c).path]
        IN  ~Busy(g) /\ g.act = f.act /\ Bearing(f)
    BY <1>1, <1>6 DEF Frames, Busy, Bearing, Propose, At
  <2> QED BY <1>2, <1>6, <2>1, SilentEmit DEF Propose, Audits
<1>7. CASE Admit(c)
  <2>1. LET g == [f EXCEPT !.pc = "acquire"] IN ~Busy(g) /\ g.act = f.act /\ Bearing(f)
    BY <1>1, <1>7 DEF Frames, Busy, Bearing, Admit, At
  <2>2. CASE Emits(c, Photon("act.rejected", f.ray, NoAct), Idle)
    <3> DEFINE p == Photon("act.rejected", f.ray, NoAct)
    <3>1. p \in Photons /\ \A a \in Acts : ~Starts(p, a) /\ ~Ends(p, a)
      BY <1>1, ActAssumption DEF Photon, Photons, Frames, Starts, Ends, Kinds, TerminalKinds
    <3>2. log' \in {log, Append(log, p)} /\ call'[c] = Idle
      BY <2>2, EmitsEither
    <3> QED BY <1>1, <3>1, <3>2 DEF Silent
  <2>3. CASE Audits(c, "act.admitted", [f EXCEPT !.pc = "acquire"])
    BY <1>2, <2>1, <2>3, SilentEmit DEF Audits
  <2> QED BY <1>7, <2>2, <2>3 DEF Admit
<1>8. CASE Acquire(c)
  <2>1. LET g == [f EXCEPT !.pc = "start", !.stop = FALSE]
        IN  ~Busy(g) /\ g.act = f.act /\ Bearing(f)
    BY <1>1, <1>8 DEF Frames, Busy, Bearing, Acquire, At
  <2>2. UNCHANGED log /\ call'[c] \in {[f EXCEPT !.pc = "start", !.stop = FALSE], Idle}
    BY <1>8, ReturnsFrame DEF Acquire
  <2> QED BY <1>1, <2>1, <2>2, SilentReturn
<1>9. CASE Start(c)
  <2>1. LET g == [f EXCEPT !.pc = "run"] IN g.pc = "run" /\ g.act = f.act
    BY <1>1 DEF Frames
  <2>2. \/ /\ log' = Append(log, Photon("act.started", f.ray, f.act))
           /\ call'[c] = [f EXCEPT !.pc = "run"]
        \/ log' = log /\ call'[c] = Idle
    BY <1>9, EmitsEither DEF Start, Audits
  <2>3. CASE log' = log /\ call'[c] = Idle
    BY <1>1, <2>3, SilentReturn
  <2>4. CASE /\ log' = Append(log, Photon("act.started", f.ray, f.act))
             /\ call'[c] = [f EXCEPT !.pc = "run"]
    BY <1>9, <2>1, <2>4 DEF Launches, Start, At
  <2> QED BY <2>2, <2>3, <2>4
<1>10. CASE Run(c)
  <2>1. PICK r \in Results : Returns(c, [f EXCEPT !.pc = "finish", !.stop = FALSE,
                                                  !.result = r])
    BY <1>10 DEF Run
  <2> DEFINE g == [f EXCEPT !.pc = "finish", !.stop = FALSE, !.result = r]
  <2>2. call'[c] = g /\ g.act = f.act /\ ~Bearing(g) /\ Busy(f) /\ UNCHANGED log
    BY <1>1, <1>10, <2>1, ReturnsFrame DEF Frames, Busy, Bearing, Run, At
  <2> HIDE DEF g
  <2> QED BY <2>2, SilentReturn
<1>11. CASE Finish(c)
  <2>1. PICK k \in TerminalKinds,
             g \in {[Idle EXCEPT !.pc = "check", !.ray = f.ray, !.beats = f.beats + 1],
                    Idle, [f EXCEPT !.pc = "abort"]} :
             Emits(c, Photon(k, f.ray, f.act), g)
    BY <1>2, <1>11 DEF Finish, Audits
  <2>2. g.pc \in {"idle", "check", "abort"}
    <3>1. [f EXCEPT !.pc = "abort"].pc = "abort"
      BY <1>1 DEF Frames
    <3>2. /\ [Idle EXCEPT !.pc = "check", !.ray = f.ray, !.beats = f.beats + 1].pc = "check"
          /\ Idle.pc = "idle"
      BY DEF Idle
    <3> QED BY <2>1, <3>1, <3>2
  <2>3. CASE log' = log /\ call'[c] = Idle
    BY <1>1, <2>3, SilentReturn
  <2>4. CASE log' = Append(log, Photon(k, f.ray, f.act)) /\ call'[c] = g
    BY <1>11, <2>2, <2>4 DEF Lands, Finish, At
  <2> QED BY <2>1, <2>3, <2>4, EmitsEither
<1>12. CASE Abort(c)
  BY <1>1, <1>2, <1>12, SilentEmit DEF Abort, Audits
<1>13. CASE Leave(c)
  BY <1>1, <1>2, <1>13, SilentEmit DEF Leave
<1> QED BY <1>3, <1>4, <1>5, <1>6, <1>7, <1>8, <1>9, <1>10, <1>11, <1>12, <1>13 DEF Step

\* Two callers of a single daemon carry different Acts.
LEMMA ActsApart ==
    ASSUME Writers, NEW b \in Callers, NEW c \in Callers, b # c,
           call[b].pc \in Carrying, call[c].pc \in Carrying
    PROVE  call[b].act # call[c].act
<1>1. /\ RayOf[call[b].act] = call[b].ray /\ RayOf[call[c].act] = call[c].ray
      /\ call[c].act \in Acts
  BY DEF Writers, Typed, FrameOK
<1>2. call[c].ray # NoRay
  BY <1>1, RayOfAssumption
<1> QED BY <1>1, <1>2 DEF Writers, Exclusive

\* Stages under the moves of the audit trail.
LEMMA StagesKept == Stages /\ Moves => Stages'
<1> SUFFICES ASSUME Stages, Moves, NEW b \in MadeOnce
             PROVE  (Fresh(b) \/ Running(b) \/ Over(b))'
  BY DEF Stages
<1>1. Fresh(b) \/ Running(b) \/ Over(b)
  BY DEF Stages
<1>2. CASE Same(b)
  BY <1>1, <1>2 DEF Same, Fresh, Running, Over
<1>3. CASE Begun(b) \/ Closed(b)
  BY <1>3 DEF Begun, Closed
<1> QED BY <1>2, <1>3 DEF Moves

\* A photon that marks no Act changes no count.
LEMMA SilentIsSame ==
    ASSUME log \in Seq(Photons), NEW p \in Photons, log' \in {log, Append(log, p)},
           \A a \in Acts : ~Starts(p, a) /\ ~Ends(p, a)
    PROVE  \A a \in MadeOnce : Same(a)
<1> TAKE a \in MadeOnce
<1>1. ~Starts(p, a) /\ ~Ends(p, a)
  BY DEF MadeOnce
<1>2. CASE log' = log
  BY <1>2 DEF Same, StartsOf, EndsOf
<1>3. CASE log' = Append(log, p)
  BY <1>1, <1>3, MarksGrow DEF Same
<1> QED BY <1>2, <1>3

\* act.started moves its Act from fresh to running, and no other.
LEMMA LaunchMoves ==
    ASSUME log \in Seq(Photons), NEW r \in Rays \cup {NoRay}, NEW x \in Acts \cup {NoAct},
           log' = Append(log, Photon("act.started", r, x))
    PROVE  /\ \A b \in MadeOnce : b # x => Same(b)
           /\ Fresh(x) => Running(x)'
<1> DEFINE p == Photon("act.started", r, x)
<1>1. /\ p \in Photons /\ Starts(p, x) /\ \A b : ~Ends(p, b)
      /\ \A b : b # x => ~Starts(p, b)
  BY DEF Photon, Photons, Kinds, TerminalKinds, Starts, Ends
<1> HIDE DEF p
<1>2. \A b \in MadeOnce : b # x => Same(b)
  BY <1>1, MarksGrow DEF Same, p
<1>3. Fresh(x) => Running(x)'
  BY <1>1, MarksGrow DEF Fresh, Running, p
<1> QED BY <1>2, <1>3

\* An end moves its Act from running to over, and no other.
LEMMA LandMoves ==
    ASSUME log \in Seq(Photons), NEW r \in Rays \cup {NoRay}, NEW x \in Acts \cup {NoAct},
           NEW k \in TerminalKinds, log' = Append(log, Photon(k, r, x))
    PROVE  /\ \A b \in MadeOnce : b # x => Same(b)
           /\ Running(x) => Over(x)'
<1> DEFINE p == Photon(k, r, x)
<1>1. /\ p \in Photons /\ Ends(p, x) /\ \A b : ~Starts(p, b)
      /\ \A b : b # x => ~Ends(p, b)
  BY DEF Photon, Photons, Kinds, TerminalKinds, Starts, Ends
<1> HIDE DEF p
<1>2. \A b \in MadeOnce : b # x => Same(b)
  BY <1>1, MarksGrow DEF Same, p
<1>3. Running(x) => Over(x)'
  BY <1>1, MarksGrow DEF Over, Running, p
<1> QED BY <1>2, <1>3

LEMMA SameKeeps ==
    ASSUME NEW a, Same(a)
    PROVE  (Fresh(a) => Fresh(a)') /\ (Running(a) => Running(a)')
BY DEF Same, Fresh, Running

\* A step of a caller moves the audit trail at most once, and hands on no Act.
LEMMA CallerLife ==
    ASSUME OneDaemon, Writers, Life, NEW c \in Callers, Step(c)
    PROVE  Moves /\ BearersHoldFresh' /\ WorkIsRunning'
<1>1. PICK x \in Acts \cup {NoAct}, f \in Frames :
         /\ f = call[c] /\ x = f.act /\ f.ray \in Rays \cup {NoRay}
         /\ Typed /\ Stages /\ BearersHoldFresh /\ log \in Seq(Photons)
  <2>1. Typed /\ log \in Seq(Photons) /\ call[c] \in Frames
    BY TypeOKIs DEF Writers, Typed
  <2> QED BY <2>1 DEF Life, Frames
<1>2. /\ \A b \in Callers \ {c} : call'[b] = call[b]
      /\ call[c].pc # "idle" /\ UNCHANGED proc
  BY <1>1, StepRay DEF At
<1>3. \A d \in Daemons : proc[d].unsettled = {}
  <2>1. \A d \in Daemons : proc[d].phase = "up"
    BY <1>2, HostAssumption DEF OneDaemon, Writers, Alive, At, Of
  <2> QED BY <2>1 DEF Writers, WorkOnlyInRecovery
<1>4. WorkIsRunning'
  BY <1>2, <1>3 DEF WorkIsRunning
<1>5. \A b \in Callers : Bearing(call[b]) \/ Busy(call[b]) => call[b].pc \in Carrying
  BY DEF Bearing, Busy, Carrying
<1>6. CASE Silent(c)
  <2>1. \A a \in MadeOnce : Same(a)
    BY <1>1, <1>6, SilentIsSame DEF Silent
  <2>2. ASSUME NEW b \in Callers, NEW a \in MadeOnce, call'[b].act = a
        PROVE  /\ Bearing(call'[b]) => Fresh(a)'
               /\ Busy(call'[b]) => Running(a)'
    <3>1. (Fresh(a) => Fresh(a)') /\ (Running(a) => Running(a)')
      BY <2>1, <2>2, SameKeeps
    <3>2. CASE b # c
      BY <1>1, <1>2, <2>2, <3>1, <3>2 DEF BearersHoldFresh
    <3>3. CASE b = c
      <4>1. Busy(call'[c]) => Running(a)
        BY <1>1, <1>6, <2>2, <3>3 DEF Silent, BearersHoldFresh
      <4>2. ASSUME Bearing(call'[c]) PROVE Fresh(a)
        <5>1. CASE Bearing(f) /\ a = x
          BY <1>1, <2>2, <5>1 DEF BearersHoldFresh
        <5>2. CASE a \in Proposable(f.ray)
          <6>1. \A i \in DOMAIN log : log[i].act # a
            BY <2>2, <5>2 DEF Proposable, MadeOnce
          <6> QED BY <6>1, NoMarkIsFresh DEF Starts, Ends
        <5> QED BY <1>1, <1>6, <2>2, <3>3, <4>2, <5>1, <5>2 DEF Silent
      <4> QED BY <3>1, <3>3, <4>1, <4>2
    <3> QED BY <3>2, <3>3
  <2> QED BY <1>4, <2>1, <2>2 DEF Moves, BearersHoldFresh
<1>7. CASE Launches(c)
  <2>1. /\ \A b \in MadeOnce : b # x => Same(b)
        /\ Fresh(x) => Running(x)'
    BY <1>1, <1>7, LaunchMoves DEF Launches
  <2>2. Bearing(f) /\ f.pc \in Carrying
    BY <1>1, <1>7 DEF Launches, Bearing, Carrying
  <2>3. Moves
    <3>1. CASE x \in MadeOnce
      BY <1>1, <2>1, <2>2, <3>1 DEF Moves, Begun, BearersHoldFresh
    <3>2. CASE x \notin MadeOnce
      BY <2>1, <3>2 DEF Moves
    <3> QED BY <3>1, <3>2
  <2>4. ASSUME NEW b \in Callers, NEW a \in MadeOnce, call'[b].act = a
        PROVE  /\ Bearing(call'[b]) => Fresh(a)'
               /\ Busy(call'[b]) => Running(a)'
    <3>1. CASE b # c
      <4>1. call'[b] = call[b] /\ call[b].act = a
        BY <1>2, <2>4, <3>1
      <4>2. ASSUME Bearing(call[b]) \/ Busy(call[b]) PROVE Same(a)
        BY <1>1, <1>5, <2>1, <2>2, <3>1, <4>1, <4>2, ActsApart
      <4>3. /\ Bearing(call[b]) => Fresh(a)
            /\ Busy(call[b]) => Running(a)
        BY <1>1, <4>1 DEF BearersHoldFresh
      <4> QED BY <4>1, <4>2, <4>3, SameKeeps
    <3>2. CASE b = c
      <4>1. a = x /\ call'[c].pc = "run"
        BY <1>1, <1>7, <2>4, <3>2 DEF Launches
      <4>2. Fresh(x)
        BY <1>1, <2>2, <2>4, <4>1 DEF BearersHoldFresh
      <4> QED BY <2>1, <3>2, <4>1, <4>2 DEF Bearing
    <3> QED BY <3>1, <3>2
  <2> QED BY <1>4, <2>3, <2>4 DEF BearersHoldFresh
<1>8. CASE Lands(c)
  <2>1. /\ \A b \in MadeOnce : b # x => Same(b)
        /\ Running(x) => Over(x)'
    BY <1>1, <1>8, LandMoves DEF Lands
  <2>2. Busy(f) /\ f.pc \in Carrying
    BY <1>1, <1>8 DEF Lands, Busy, Carrying
  <2>3. Moves
    <3>1. CASE x \in MadeOnce
      BY <1>1, <2>1, <2>2, <3>1 DEF Moves, Closed, BearersHoldFresh
    <3>2. CASE x \notin MadeOnce
      BY <2>1, <3>2 DEF Moves
    <3> QED BY <3>1, <3>2
  <2>4. ASSUME NEW b \in Callers, NEW a \in MadeOnce, call'[b].act = a
        PROVE  /\ Bearing(call'[b]) => Fresh(a)'
               /\ Busy(call'[b]) => Running(a)'
    <3>1. CASE b # c
      <4>1. call'[b] = call[b] /\ call[b].act = a
        BY <1>2, <2>4, <3>1
      <4>2. ASSUME Bearing(call[b]) \/ Busy(call[b]) PROVE Same(a)
        BY <1>1, <1>5, <2>1, <2>2, <3>1, <4>1, <4>2, ActsApart
      <4>3. /\ Bearing(call[b]) => Fresh(a)
            /\ Busy(call[b]) => Running(a)
        BY <1>1, <4>1 DEF BearersHoldFresh
      <4> QED BY <4>1, <4>2, <4>3, SameKeeps
    <3>2. CASE b = c
      BY <1>8, <3>2 DEF Lands, Bearing, Busy
    <3> QED BY <3>1, <3>2
  <2> QED BY <1>4, <2>3, <2>4 DEF BearersHoldFresh
<1> QED BY <1>1, <1>6, <1>7, <1>8, StepMarks

\* What the other threads of a daemon leave in the frames of its callers.
LEMMA DaemonKeepsActs ==
    ASSUME Typed, NEW d \in Daemons,
           \/ Boot(d)
           \/ \E r \in Rays : CancelRay(d, r) \/ StopRay(d, r)
           \/ CloseGeneration(d) \/ Publish(d)
           \/ RequestStop(d) \/ Exit(d) \/ Crash(d)
    PROVE  \A c \in Callers :
              \/ call'[c].pc = call[c].pc /\ call'[c].act = call[c].act
              \/ call'[c].pc = "idle"
<1>1. \A c \in Callers : call'[c] \in {call[c], [call[c] EXCEPT !.stop = TRUE], Idle}
  <2>1. CASE UNCHANGED call
    BY <2>1
  <2>2. CASE CloseGeneration(d) \/ \E r \in Rays : StopRay(d, r)
    BY <2>2 DEF CloseGeneration, StopRay
  <2>3. CASE Crash(d)
    BY <2>3 DEF Crash
  <2> QED BY <2>1, <2>2, <2>3 DEF Boot, OpenRuntime, Recover, Ready,
             CancelRay, Publish, RequestStop, Exit
<1>2. \A c \in Callers : call[c] \in Frames
  BY TypeOKIs DEF Typed
<1> QED BY <1>1, <1>2 DEF Frames, Idle

\* The other threads of a daemon: only recovery moves the audit trail.
LEMMA DaemonLife ==
    ASSUME OneDaemon, Writers, Life, Len(log) <= Window, NEW d \in Daemons,
           \/ Boot(d)
           \/ \E r \in Rays : CancelRay(d, r) \/ StopRay(d, r)
           \/ CloseGeneration(d) \/ Publish(d)
           \/ RequestStop(d) \/ Exit(d) \/ Crash(d)
    PROVE  Moves /\ BearersHoldFresh' /\ WorkIsRunning'
<1>1. /\ Typed /\ Stages /\ BearersHoldFresh /\ WorkIsRunning /\ log \in Seq(Photons)
      /\ proc \in [Daemons -> Procs] /\ proc[d] \in Procs
  BY TypeOKIs DEF Writers, Typed, Life
<1>2. \A e \in Daemons : e = d
  BY DEF OneDaemon
<1>3. \A c \in Callers : \/ call'[c].pc = call[c].pc /\ call'[c].act = call[c].act
                         \/ call'[c].pc = "idle"
  BY <1>1, DaemonKeepsActs
<1>4. ASSUME \A a \in MadeOnce : Same(a) PROVE Moves /\ BearersHoldFresh'
  <2>1. ASSUME NEW c \in Callers, NEW a \in MadeOnce, call'[c].act = a
        PROVE  /\ Bearing(call'[c]) => Fresh(a)'
               /\ Busy(call'[c]) => Running(a)'
    BY <1>1, <1>3, <1>4, <2>1, SameKeeps DEF BearersHoldFresh, Bearing, Busy
  <2> QED BY <1>4, <2>1 DEF Moves, BearersHoldFresh
<1>5. CASE OpenRuntime(d)
  <2>1. log' = log
    BY <1>5 DEF OpenRuntime
  <2>2. \A a \in MadeOnce : Same(a)
    BY <2>1 DEF Same, StartsOf, EndsOf
  <2>3. proc'[d].unsettled = Unsettled(ReadAll(log, Window), Acts)
    BY <1>1, <1>5 DEF OpenRuntime, Procs
  <2>4. ASSUME NEW a \in proc'[d].unsettled \cap MadeOnce PROVE Running(a)'
    <3>1. EndsOf(a) = 0 /\ StartsOf(a) # 0
      BY <1>1, <2>3, WorkHasNoEnd
    <3>2. Running(a)
      BY <1>1, <3>1 DEF Stages, Fresh, Running, Over
    <3> QED BY <2>2, <3>2, SameKeeps
  <2> QED BY <1>2, <1>4, <2>2, <2>4 DEF WorkIsRunning
<1>6. ASSUME NEW x \in Acts, Recover(d, x)
      PROVE  Moves /\ BearersHoldFresh' /\ WorkIsRunning'
  <2>1. \A c \in Callers : call[c].pc = "idle"
    BY <1>2, <1>6, HostAssumption DEF Recover, Writers, Alive, At, Of
  <2>2. BearersHoldFresh'
    BY <1>3, <2>1 DEF BearersHoldFresh, Bearing, Busy
  <2>3. CASE proc' = [proc EXCEPT ![d] = Down] /\ log' = log
    <3>1. \A a \in MadeOnce : Same(a)
      BY <2>3 DEF Same, StartsOf, EndsOf
    <3>2. proc'[d].unsettled = {}
      BY <1>1, <2>3 DEF Down
    <3> QED BY <1>2, <1>4, <3>1, <3>2 DEF WorkIsRunning
  <2>4. CASE /\ log' = Append(log, Photon("act.outcome-unknown", RayOf[x], x))
             /\ proc' = [proc EXCEPT ![d].unsettled = @ \ {x}]
    <3>1. /\ \A b \in MadeOnce : b # x => Same(b)
          /\ Running(x) => Over(x)'
      <4>1. RayOf[x] \in Rays /\ "act.outcome-unknown" \in TerminalKinds
        BY RayOfAssumption DEF TerminalKinds
      <4> QED BY <1>1, <2>4, <4>1, LandMoves
    <3>2. proc'[d].unsettled = proc[d].unsettled \ {x} /\ x \in proc[d].unsettled
      BY <1>1, <1>6, <2>4 DEF Procs, Recover
    <3>3. Moves
      BY <1>1, <3>1, <3>2 DEF Moves, Closed, WorkIsRunning
    <3>4. \A a \in proc'[d].unsettled \cap MadeOnce : Running(a) /\ Same(a)
      BY <1>1, <3>1, <3>2 DEF WorkIsRunning
    <3>5. \A a \in proc'[d].unsettled \cap MadeOnce : Running(a)'
      BY <3>4, SameKeeps
    <3> QED BY <1>2, <2>2, <3>3, <3>5 DEF WorkIsRunning
  <2> QED BY <1>6, <2>3, <2>4 DEF Recover
<1>7. CASE Ready(d)
  <2> DEFINE p == Photon("system.started", NoRay, NoAct)
  <2>1. /\ p \in Photons /\ log' \in {log, Append(log, p)}
        /\ \A a \in Acts : ~Starts(p, a) /\ ~Ends(p, a)
    BY <1>7 DEF Ready, Photon, Photons, Kinds, TerminalKinds, Starts, Ends
  <2>2. \A a \in MadeOnce : Same(a)
    BY <1>1, <2>1, SilentIsSame
  <2>3. proc'[d].unsettled = {}
    BY <1>1, <1>7 DEF Ready, Procs, Down
  <2> QED BY <1>2, <1>4, <2>2, <2>3 DEF WorkIsRunning
<1>8. CASE \/ \E r \in Rays : CancelRay(d, r) \/ StopRay(d, r)
           \/ CloseGeneration(d) \/ Publish(d) \/ RequestStop(d)
           \/ Exit(d) \/ Crash(d)
  <2>1. UNCHANGED log
    BY <1>8 DEF CancelRay, StopRay, CloseGeneration, Publish, RequestStop, Exit, Crash
  <2>2. proc'[d].unsettled \subseteq proc[d].unsettled
    <3>1. CASE \E r \in Rays : CancelRay(d, r) \/ StopRay(d, r)
      BY <1>1, <3>1 DEF CancelRay, StopRay, Procs
    <3>2. CASE CloseGeneration(d) \/ Publish(d) \/ RequestStop(d)
      BY <1>1, <3>2 DEF CloseGeneration, Publish, RequestStop, Procs
    <3>3. CASE Exit(d) \/ Crash(d)
      BY <1>1, <3>3 DEF Exit, Crash, Down
    <3> QED BY <1>8, <3>1, <3>2, <3>3
  <2>3. \A a \in MadeOnce : Same(a)
    BY <2>1 DEF Same, StartsOf, EndsOf
  <2>4. \A a \in proc'[d].unsettled \cap MadeOnce : Running(a)'
    BY <1>1, <2>2, <2>3, SameKeeps DEF WorkIsRunning
  <2> QED BY <1>2, <1>4, <2>3, <2>4 DEF WorkIsRunning
<1> QED BY <1>5, <1>6, <1>7, <1>8 DEF Boot

\* A step that finds the log whole moves the audit trail at most once.
LEMMA LifeNext ==
    ASSUME OneDaemon, Writers, Life, Len(log) <= Window, [Next]_vars
    PROVE  Moves /\ Life'
<1>1. Typed /\ Stages
  BY DEF Writers, Life
<1>2. CASE UNCHANGED vars
  <2>1. log' = log /\ call' = call /\ proc' = proc
    BY <1>2 DEF vars
  <2>2. \A a \in MadeOnce : Same(a)
    BY <2>1 DEF Same, StartsOf, EndsOf
  <2>3. BearersHoldFresh' /\ WorkIsRunning'
    BY <2>1, <2>2, SameKeeps DEF Life, BearersHoldFresh, WorkIsRunning
  <2> QED BY <1>1, <2>2, <2>3, StagesKept DEF Moves, Life
<1>3. ASSUME NEW c \in Callers, Step(c) PROVE Moves /\ Life'
  BY <1>1, <1>3, CallerLife, StagesKept DEF Life
<1>4. ASSUME NEW c \in Callers, NEW r \in Rays, Begin(c, r) PROVE Moves /\ Life'
  <2>1. /\ log' = log /\ proc' = proc
        /\ call'[c] = [Idle EXCEPT !.pc = "input", !.ray = r]
        /\ \A b \in Callers \ {c} : call'[b] = call[b]
    BY <1>1, <1>4, ReturnsFrame DEF Begin
  <2>2. \A a \in MadeOnce : Same(a)
    BY <2>1 DEF Same, StartsOf, EndsOf
  <2>3. ~Bearing(call'[c]) /\ ~Busy(call'[c])
    BY <2>1 DEF Idle, Bearing, Busy
  <2>4. BearersHoldFresh' /\ WorkIsRunning'
    BY <2>1, <2>2, <2>3, SameKeeps DEF Life, BearersHoldFresh, WorkIsRunning
  <2> QED BY <1>1, <2>2, <2>4, StagesKept DEF Moves, Life
<1>5. ASSUME NEW d \in Daemons,
             \/ Boot(d)
             \/ \E r \in Rays : CancelRay(d, r) \/ StopRay(d, r)
             \/ CloseGeneration(d) \/ Publish(d)
             \/ RequestStop(d) \/ Exit(d) \/ Crash(d)
      PROVE  Moves /\ Life'
  BY <1>1, <1>5, DaemonLife, StagesKept DEF Life
<1> QED BY <1>2, <1>3, <1>4, <1>5 DEF Next

\* A move of the marks is a step of the abstract trail, or none.
LEMMA MoveIsAStep ==
    ASSUME Moves
    PROVE  [Lifecycle!Next]_<<[a \in MadeOnce |-> StartsOf(a)], [a \in MadeOnce |-> EndsOf(a)]>>
<1> DEFINE s == [a \in MadeOnce |-> StartsOf(a)]
           e == [a \in MadeOnce |-> EndsOf(a)]
<1>1. CASE \A a \in MadeOnce : Same(a)
  <2>1. s' = s /\ e' = e
    BY <1>1 DEF Same
  <2> QED BY <2>1
<1>2. ASSUME NEW a \in MadeOnce, Begun(a), \A b \in MadeOnce \ {a} : Same(b)
      PROVE  Lifecycle!Start(a)
  <2>1. StartsOf(a) = 0 /\ EndsOf(a) = 0 /\ StartsOf(a)' = 1 /\ EndsOf(a)' = 0
    BY <1>2 DEF Begun, Fresh, Running
  <2>2. \A b \in MadeOnce : /\ EndsOf(b)' = EndsOf(b)
                            /\ b # a => StartsOf(b)' = StartsOf(b)
    BY <1>2, <2>1 DEF Same
  <2>3. s[a] = 0 /\ e[a] = 0
    BY <2>1
  <2>4. e' = e
    BY <2>2
  <2>5. s' = [s EXCEPT ![a] = @ + 1]
    <3>1. \A b \in MadeOnce : StartsOf(b)' = IF b = a THEN StartsOf(a) + 1 ELSE StartsOf(b)
      BY <2>1, <2>2
    <3>2. s' = [b \in MadeOnce |-> IF b = a THEN StartsOf(a) + 1 ELSE StartsOf(b)]
      BY <3>1
    <3> QED BY <3>2
  <2> QED BY <2>3, <2>4, <2>5 DEF Lifecycle!Start
<1>3. ASSUME NEW a \in MadeOnce, Closed(a), \A b \in MadeOnce \ {a} : Same(b)
      PROVE  Lifecycle!Settle(a)
  <2>1. StartsOf(a) = 1 /\ EndsOf(a) = 0 /\ StartsOf(a)' = 1 /\ EndsOf(a)' = 1
    BY <1>3 DEF Closed, Over, Running
  <2>2. \A b \in MadeOnce : /\ StartsOf(b)' = StartsOf(b)
                            /\ b # a => EndsOf(b)' = EndsOf(b)
    BY <1>3, <2>1 DEF Same
  <2>3. s[a] = 1 /\ e[a] = 0
    BY <2>1
  <2>4. s' = s
    BY <2>2
  <2>5. e' = [e EXCEPT ![a] = @ + 1]
    <3>1. \A b \in MadeOnce : EndsOf(b)' = IF b = a THEN EndsOf(a) + 1 ELSE EndsOf(b)
      BY <2>1, <2>2
    <3>2. e' = [b \in MadeOnce |-> IF b = a THEN EndsOf(a) + 1 ELSE EndsOf(b)]
      BY <3>1
    <3> QED BY <3>2
  <2> QED BY <2>3, <2>4, <2>5 DEF Lifecycle!Settle
<1> QED BY <1>1, <1>2, <1>3 DEF Moves, Lifecycle!Next

(* With one daemon on the database, and as long as recovery reads the whole *)
(* log, the engine implements the audit trail: an Act made for one proposal *)
(* is started once and then settled once, whoever settles it.               *)
THEOREM TrailIsKept ==
    ASSUME OneDaemon
    PROVE  Spec /\ [](Len(log) <= Window) => ImplementsLifecycle
<1> DEFINE Trail == <<[a \in MadeOnce |-> StartsOf(a)], [a \in MadeOnce |-> EndsOf(a)]>>
           Whole == Len(log) <= Window
<1>1. Init => Writers /\ Life /\ Lifecycle!Init
  <2> SUFFICES ASSUME Init PROVE Writers /\ Life /\ Lifecycle!Init
    OBVIOUS
  <2>1. /\ \A c \in Callers : call[c] = Idle
        /\ \A d \in Daemons : proc[d] = Down
        /\ log = <<>>
    BY DEF Init
  <2>2. Exclusive /\ Alive /\ WorkOnlyInRecovery
    BY <2>1 DEF Exclusive, Alive, WorkOnlyInRecovery, At, Idle, Down
  <2>3. \A a \in MadeOnce : Fresh(a)
    BY <2>1, NoMarkIsFresh
  <2>4. Life
    BY <2>1, <2>3 DEF Life, Stages, BearersHoldFresh, WorkIsRunning, Bearing, Busy, Idle, Down
  <2>5. Lifecycle!Init
    BY <2>3 DEF Lifecycle!Init, Fresh
  <2> QED BY InitTyped, <2>2, <2>4, <2>5 DEF Writers
<1>2. Writers /\ [Next]_vars => Writers'
  BY WritersNext
<1>3. Writers /\ Life /\ Whole /\ [Next]_vars => Life' /\ [Lifecycle!Next]_Trail
  BY LifeNext, MoveIsAStep
<1>4. ImplementsLifecycle <=> Lifecycle!Init /\ [][Lifecycle!Next]_Trail
  BY DEF ImplementsLifecycle, Lifecycle!Spec
<1> HIDE DEF Trail, Whole
<1>5. Spec /\ []Whole => Lifecycle!Init /\ [][Lifecycle!Next]_Trail
  BY <1>1, <1>2, <1>3, PTL DEF Spec
<1> QED BY <1>4, <1>5 DEF Whole
=============================================================================
