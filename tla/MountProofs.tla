----------------------------- MODULE MountProofs -----------------------------
(***************************************************************************)
(* What TLAPS proves of open and reconcile, for any number of daemons on   *)
(* one database, of Lenses, callers, edits, faults and crashes.            *)
(***************************************************************************)
EXTENDS Mount, FiniteSetTheorems, TLAPS

IsPath(path) ==
    /\ DOMAIN path = Lenses
    /\ \A l \in Lenses : /\ DOMAIN path[l] = {"gen", "artifact", "content", "place"}
                          /\ path[l].gen \in Nat

FrameFields == {"pc", "opened", "recorded", "target", "epoch", "path", "newEpoch", "newPath",
                "todo", "next", "retired", "glow", "closed", "stopped"}

IsFrame(f) ==
    /\ DOMAIN f = FrameFields
    /\ f.opened \in BOOLEAN
    /\ f.epoch \in Nat /\ f.newEpoch \in Nat /\ f.next \in Nat
    /\ f.todo \subseteq Lenses
    /\ IsPath(f.path) /\ IsPath(f.newPath)

Typed == /\ DOMAIN mem = Daemons
         /\ \A d \in Daemons : IsFrame(mem[d])
         /\ faults \in Nat /\ refusals \in Nat
         /\ allocator = [epoch |-> allocator.epoch, gen |-> allocator.gen]
         /\ allocator.epoch \in Nat /\ allocator.gen \in Nat

(***************************************************************************)
(* The identities of mounts.  What a daemon has of an allocation is the    *)
(* rest of it, for the Lenses to be staged, and what it gave to those that *)
(* are staged and not shown.                                               *)
(***************************************************************************)
Allocated(f) == f.pc \in {"observe", "stage", "close"}

Staged(f, l) == f.newPath[l].gen # 0 /\ f.newPath[l].gen # f.path[l].gen

Owns(f, g) ==
    /\ Allocated(f)
    /\ \/ f.next <= g /\ g < f.next + Cardinality(f.todo)
       \/ \E l \in Lenses : Staged(f, l) /\ f.newPath[l].gen = g

\* A Lens that is not staged keeps its generation; those that are have their own.
FrameOK(f) ==
    /\ Allocated(f) => f.newEpoch > f.epoch /\ f.next > 0
    /\ f.pc \in {"allocate", "observe"} => \A l \in Lenses : ~Staged(f, l)
    /\ Allocated(f) =>
         \A l \in Lenses : Staged(f, l) =>
             /\ f.newPath[l].gen < f.next
             /\ \A k \in Lenses \ {l} : Staged(f, k) => f.newPath[k].gen # f.newPath[l].gen

IsShown(g) == \E s \in shown, l \in Lenses : s.path[l].gen = g

\* What is shown is below the allocator, and what a daemon owns was never shown
\* and belongs to no other daemon.
Below == /\ \A s \in shown : /\ s.epoch \in Nat /\ s.epoch <= allocator.epoch
                             /\ \A l \in Lenses : s.path[l].gen \in Nat
                                                  /\ s.path[l].gen <= allocator.gen
         /\ \A d \in Daemons :
              /\ mem[d].epoch <= allocator.epoch
              /\ \A l \in Lenses : mem[d].path[l].gen # 0 => IsShown(mem[d].path[l].gen)
              /\ Allocated(mem[d]) => mem[d].newEpoch <= allocator.epoch
              /\ \A g \in Nat : Owns(mem[d], g) => g <= allocator.gen

Unshown == \A d \in Daemons :
    /\ Allocated(mem[d]) => \A s \in shown : s.epoch # mem[d].newEpoch
    /\ \A g \in Nat : Owns(mem[d], g) => ~IsShown(g)

Apart == \A d \in Daemons : \A e \in Daemons \ {d} :
    /\ Allocated(mem[d]) /\ Allocated(mem[e]) => mem[d].newEpoch # mem[e].newEpoch
    /\ \A g \in Nat : ~(Owns(mem[d], g) /\ Owns(mem[e], g))

MountInv == /\ Typed
            /\ \A d \in Daemons : FrameOK(mem[d])
            /\ Below /\ Unshown /\ Apart

(***************************************************************************)
(* The Beams.  A daemon that has not opened has none; what a Beam was      *)
(* aimed at is on the path or closed.                                      *)
(***************************************************************************)
BeamTyped ==
    /\ DOMAIN beam = Callers
    /\ \A c \in Callers : DOMAIN beam[c] = {"pc", "mount", "stop"} /\ beam[c].stop \in BOOLEAN

BeamsAimAtThePath ==
    \A c \in Callers :
        LET f == mem[Host[c]]
        IN  /\ beam[c].pc # "none" => f.opened
            /\ beam[c].pc = "aimed" => beam[c].mount \in Mounts(f.path) \cup f.closed
            /\ beam[c].pc = "held" /\ ~beam[c].stop =>
                   beam[c].mount \in Mounts(f.path) \ f.closed

RetiredAreReplaced ==
    \A d \in Daemons :
        At(d, "close") => mem[d].retired = Mounts(mem[d].path) \ Mounts(mem[d].newPath)

BeamInv == BeamTyped /\ BeamsAimAtThePath /\ RetiredAreReplaced

(***************************************************************************)
(* The retired Lenses: what is closed was told to stop or is still to be.  *)
(***************************************************************************)
Retiring == {"close", "afterglow", "drain", "dim"}

StopOK(f) ==
    /\ f.closed \subseteq f.stopped \cup (IF f.pc \in Retiring THEN f.retired ELSE {})
    /\ f.pc = "dim" => f.glow \in f.stopped

StopInv == faults = 0 => \A d \in Daemons : StopOK(mem[d])
-----------------------------------------------------------------------------
(* Frames *)

LEMMA DarkIsPath == IsPath(Dark) /\ \A l \in Lenses : Dark[l].gen = 0
BY DEF Dark, IsPath

LEMMA FreshIsFrame == IsFrame(Fresh) /\ Fresh.path = Dark /\ Fresh.epoch = 0 /\ Fresh.pc = "idle"
BY DarkIsPath DEF Fresh, IsFrame, FrameFields

\* A frame that has neither an allocation nor a candidate.
LEMMA QuietIsOK ==
    ASSUME NEW f, f.pc \notin {"allocate", "observe", "stage", "close"}
    PROVE  FrameOK(f) /\ ~Allocated(f) /\ \A g \in Nat : ~Owns(f, g)
BY DEF FrameOK, Allocated, Owns

LEMMA FailsIsFrame ==
    ASSUME NEW f, IsFrame(f)
    PROVE  /\ IsFrame(Fails(f)) /\ Fails(f).pc = "idle"
           /\ \/ Fails(f).path = f.path /\ Fails(f).epoch = f.epoch
              \/ Fails(f).path = Dark /\ Fails(f).epoch = 0
BY FreshIsFrame, DarkIsPath DEF Fails, IsFrame, FrameFields

LEMMA ReturnsIsFrame ==
    ASSUME NEW f, IsFrame(f)
    PROVE  /\ IsFrame(Returns(f)) /\ Returns(f).pc = "idle"
           /\ Returns(f).path = f.path /\ Returns(f).epoch = f.epoch
BY DarkIsPath DEF Returns, IsFrame, FrameFields

\* Placing the Lenses changes nothing but their places.
LEMMA PlacedKeepsTheRest ==
    ASSUME NEW path, IsPath(path), NEW order
    PROVE  /\ IsPath(Placed(path, order))
           /\ \A l \in Lenses : Placed(path, order)[l].gen = path[l].gen
BY DEF IsPath, Placed
-----------------------------------------------------------------------------
(* Most steps give nothing new to a daemon: it shows the path it showed, or *)
(* is dark, and owns no more than before.                                  *)

Narrows(f, g) ==
    /\ IsFrame(g) /\ FrameOK(g)
    /\ Allocated(g) => Allocated(f) /\ g.newEpoch = f.newEpoch
    /\ \A n \in Nat : Owns(g, n) => Owns(f, n)
    /\ \/ g.epoch = f.epoch /\ g.path = f.path
       \/ g.epoch = 0 /\ g.path = Dark

NarrowStep(d) ==
    /\ Becomes(d, mem'[d])
    /\ Narrows(mem[d], mem'[d])
    /\ UNCHANGED <<allocator, shown>>
    /\ faults' \in Nat /\ refusals' \in Nat

LEMMA QuietNarrows ==
    ASSUME NEW f, NEW g, IsFrame(g), g.pc \notin {"allocate", "observe", "stage", "close"},
           \/ g.epoch = f.epoch /\ g.path = f.path
           \/ g.epoch = 0 /\ g.path = Dark
    PROVE  Narrows(f, g)
BY QuietIsOK DEF Narrows

LEMMA FailsNarrows ==
    ASSUME NEW f, IsFrame(f)
    PROVE  Narrows(f, Fails(f))
BY FailsIsFrame, QuietNarrows

LEMMA BecomesNarrows ==
    ASSUME Typed, NEW d \in Daemons, NEW g, Becomes(d, g), Narrows(mem[d], g),
           UNCHANGED <<allocator, shown>>, faults' \in Nat, refusals' \in Nat
    PROVE  NarrowStep(d)
BY DEF Typed, Becomes, NarrowStep

LEMMA AppendsNarrows ==
    ASSUME Typed, NEW d \in Daemons, NEW photon, NEW g, Appends(d, photon, g),
           Narrows(mem[d], g), UNCHANGED <<allocator, shown, refusals>>
    PROVE  NarrowStep(d)
<1>1. CASE Becomes(d, g) /\ UNCHANGED faults
  BY <1>1, BecomesNarrows DEF Typed
<1>2. CASE faults' = faults + 1 /\ Becomes(d, Fails(mem[d]))
  <2>1. Narrows(mem[d], Fails(mem[d])) /\ faults' \in Nat /\ refusals' \in Nat
    BY <1>2, FailsNarrows DEF Typed
  <2> QED
    BY <1>2, <2>1, BecomesNarrows
<1> QED
  BY <1>1, <1>2 DEF Appends

LEMMA LoadNarrows ==
    ASSUME MountInv, NEW d \in Daemons, Load(d)
    PROVE  NarrowStep(d)
<1>1. IsFrame(mem[d]) /\ faults \in Nat /\ refusals \in Nat
  BY DEF MountInv, Typed
<1> DEFINE kept == {l \in Lenses : /\ config[l] # Off
                                   /\ mem[d].path[l].artifact = ArtifactHash(l)}
           todo == {l \in Lenses : config[l] # Off} \ kept
           newPath == [l \in Lenses |-> IF l \in kept THEN mem[d].path[l] ELSE Dark[l]]
           target == [l \in Lenses |-> ArtifactHash(l)]
           g == [mem[d] EXCEPT !.pc = "allocate", !.target = target, !.newPath = newPath,
                               !.todo = todo]
<1>2. Becomes(d, g) /\ UNCHANGED <<allocator, shown, faults, refusals>>
  BY DEF Load, counters
<1>3. IsPath(newPath) /\ \A l \in Lenses : newPath[l].gen \in {0, mem[d].path[l].gen}
  BY <1>1, DarkIsPath DEF IsFrame, IsPath
<1>4. todo \subseteq Lenses
  OBVIOUS
<1> HIDE DEF newPath, todo, target
<1>5. Narrows(mem[d], g)
  <2>1. IsFrame(g) /\ g.pc = "allocate" /\ g.newPath = newPath
        /\ g.path = mem[d].path /\ g.epoch = mem[d].epoch
    BY <1>1, <1>3, <1>4 DEF IsFrame, FrameFields
  <2> HIDE DEF g
  <2>2. FrameOK(g) /\ ~Allocated(g) /\ \A n \in Nat : ~Owns(g, n)
    BY <1>3, <2>1 DEF FrameOK, Allocated, Owns, Staged
  <2> QED
    BY <2>1, <2>2 DEF Narrows
<1> QED
  BY <1>1, <1>2, <1>5, BecomesNarrows DEF MountInv

LEMMA ObserveNarrows ==
    ASSUME MountInv, NEW d \in Daemons, Observe(d)
    PROVE  NarrowStep(d)
<1>1. IsFrame(mem[d]) /\ FrameOK(mem[d]) /\ mem[d].pc = "observe" /\ Typed
  BY DEF MountInv, Typed, Observe, At
<1> DEFINE g == [mem[d] EXCEPT !.pc = "stage"]
<1>2. Narrows(mem[d], g)
  BY <1>1 DEF Narrows, IsFrame, FrameFields, FrameOK, Allocated, Owns, Staged
<1> QED
  BY <1>1, <1>2, AppendsNarrows DEF Observe

LEMMA StageNarrows ==
    ASSUME MountInv, NEW d \in Daemons, Stage(d)
    PROVE  NarrowStep(d)
<1> DEFINE f == mem[d]
<1>1. IsFrame(f) /\ FrameOK(f) /\ f.pc = "stage" /\ Typed
  BY DEF MountInv, Typed, Stage, At
<1>2. PICK l \in f.todo : \E content \in {c \in Contents(f, l) : Stageable(f, l, c)} :
            Appends(d, Photon("lens.candidate-verified", f.newEpoch, <<l, f.next>>, 0),
                    [f EXCEPT !.todo = @ \ {l}, !.next = @ + 1,
                        !.newPath[l] = [gen |-> f.next, artifact |-> f.target[l],
                                        content |-> content, place |-> 0]])
  BY DEF Stage
<1>3. PICK content : Appends(d, Photon("lens.candidate-verified", f.newEpoch, <<l, f.next>>, 0),
                    [f EXCEPT !.todo = @ \ {l}, !.next = @ + 1,
                        !.newPath[l] = [gen |-> f.next, artifact |-> f.target[l],
                                        content |-> content, place |-> 0]])
  BY <1>2
<1> DEFINE mount == [gen |-> f.next, artifact |-> f.target[l], content |-> content, place |-> 0]
           g == [f EXCEPT !.todo = @ \ {l}, !.next = @ + 1, !.newPath[l] = mount]
<1>4. /\ DOMAIN g = FrameFields
      /\ g.pc = "stage" /\ g.todo = f.todo \ {l} /\ g.next = f.next + 1
      /\ g.newPath = [f.newPath EXCEPT ![l] = mount]
      /\ g.newEpoch = f.newEpoch /\ g.epoch = f.epoch /\ g.path = f.path
      /\ g.opened = f.opened
  BY <1>1 DEF IsFrame, FrameFields
<1>5. DOMAIN mount = {"gen", "artifact", "content", "place"} /\ mount.gen = f.next
  OBVIOUS
<1>6. /\ g.newPath[l].gen = f.next
      /\ \A k \in Lenses \ {l} : g.newPath[k] = f.newPath[k]
      /\ l \in Lenses
  BY <1>1, <1>2, <1>4, <1>5 DEF IsFrame, IsPath
<1>7. IsPath(g.newPath)
  BY <1>1, <1>4, <1>5, <1>6 DEF IsFrame, IsPath
<1> HIDE DEF g, mount
<1>8. IsFrame(g)
  BY <1>1, <1>4, <1>7 DEF IsFrame
<1>9. \A k \in Lenses \ {l} : Staged(g, k) <=> Staged(f, k)
  BY <1>4, <1>6 DEF Staged
<1>10. FrameOK(g)
  BY <1>1, <1>4, <1>6, <1>8, <1>9 DEF FrameOK, IsFrame, IsPath, Allocated
<1>11. /\ Cardinality(f.todo) \in Nat
       /\ Cardinality(g.todo) = Cardinality(f.todo) - 1 /\ Cardinality(f.todo) > 0
  <2>1. IsFiniteSet(f.todo)
    BY <1>1, MountAssumption, FS_Subset DEF IsFrame
  <2> HIDE DEF f, g
  <2>2. Cardinality(f.todo) \in Nat /\ Cardinality(f.todo) # 0
    BY <1>2, <2>1, FS_EmptySet, FS_CardinalityType
  <2>3. Cardinality(f.todo \ {l}) = Cardinality(f.todo) - 1
    BY <1>2, <2>1, FS_RemoveElement
  <2> QED
    BY <1>4, <2>2, <2>3
<1>12. \A n \in Nat : Owns(g, n) => Owns(f, n)
  <2> SUFFICES ASSUME NEW n \in Nat, Owns(g, n) PROVE Owns(f, n)
    OBVIOUS
  <2>1. f.next \in Nat /\ Allocated(f)
    BY <1>1 DEF IsFrame, Allocated
  <2>2. CASE g.next <= n /\ n < g.next + Cardinality(g.todo)
    BY <1>4, <1>11, <2>1, <2>2 DEF Owns
  <2>3. CASE \E k \in Lenses : Staged(g, k) /\ g.newPath[k].gen = n
    BY <1>6, <1>9, <1>11, <2>1, <2>3 DEF Owns
  <2> QED
    BY <2>2, <2>3 DEF Owns
<1>13. Narrows(f, g)
  BY <1>1, <1>4, <1>8, <1>10, <1>12 DEF Narrows, Allocated
<1> QED
  BY <1>1, <1>3, <1>13, AppendsNarrows DEF Stage, g, mount

LEMMA RefusalsNarrow ==
    ASSUME MountInv, NEW d \in Daemons, Refuse(d) \/ RefuseInTheDark(d) \/ RefuseOther(d)
    PROVE  NarrowStep(d)
<1>1. Typed /\ IsFrame(mem[d]) /\ Narrows(mem[d], Fails(mem[d]))
  BY FailsNarrows DEF MountInv, Typed
<1>2. CASE Refuse(d)
  BY <1>1, <1>2, AppendsNarrows DEF Refuse, Rejects
<1>3. CASE RefuseInTheDark(d) \/ RefuseOther(d)
  <2>1. /\ Becomes(d, Fails(mem[d])) /\ UNCHANGED <<allocator, shown, faults>>
        /\ refusals' = refusals \/ refusals' = refusals + 1
    BY <1>3 DEF RefuseInTheDark, RefuseOther, counters
  <2>2. faults' \in Nat /\ refusals' \in Nat
    BY <1>1, <2>1 DEF Typed
  <2> QED
    BY <1>1, <2>1, <2>2, BecomesNarrows
<1> QED
  BY <1>2, <1>3

LEMMA CommitNarrows ==
    ASSUME MountInv, NEW d \in Daemons, Commit(d)
    PROVE  NarrowStep(d)
<1> DEFINE f == mem[d]
<1>1. IsFrame(f) /\ FrameOK(f) /\ f.pc = "stage" /\ Typed
  BY DEF MountInv, Typed, Commit, At
<1>2. PICK order :
        Appends(d, Photon("mount.epoch-committed", f.newEpoch, None, 0),
                [f EXCEPT !.pc = "close", !.newPath = Placed(f.newPath, order),
                          !.retired = Mounts(f.path) \ Mounts(Placed(f.newPath, order))])
  BY DEF Commit
<1> DEFINE placed == Placed(f.newPath, order)
           retired == Mounts(f.path) \ Mounts(placed)
           g == [f EXCEPT !.pc = "close", !.newPath = placed, !.retired = retired]
<1>3. IsPath(placed) /\ \A l \in Lenses : placed[l].gen = f.newPath[l].gen
  BY <1>1, PlacedKeepsTheRest DEF IsFrame
<1> HIDE DEF placed, retired
<1>4. /\ IsFrame(g)
      /\ g.pc = "close" /\ g.todo = f.todo /\ g.next = f.next /\ g.newPath = placed
      /\ g.newEpoch = f.newEpoch /\ g.epoch = f.epoch /\ g.path = f.path
  BY <1>1, <1>3 DEF IsFrame, FrameFields
<1> HIDE DEF g
<1>5. Narrows(f, g)
  BY <1>1, <1>3, <1>4 DEF Narrows, FrameOK, Allocated, Owns, Staged
<1> QED
  BY <1>1, <1>2, <1>5, AppendsNarrows DEF Commit, g, placed, retired

LEMMA CloseNarrows ==
    ASSUME MountInv, NEW d \in Daemons, Close(d)
    PROVE  NarrowStep(d)
<1> DEFINE f == mem[d]
<1>1. IsFrame(f) /\ FrameOK(f) /\ f.pc = "close" /\ Typed
  BY DEF MountInv, Typed, Close, At
<1>2. PICK m : Becomes(d, [f EXCEPT !.closed = @ \cup {m}])
  BY DEF Close
<1> DEFINE g == [f EXCEPT !.closed = @ \cup {m}]
<1>3. Narrows(f, g)
  BY <1>1 DEF Narrows, IsFrame, FrameFields, FrameOK, Allocated, Owns, Staged
<1> QED
  BY <1>1, <1>2, <1>3, BecomesNarrows DEF Close, counters, Typed

LEMMA AfterglowNarrows ==
    ASSUME MountInv, NEW d \in Daemons,
           Afterglow(d) \/ Drain(d) \/ Complete(d) \/ Finish(d) \/ Crash(d)
    PROVE  NarrowStep(d)
<1> DEFINE f == mem[d]
<1>1. IsFrame(f) /\ Typed
  BY DEF MountInv, Typed
<1>3. CASE Afterglow(d)
  <2>1. PICK m : Appends(d, Photon("lens.afterglow-started", f.newEpoch, m, 0),
                         [f EXCEPT !.pc = "drain", !.glow = m])
    BY <1>3 DEF Afterglow
  <2> DEFINE g == [f EXCEPT !.pc = "drain", !.glow = m]
  <2>2. Narrows(f, g)
    <3>1. IsFrame(g) /\ g.pc \in {"afterglow", "drain", "dim"} /\ g.epoch = f.epoch /\ g.path = f.path
      BY <1>1 DEF IsFrame, FrameFields
    <3> HIDE DEF g
    <3> QED
      BY <3>1, QuietNarrows
  <2> QED
    BY <1>1, <1>3, <2>1, <2>2, AppendsNarrows DEF Afterglow
<1>4. CASE Drain(d)
  <2> DEFINE g == [f EXCEPT !.pc = "dim", !.stopped = @ \cup {f.glow}]
  <2>2. Narrows(f, g)
    <3>1. IsFrame(g) /\ g.pc \in {"afterglow", "drain", "dim"} /\ g.epoch = f.epoch /\ g.path = f.path
      BY <1>1 DEF IsFrame, FrameFields
    <3> HIDE DEF g
    <3> QED
      BY <3>1, QuietNarrows
  <2> QED
    BY <1>1, <1>4, <2>2, BecomesNarrows DEF Drain, counters, Typed
<1>5. CASE Complete(d)
  <2> DEFINE g == [f EXCEPT !.pc = "afterglow", !.glow = None, !.retired = @ \ {f.glow}]
  <2>2. Narrows(f, g)
    <3>1. IsFrame(g) /\ g.pc \in {"afterglow", "drain", "dim"} /\ g.epoch = f.epoch /\ g.path = f.path
      BY <1>1 DEF IsFrame, FrameFields
    <3> HIDE DEF g
    <3> QED
      BY <3>1, QuietNarrows
  <2> QED
    BY <1>1, <1>5, <2>2, AppendsNarrows DEF Complete
<1>6. CASE Finish(d)
  <2>1. Narrows(f, Returns(f))
    BY <1>1, ReturnsIsFrame, QuietNarrows
  <2>2. CASE Becomes(d, Returns(f)) /\ UNCHANGED faults
    BY <1>1, <1>6, <2>1, <2>2, BecomesNarrows DEF Finish, Typed
  <2>3. CASE Appends(d, Photon("system.started", f.epoch, None, 0), Returns(f))
    BY <1>1, <1>6, <2>1, <2>3, AppendsNarrows DEF Finish
  <2> QED
    BY <1>6, <2>2, <2>3 DEF Finish
<1>7. CASE Crash(d)
  <2>1. Narrows(f, Fresh)
    BY FreshIsFrame, QuietNarrows
  <2> QED
    BY <1>1, <1>7, <2>1, BecomesNarrows DEF Crash, Typed
<1> QED
  BY <1>3, <1>4, <1>5, <1>6, <1>7
-----------------------------------------------------------------------------
(* The identities are kept apart *)

LEMMA MountInit == Init => MountInv
<1> SUFFICES ASSUME Init PROVE MountInv
  OBVIOUS
<1>1. Typed /\ \A d \in Daemons : mem[d] = Fresh
  BY FreshIsFrame DEF Init, Typed
<1>2. Fresh.pc = "idle" /\ Fresh.epoch = 0 /\ \A l \in Lenses : Fresh.path[l].gen = 0
  BY FreshIsFrame, DarkIsPath
<1>3. \A d \in Daemons : FrameOK(mem[d]) /\ ~Allocated(mem[d]) /\ \A g \in Nat : ~Owns(mem[d], g)
  BY <1>1, <1>2, QuietIsOK
<1> QED
  BY <1>1, <1>2, <1>3 DEF Init, MountInv, Below, Unshown, Apart

LEMMA NarrowKeeps ==
    ASSUME MountInv, NEW d \in Daemons, NarrowStep(d)
    PROVE  MountInv'
<1>1. /\ \A e \in Daemons \ {d} : mem'[e] = mem[e]
      /\ Narrows(mem[d], mem'[d])
      /\ allocator' = allocator /\ shown' = shown
      /\ DOMAIN mem' = Daemons
  BY DEF MountInv, Typed, NarrowStep, Becomes
<1>2. \A e \in Daemons :
        /\ IsFrame(mem'[e]) /\ FrameOK(mem'[e])
        /\ Allocated(mem'[e]) => Allocated(mem[e]) /\ mem'[e].newEpoch = mem[e].newEpoch
        /\ \A n \in Nat : Owns(mem'[e], n) => Owns(mem[e], n)
        /\ \/ mem'[e].epoch = mem[e].epoch /\ mem'[e].path = mem[e].path
           \/ mem'[e].epoch = 0 /\ mem'[e].path = Dark
  BY <1>1 DEF MountInv, Typed, Narrows
<1>3. \A n : IsShown(n)' <=> IsShown(n)
  BY <1>1 DEF IsShown
<1>4. Typed'
  BY <1>1, <1>2 DEF MountInv, Typed, NarrowStep
<1>5. Below'
  <2>1. /\ \A s \in shown : /\ s.epoch \in Nat /\ s.epoch <= allocator.epoch
                             /\ \A l \in Lenses : s.path[l].gen \in Nat
                                                  /\ s.path[l].gen <= allocator.gen
    BY DEF MountInv, Below
  <2>2. ASSUME NEW e \in Daemons
        PROVE /\ mem'[e].epoch <= allocator.epoch
              /\ \A l \in Lenses : mem'[e].path[l].gen # 0 => IsShown(mem'[e].path[l].gen)
              /\ Allocated(mem'[e]) => mem'[e].newEpoch <= allocator.epoch
              /\ \A g \in Nat : Owns(mem'[e], g) => g <= allocator.gen
    BY <1>2, DarkIsPath DEF MountInv, Typed, Below
  <2> QED
    BY <1>1, <1>3, <2>1, <2>2 DEF Below
<1>6. Unshown'
  BY <1>1, <1>2, <1>3 DEF MountInv, Unshown
<1>7. Apart'
  BY <1>2 DEF MountInv, Apart
<1> QED
  BY <1>2, <1>4, <1>5, <1>6, <1>7 DEF MountInv

\* An allocation is new, and more than one daemon has.
LEMMA AllocateKeeps ==
    ASSUME MountInv, NEW d \in Daemons, Allocate(d)
    PROVE  MountInv'
<1> DEFINE f == mem[d]
           g == [f EXCEPT !.pc = "observe", !.newEpoch = allocator.epoch + 1,
                          !.next = allocator.gen + 1]
<1>1. IsFrame(f) /\ FrameOK(f) /\ f.pc = "allocate" /\ Typed /\ Below /\ Unshown /\ Apart
  BY DEF MountInv, Typed, Allocate, At
<1>2. CASE Becomes(d, Fails(f)) /\ faults' = faults + 1 /\ UNCHANGED allocator
  <2>1. Narrows(f, Fails(f)) /\ faults' \in Nat /\ refusals' \in Nat /\ UNCHANGED <<allocator, shown>>
    BY <1>1, <1>2, FailsNarrows DEF Typed, Allocate
  <2> QED
    BY <1>1, <1>2, <2>1, BecomesNarrows, NarrowKeeps
<1>3. CASE /\ allocator' = [epoch |-> allocator.epoch + 1,
                           gen |-> allocator.gen + Cardinality(f.todo)]
           /\ Becomes(d, g)
           /\ UNCHANGED faults
  <2>1. Cardinality(f.todo) \in Nat
    BY <1>1, MountAssumption, FS_Subset, FS_CardinalityType DEF IsFrame
  <2>2. /\ IsFrame(g) /\ g.pc = "observe" /\ g.todo = f.todo /\ g.next = allocator.gen + 1
        /\ g.newPath = f.newPath /\ g.newEpoch = allocator.epoch + 1
        /\ g.epoch = f.epoch /\ g.path = f.path
    BY <1>1 DEF IsFrame, FrameFields, Typed
  <2> HIDE DEF g
  <2>3. /\ \A e \in Daemons \ {d} : mem'[e] = mem[e]
        /\ mem'[d] = g
        /\ DOMAIN mem' = Daemons
        /\ allocator'.epoch = allocator.epoch + 1
        /\ allocator'.gen = allocator.gen + Cardinality(f.todo)
        /\ shown' = shown
        /\ faults' = faults /\ refusals' = refusals
    BY <1>1, <1>3 DEF Typed, Becomes, Allocate
  <2>4. /\ allocator.epoch \in Nat /\ allocator.gen \in Nat
        /\ f.epoch <= allocator.epoch
    BY <1>1 DEF Typed, Below
  <2>5. FrameOK(g)
    BY <1>1, <2>2, <2>4 DEF FrameOK, Staged, IsFrame
  <2>6. \A n \in Nat : Owns(g, n) => allocator.gen < n /\ n <= allocator'.gen
    BY <1>1, <2>1, <2>2, <2>3, <2>4 DEF Owns, FrameOK, Staged
  <2>7. \A n : IsShown(n)' <=> IsShown(n)
    BY <2>3 DEF IsShown
  <2>8. \A n \in Nat : IsShown(n) => n <= allocator.gen
    BY <1>1 DEF Below, IsShown
  <2>9. Typed'
    BY <1>1, <1>3, <2>1, <2>2, <2>3, <2>4 DEF Typed
  <2>10. \A e \in Daemons : FrameOK(mem'[e])
    BY <2>3, <2>5 DEF MountInv
  <2>11. Below'
    <3>1. ASSUME NEW e \in Daemons
          PROVE  /\ mem'[e].epoch <= allocator'.epoch
                 /\ \A l \in Lenses : mem'[e].path[l].gen # 0 => IsShown(mem'[e].path[l].gen)
                 /\ Allocated(mem'[e]) => mem'[e].newEpoch <= allocator'.epoch
                 /\ \A n \in Nat : Owns(mem'[e], n) => n <= allocator'.gen
      <4>1. CASE e = d
        BY <1>1, <2>2, <2>3, <2>4, <2>6, <4>1 DEF Below, IsFrame
      <4>2. CASE e # d
        <5>1. /\ mem[e].epoch \in Nat /\ mem[e].newEpoch \in Nat /\ mem'[e] = mem[e]
              /\ mem[e].epoch <= allocator.epoch
              /\ \A l \in Lenses : mem[e].path[l].gen # 0 => IsShown(mem[e].path[l].gen)
              /\ Allocated(mem[e]) => mem[e].newEpoch <= allocator.epoch
              /\ \A n \in Nat : Owns(mem[e], n) => n <= allocator.gen
          BY <1>1, <2>3, <4>2 DEF Below, Typed, IsFrame
        <5> QED
          BY <2>1, <2>3, <2>4, <5>1
      <4> QED
        BY <4>1, <4>2
    <3>2. \A s \in shown : /\ s.epoch \in Nat /\ s.epoch <= allocator'.epoch
                           /\ \A l \in Lenses : s.path[l].gen \in Nat
                                                /\ s.path[l].gen <= allocator'.gen
      BY <1>1, <2>1, <2>3, <2>4 DEF Below
    <3> QED
      BY <2>3, <2>7, <3>1, <3>2 DEF Below
  <2>12. Unshown'
    <3>1. \A s \in shown : s.epoch # g.newEpoch
      BY <1>1, <2>2, <2>4 DEF Below
    <3>2. \A n \in Nat : Owns(g, n) => ~IsShown(n)
      BY <2>4, <2>6, <2>8
    <3> QED
      BY <1>1, <2>3, <2>7, <3>1, <3>2 DEF Unshown
  <2>13. Apart'
    <3>1. \A e \in Daemons \ {d} :
             /\ Allocated(mem[e]) => mem[e].newEpoch # g.newEpoch
             /\ \A n \in Nat : ~(Owns(g, n) /\ Owns(mem[e], n))
      BY <1>1, <2>2, <2>4, <2>6 DEF Below, Typed, IsFrame
    <3> QED
      BY <1>1, <2>3, <3>1 DEF Apart
  <2> QED
    BY <2>9, <2>10, <2>11, <2>12, <2>13 DEF MountInv, Typed
<1> QED
  BY <1>2, <1>3 DEF Allocate
(* LightPath::publish never refuses a candidate for its epoch.  What it     *)
(* shows was shown before or belongs to its daemon.                        *)
LEMMA PublishShows ==
    ASSUME MountInv, NEW d \in Daemons, Publish(d)
    PROVE  /\ mem[d].newEpoch > mem[d].epoch
           /\ \A s \in shown : s.epoch # mem[d].newEpoch
           /\ Becomes(d, mem'[d])
           /\ mem'[d].path = mem[d].newPath /\ mem'[d].epoch = mem[d].newEpoch
           /\ mem'[d].pc = "afterglow" /\ IsFrame(mem'[d])
           /\ mem[d].retired \subseteq mem[d].closed /\ mem'[d].retired = mem[d].retired
           /\ mem'[d].closed = mem[d].closed /\ mem'[d].stopped = mem[d].stopped
           /\ mem'[d].opened = mem[d].opened
           /\ shown' = shown \cup {[epoch |-> mem[d].newEpoch, path |-> mem[d].newPath]}
           /\ UNCHANGED <<allocator, beam, faults, refusals>>
           /\ \A l \in Lenses :
                \/ mem[d].newPath[l].gen \in {0, mem[d].path[l].gen}
                \/ Staged(mem[d], l) /\ Owns(mem[d], mem[d].newPath[l].gen)
<1> DEFINE f == mem[d]
           g == [f EXCEPT !.pc = "afterglow", !.epoch = f.newEpoch, !.path = f.newPath,
                          !.recorded = f.target]
<1>1. IsFrame(f) /\ FrameOK(f) /\ f.pc = "close" /\ Typed /\ Unshown
  BY DEF MountInv, Typed, Publish, At
<1>2. Allocated(f) /\ f.newEpoch > f.epoch
  BY <1>1 DEF FrameOK, Allocated
<1>3. /\ Becomes(d, g)
      /\ shown' = shown \cup {[epoch |-> f.newEpoch, path |-> f.newPath]}
      /\ UNCHANGED <<allocator, beam, faults, refusals>>
      /\ f.retired \subseteq f.closed
  BY <1>2 DEF Publish, counters
<1>4. /\ g.path = f.newPath /\ g.epoch = f.newEpoch /\ g.pc = "afterglow" /\ IsFrame(g)
      /\ g.retired = f.retired /\ g.closed = f.closed /\ g.stopped = f.stopped
      /\ g.opened = f.opened
  BY <1>1 DEF IsFrame, FrameFields
<1> HIDE DEF g
<1>5. mem'[d] = g
  BY <1>1, <1>3 DEF Typed, Becomes
<1> QED
  BY <1>1, <1>2, <1>3, <1>4, <1>5 DEF Unshown, Staged, Owns

LEMMA PublishKeeps ==
    ASSUME MountInv, NEW d \in Daemons, Publish(d)
    PROVE  MountInv'
<1> DEFINE f == mem[d]
           new == [epoch |-> f.newEpoch, path |-> f.newPath]
<1>1. IsFrame(f) /\ FrameOK(f) /\ Allocated(f) /\ Typed /\ Below /\ Unshown /\ Apart
  BY DEF MountInv, Typed, Publish, At, Allocated
<1>2. /\ \A e \in Daemons \ {d} : mem'[e] = mem[e]
      /\ mem'[d].path = f.newPath /\ mem'[d].epoch = f.newEpoch
      /\ mem'[d].pc = "afterglow" /\ IsFrame(mem'[d])
      /\ shown' = shown \cup {new}
      /\ allocator' = allocator /\ faults' = faults /\ refusals' = refusals
      /\ DOMAIN mem' = Daemons
  BY <1>1, PublishShows DEF Typed, Becomes
<1>3. FrameOK(mem'[d]) /\ ~Allocated(mem'[d]) /\ \A n \in Nat : ~Owns(mem'[d], n)
  BY <1>2, QuietIsOK
<1>4. /\ f.newEpoch \in Nat /\ f.newEpoch <= allocator.epoch
      /\ \A l \in Lenses : f.newPath[l].gen \in Nat /\ f.newPath[l].gen <= allocator.gen
  <2>1. ASSUME NEW l \in Lenses PROVE f.newPath[l].gen \in Nat /\ f.newPath[l].gen <= allocator.gen
    <3>1. f.newPath[l].gen \in Nat /\ f.path[l].gen \in Nat /\ allocator.gen \in Nat
      BY <1>1 DEF IsFrame, IsPath, Typed
    <3>2. f.path[l].gen # 0 => f.path[l].gen <= allocator.gen
      BY <1>1 DEF Below, IsShown
    <3>3. Owns(f, f.newPath[l].gen) => f.newPath[l].gen <= allocator.gen
      BY <1>1, <3>1 DEF Below
    <3> QED
      BY <3>1, <3>2, <3>3, PublishShows
  <2> QED
    BY <1>1, <2>1 DEF Below, IsFrame
<1>5. new.epoch = f.newEpoch /\ new.path = f.newPath
  OBVIOUS
<1> HIDE DEF new
<1>6. \A n : IsShown(n)' <=> IsShown(n) \/ \E l \in Lenses : f.newPath[l].gen = n
  BY <1>2, <1>5 DEF IsShown
<1>7. \A e \in Daemons \ {d} : \A n \in Nat : Owns(mem[e], n) => ~IsShown(n)'
  <2> SUFFICES ASSUME NEW e \in Daemons \ {d}, NEW n \in Nat, Owns(mem[e], n),
                      NEW l \in Lenses, f.newPath[l].gen = n
               PROVE  FALSE
    BY <1>1, <1>6 DEF Unshown
  <2>1. n # 0
    <3>1. mem[e].next \in Nat /\ FrameOK(mem[e]) /\ Allocated(mem[e])
      BY DEF MountInv, Typed, IsFrame, Owns
    <3> QED
      BY <3>1 DEF FrameOK, Owns, Staged
  <2>2. ~Owns(f, n)
    BY <1>1 DEF Apart
  <2>3. f.path[l].gen = n
    BY <2>1, <2>2, PublishShows
  <2>4. IsShown(n)
    BY <1>1, <2>1, <2>3 DEF Below
  <2> QED
    BY <1>1, <2>4 DEF Unshown
<1>8. Typed'
  BY <1>1, <1>2 DEF Typed
<1>9. \A e \in Daemons : FrameOK(mem'[e])
  BY <1>2, <1>3 DEF MountInv
<1>10. Below'
  <2>1. \A s \in shown' : /\ s.epoch \in Nat /\ s.epoch <= allocator.epoch
                          /\ \A l \in Lenses : s.path[l].gen \in Nat
                                               /\ s.path[l].gen <= allocator.gen
    BY <1>1, <1>2, <1>4, <1>5 DEF Below
  <2>2. ASSUME NEW e \in Daemons
        PROVE  /\ mem'[e].epoch <= allocator.epoch
               /\ \A l \in Lenses : mem'[e].path[l].gen # 0 => IsShown(mem[e].path[l].gen)'
               /\ Allocated(mem'[e]) => mem'[e].newEpoch <= allocator.epoch
               /\ \A n \in Nat : Owns(mem'[e], n) => n <= allocator.gen
    <3>1. CASE e = d
      <4>1. \A l \in Lenses : IsShown(mem[d].path[l].gen)'
        BY <1>2, <1>6
      <4> QED
        BY <1>2, <1>3, <1>4, <3>1, <4>1
    <3>2. CASE e # d
      <4>1. mem'[e] = mem[e]
        BY <1>2, <3>2
      <4>2. /\ mem[e].epoch <= allocator.epoch
            /\ \A l \in Lenses : mem[e].path[l].gen # 0 => IsShown(mem[e].path[l].gen)
            /\ Allocated(mem[e]) => mem[e].newEpoch <= allocator.epoch
            /\ \A n \in Nat : Owns(mem[e], n) => n <= allocator.gen
        BY <1>1 DEF Below
      <4> QED
        BY <1>6, <4>1, <4>2
    <3> QED
      BY <3>1, <3>2
  <2> QED
    BY <1>2, <2>1, <2>2 DEF Below
<1>11. Unshown'
  <2>1. ASSUME NEW e \in Daemons \ {d}, Allocated(mem[e]), NEW s \in shown'
        PROVE  s.epoch # mem[e].newEpoch
    <3>1. CASE s \in shown
      BY <1>1, <2>1, <3>1 DEF Unshown
    <3>2. CASE s = new
      BY <1>1, <1>5, <2>1, <3>2 DEF Apart
    <3> QED
      BY <1>2, <3>1, <3>2
  <2> QED
    BY <1>2, <1>3, <1>7, <2>1 DEF Unshown
<1>12. Apart'
  BY <1>1, <1>2, <1>3 DEF Apart
<1> QED
  BY <1>8, <1>9, <1>10, <1>11, <1>12 DEF MountInv

LEMMA MountKept == MountInv /\ [Next]_vars => MountInv'
<1> SUFFICES ASSUME MountInv, [Next]_vars PROVE MountInv'
  OBVIOUS
<1>1. ASSUME NEW d \in Daemons, Load(d) \/ Reconcile(d) \/ Crash(d)
      PROVE  MountInv'
  <2>1. Allocate(d) \/ Publish(d) \/ NarrowStep(d)
    BY <1>1, LoadNarrows, ObserveNarrows, StageNarrows, RefusalsNarrow, CommitNarrows,
       CloseNarrows, AfterglowNarrows DEF Reconcile
  <2> QED
    BY <2>1, AllocateKeeps, PublishKeeps, NarrowKeeps
<1>2. CASE UNCHANGED <<mem, allocator, shown, faults, refusals>>
  BY <1>2 DEF MountInv, Typed, Below, Unshown, Apart, IsShown
<1>3. \A l \in Lenses, a \in Artifacts \cup {Off} :
         Edit(l, a) => UNCHANGED <<mem, allocator, shown, faults, refusals>>
  BY DEF Edit
<1>4. \A c \in Callers :
         Aim(c) \/ Acquire(c) \/ Release(c) => UNCHANGED <<mem, allocator, shown, faults, refusals>>
  BY DEF Aim, Acquire, Release, counters
<1> QED
  BY <1>1, <1>2, <1>3, <1>4 DEF Next, vars, counters
-----------------------------------------------------------------------------
(* The refinement of AtomicMount *)

Shows(f) == [epoch |-> f.epoch, gen |-> [l \in Lenses |-> f.path[l].gen]]

Mounted == [d \in Daemons |-> Shows(mem[d])]
History == {Shows(s) : s \in shown}

LEMMA FreshIsDark == Shows(Fresh) = Atomic!Dark
BY FreshIsFrame, DarkIsPath DEF Shows, Atomic!Dark

\* A step that gives a daemon nothing new is none, or the daemon lost its path.
LEMMA NarrowIsAtomic ==
    ASSUME MountInv, NEW d \in Daemons, NarrowStep(d)
    PROVE  [Atomic!Next]_<<Mounted, History>>
<1>1. /\ \A e \in Daemons \ {d} : mem'[e] = mem[e]
      /\ Narrows(mem[d], mem'[d]) /\ shown' = shown
  BY DEF MountInv, Typed, NarrowStep, Becomes
<1>2. History' = History
  BY <1>1 DEF History
<1>3. CASE mem'[d].epoch = mem[d].epoch /\ mem'[d].path = mem[d].path
  <2>1. \A e \in Daemons : Shows(mem[e])' = Shows(mem[e])
    BY <1>1, <1>3 DEF Shows
  <2> QED
    BY <1>2, <2>1 DEF Mounted
<1>4. CASE mem'[d].epoch = 0 /\ mem'[d].path = Dark
  <2>1. Shows(mem[d])' = Atomic!Dark
    BY <1>4, DarkIsPath DEF Shows, Atomic!Dark
  <2>2. \A e \in Daemons \ {d} : Shows(mem[e])' = Shows(mem[e])
    BY <1>1 DEF Shows
  <2>3. Mounted' = [Mounted EXCEPT ![d] = Atomic!Dark]
    BY <2>1, <2>2 DEF Mounted
  <2>4. Atomic!Lose(d)
    BY <1>2, <2>3 DEF Atomic!Lose, Mounted, History, Shows
  <2> QED
    BY <2>4 DEF Atomic!Next
<1> QED
  BY <1>1, <1>3, <1>4 DEF Narrows

LEMMA AllocateIsAtomic ==
    ASSUME MountInv, NEW d \in Daemons, Allocate(d)
    PROVE  [Atomic!Next]_<<Mounted, History>>
<1>1. IsFrame(mem[d]) /\ Typed
  BY DEF MountInv, Typed
<1>2. CASE Becomes(d, Fails(mem[d])) /\ faults' = faults + 1 /\ UNCHANGED allocator
  <2>1. Narrows(mem[d], Fails(mem[d])) /\ faults' \in Nat /\ refusals' \in Nat
        /\ UNCHANGED <<allocator, shown>>
    BY <1>1, <1>2, FailsNarrows DEF Typed, Allocate
  <2> QED
    BY <1>1, <1>2, <2>1, BecomesNarrows, NarrowIsAtomic
<1>3. CASE Becomes(d, [mem[d] EXCEPT !.pc = "observe", !.newEpoch = allocator.epoch + 1,
                                     !.next = allocator.gen + 1])
  <2>1. \A e \in Daemons : mem'[e].epoch = mem[e].epoch /\ mem'[e].path = mem[e].path
    BY <1>1, <1>3 DEF Becomes, Typed, IsFrame, FrameFields
  <2>2. shown' = shown
    BY DEF Allocate
  <2> QED
    BY <2>1, <2>2 DEF Mounted, History, Shows
<1> QED
  BY <1>2, <1>3 DEF Allocate

LEMMA PublishIsAtomic ==
    ASSUME MountInv, NEW d \in Daemons, Publish(d)
    PROVE  Atomic!Switch(d)
<1> DEFINE f == mem[d]
           new == Shows(mem[d])'
<1>1. IsFrame(f) /\ FrameOK(f) /\ Allocated(f) /\ Typed /\ Below /\ Unshown
  BY DEF MountInv, Typed, Publish, At, Allocated
<1>2. /\ \A e \in Daemons \ {d} : mem'[e] = mem[e]
      /\ mem'[d].path = f.newPath /\ mem'[d].epoch = f.newEpoch
      /\ shown' = shown \cup {[epoch |-> f.newEpoch, path |-> f.newPath]}
      /\ f.newEpoch > f.epoch
      /\ \A s \in shown : s.epoch # f.newEpoch
  BY <1>1, PublishShows DEF Typed, Becomes
<1>3. new = [epoch |-> f.newEpoch, gen |-> [l \in Lenses |-> f.newPath[l].gen]]
  BY <1>2 DEF Shows
<1>4. Mounted' = [Mounted EXCEPT ![d] = new]
  <2>1. Shows(mem[d])' = new /\ \A e \in Daemons \ {d} : Shows(mem[e])' = Shows(mem[e])
    BY <1>2 DEF Shows
  <2> HIDE DEF new
  <2>2. PICK n : n = new
    OBVIOUS
  <2>3. \A e \in Daemons : Shows(mem[e])' = IF e = d THEN n ELSE Shows(mem[e])
    BY <2>1, <2>2
  <2>4. Mounted' = [e \in Daemons |-> IF e = d THEN n ELSE Shows(mem[e])]
    BY <2>3, Zenon DEF Mounted
  <2>5. [Mounted EXCEPT ![d] = n] = [e \in Daemons |-> IF e = d THEN n ELSE Shows(mem[e])]
    BY DEF Mounted
  <2> QED
    BY <2>2, <2>4, <2>5
<1>5. History' = History \cup {new}
  <2>1. PICK p : p = [epoch |-> f.newEpoch, path |-> f.newPath]
    OBVIOUS
  <2>2. shown' = shown \cup {p} /\ Shows(p) = new
    BY <1>2, <1>3, <2>1 DEF Shows
  <2>3. History' = {Shows(s) : s \in shown'}
    BY DEF History, Shows
  <2> HIDE DEF new
  <2> QED
    BY <2>2, <2>3 DEF History
<1>6. \A s \in History : s.epoch # new.epoch
  BY <1>2, <1>3 DEF History, Shows
<1>7. ASSUME NEW l \in Lenses
      PROVE  \/ new.gen[l] \in {0, Mounted[d].gen[l]}
             \/ /\ ~\E s \in History, k \in Lenses : s.gen[k] = new.gen[l]
                /\ \A k \in Lenses \ {l} : new.gen[k] # new.gen[l]
  <2>1. /\ new.gen[l] = f.newPath[l].gen /\ Mounted[d].gen[l] = f.path[l].gen
        /\ \A k \in Lenses : new.gen[k] = f.newPath[k].gen
    BY <1>3 DEF Mounted, Shows
  <2>2. CASE f.newPath[l].gen \in {0, f.path[l].gen}
    BY <2>1, <2>2
  <2>3. CASE Staged(f, l) /\ Owns(f, f.newPath[l].gen)
    <3>1. f.newPath[l].gen \in Nat /\ ~IsShown(f.newPath[l].gen)
      BY <1>1, <2>3 DEF IsFrame, IsPath, Unshown
    <3>2. ~\E s \in History, k \in Lenses : s.gen[k] = new.gen[l]
      BY <2>1, <3>1 DEF IsShown, History, Shows
    <3>3. ASSUME NEW k \in Lenses \ {l} PROVE f.newPath[k].gen # f.newPath[l].gen
      <4>1. CASE Staged(f, k)
        BY <1>1, <2>3, <4>1 DEF FrameOK
      <4>2. CASE f.newPath[k].gen = 0
        BY <2>3, <4>2 DEF Staged
      <4>3. CASE f.newPath[k].gen = f.path[k].gen /\ f.newPath[k].gen # 0
        BY <1>1, <3>1, <4>3 DEF Below
      <4> QED
        BY <4>1, <4>2, <4>3 DEF Staged
    <3> QED
      BY <2>1, <3>2, <3>3
  <2> QED
    BY <2>2, <2>3, PublishShows
<1>8. new.epoch > Mounted[d].epoch /\ Mounted'[d] = new
  BY <1>2, <1>3, <1>4 DEF Mounted, Shows
<1> HIDE DEF new
<1>9. LET old == Mounted[d]
          next == Mounted'[d]
      IN  /\ Mounted' = [Mounted EXCEPT ![d] = next]
          /\ History' = History \cup {next}
          /\ next.epoch > old.epoch
          /\ \A s \in History : s.epoch # next.epoch
          /\ \A l \in Lenses :
               \/ next.gen[l] \in {0, old.gen[l]}
               \/ /\ ~\E s \in History, k \in Lenses : s.gen[k] = next.gen[l]
                  /\ \A k \in Lenses \ {l} : next.gen[k] # next.gen[l]
  BY <1>4, <1>5, <1>6, <1>7, <1>8
<1> QED
  BY ONLY <1>9, Zenon DEF Atomic!Switch, Atomic!EverUsed, Mounted, History, Shows

(* What readers of the light path see is one atomic switch after another,   *)
(* under an epoch and with generations that are new to every daemon on the  *)
(* database, for any number of daemons, Lenses, edits, faults and crashes.  *)
THEOREM SwitchesAreAtomic == Spec => ImplementsAtomicMount
<1>1. Init => Atomic!Init
  <2> SUFFICES ASSUME Init PROVE Atomic!Init
    OBVIOUS
  <2>1. Mounted = [d \in Daemons |-> Atomic!Dark] /\ History = {}
    BY FreshIsDark DEF Init, Mounted, History, Shows
  <2> QED
    BY <2>1 DEF Atomic!Init, Mounted, History, Shows
<1>2. MountInv /\ [Next]_vars => [Atomic!Next]_<<Mounted, History>>
  <2> SUFFICES ASSUME MountInv, [Next]_vars PROVE [Atomic!Next]_<<Mounted, History>>
    OBVIOUS
  <2>1. ASSUME NEW d \in Daemons, Load(d) \/ Reconcile(d) \/ Crash(d)
        PROVE  [Atomic!Next]_<<Mounted, History>>
    <3>1. CASE NarrowStep(d)
      BY <3>1, NarrowIsAtomic
    <3>2. CASE Publish(d)
      BY <3>2, PublishIsAtomic DEF Atomic!Next
    <3>3. CASE Allocate(d)
      BY <3>3, AllocateIsAtomic
    <3> QED
      BY <2>1, <3>1, <3>2, <3>3, LoadNarrows, ObserveNarrows, StageNarrows, RefusalsNarrow,
         CommitNarrows, CloseNarrows, AfterglowNarrows DEF Reconcile
  <2>2. CASE UNCHANGED <<mem, shown>>
    BY <2>2 DEF Mounted, History, Shows
  <2>3. \A l \in Lenses, a \in Artifacts \cup {Off} : Edit(l, a) => UNCHANGED <<mem, shown>>
    BY DEF Edit
  <2>4. \A c \in Callers : Aim(c) \/ Acquire(c) \/ Release(c) => UNCHANGED <<mem, shown>>
    BY DEF Aim, Acquire, Release
  <2> QED
    BY <2>1, <2>2, <2>3, <2>4 DEF Next, vars
<1>3. Atomic!Spec <=> Atomic!Init /\ [][Atomic!Next]_<<Mounted, History>>
  BY DEF Atomic!Spec, Mounted, History, Shows
<1> QED
  BY <1>1, <1>2, <1>3, MountInit, MountKept, PTL DEF Spec, ImplementsAtomicMount
-----------------------------------------------------------------------------
(* Beams and retired Lenses.  All steps of a daemon but the closing of a    *)
(* generation, the publication and a crash leave its path, what it closed   *)
(* and its Beams alone, or lose a daemon that had not opened.              *)

Continues(f, g) ==
    /\ f.opened => g.opened
    /\ g.path = f.path /\ g.closed = f.closed
    /\ g.pc = "close" => g.retired = Mounts(g.path) \ Mounts(g.newPath)
    /\ StopOK(f) => StopOK(g)

Ordinary(d) ==
    /\ Becomes(d, mem'[d]) /\ UNCHANGED beam /\ faults' \in {faults, faults + 1}
    /\ \/ mem'[d] = Fails(mem[d]) /\ (mem[d].pc = "stage" \/ faults' = faults + 1)
       \/ Continues(mem[d], mem'[d])

LEMMA BecomesOrdinary ==
    ASSUME Typed, NEW d \in Daemons, NEW g, Becomes(d, g), Continues(mem[d], g),
           UNCHANGED <<beam, faults>>
    PROVE  Ordinary(d)
BY DEF Typed, Becomes, Ordinary

LEMMA AppendsOrdinary ==
    ASSUME Typed, NEW d \in Daemons, NEW photon, NEW g, Appends(d, photon, g),
           Continues(mem[d], g), UNCHANGED beam
    PROVE  Ordinary(d)
BY DEF Typed, Becomes, Appends, Ordinary

LEMMA OrdinarySteps ==
    ASSUME Typed, NEW d \in Daemons,
           \/ Load(d) \/ Allocate(d) \/ Observe(d) \/ Stage(d) \/ Refuse(d) \/ RefuseInTheDark(d)
           \/ RefuseOther(d) \/ Commit(d) \/ Afterglow(d) \/ Drain(d) \/ Complete(d) \/ Finish(d)
    PROVE  Ordinary(d)
<1> DEFINE f == mem[d]
<1>0. IsFrame(f) /\ DOMAIN f = FrameFields
  BY DEF Typed, IsFrame
<1>1. CASE Load(d)
  <2>1. PICK target, newPath, todo :
          Becomes(d, [f EXCEPT !.pc = "allocate", !.target = target, !.newPath = newPath,
                               !.todo = todo])
    BY <1>1 DEF Load
  <2> DEFINE g == [f EXCEPT !.pc = "allocate", !.target = target, !.newPath = newPath,
                            !.todo = todo]
  <2>2. Continues(f, g)
    BY <1>0, <1>1 DEF Continues, StopOK, Retiring, FrameFields, Load, At
  <2> QED
    BY <1>1, <2>1, <2>2, BecomesOrdinary DEF Load, counters
<1>2. CASE Allocate(d)
  <2> DEFINE g == [f EXCEPT !.pc = "observe", !.newEpoch = allocator.epoch + 1,
                            !.next = allocator.gen + 1]
  <2>1. Continues(f, g)
    BY <1>0, <1>2 DEF Continues, StopOK, Retiring, FrameFields, Allocate, At
  <2>2. CASE Becomes(d, g) /\ UNCHANGED faults
    BY <1>2, <2>1, <2>2, BecomesOrdinary DEF Allocate
  <2>3. CASE Becomes(d, Fails(f)) /\ faults' = faults + 1
    BY <1>2, <2>3 DEF Ordinary, Becomes, Typed, Allocate
  <2> QED
    BY <1>2, <2>2, <2>3 DEF Allocate
<1>3. CASE Observe(d)
  <2>1. Continues(f, [f EXCEPT !.pc = "stage"])
    BY <1>0, <1>3 DEF Continues, StopOK, Retiring, FrameFields, Observe, At
  <2> QED
    BY <1>3, <2>1, AppendsOrdinary DEF Observe
<1>4. CASE Stage(d)
  <2>1. PICK photon, l, mount :
          Appends(d, photon, [f EXCEPT !.todo = @ \ {l}, !.next = @ + 1, !.newPath[l] = mount])
    BY <1>4 DEF Stage
  <2> DEFINE g == [f EXCEPT !.todo = @ \ {l}, !.next = @ + 1, !.newPath[l] = mount]
  <2>2. Continues(f, g)
    BY <1>0, <1>4 DEF Continues, StopOK, Retiring, FrameFields, Stage, At
  <2> QED
    BY <1>4, <2>1, <2>2, AppendsOrdinary DEF Stage
<1>5. CASE Refuse(d) \/ RefuseInTheDark(d) \/ RefuseOther(d)
  <2>1. f.pc = "stage" /\ UNCHANGED beam
    BY <1>5 DEF Refuse, RefuseInTheDark, RefuseOther, At
  <2>2. Becomes(d, Fails(f)) /\ faults' \in {faults, faults + 1}
    BY <1>5 DEF Refuse, RefuseInTheDark, RefuseOther, Rejects, Appends, counters
  <2> QED
    BY <2>1, <2>2 DEF Ordinary, Becomes, Typed
<1>6. CASE Commit(d)
  <2>1. PICK photon, placed :
          Appends(d, photon, [f EXCEPT !.pc = "close", !.newPath = placed,
                                       !.retired = Mounts(f.path) \ Mounts(placed)])
    BY <1>6 DEF Commit
  <2> DEFINE retired == Mounts(f.path) \ Mounts(placed)
             g == [f EXCEPT !.pc = "close", !.newPath = placed, !.retired = retired]
  <2>2. retired = Mounts(f.path) \ Mounts(placed)
    OBVIOUS
  <2> HIDE DEF retired
  <2>3. Continues(f, g)
    BY <1>0, <1>6, <2>2 DEF Continues, StopOK, Retiring, FrameFields, Commit, At
  <2> QED
    BY <1>6, <2>1, <2>2, <2>3, AppendsOrdinary DEF Commit
<1>7. CASE Afterglow(d)
  <2>1. PICK photon, m : Appends(d, photon, [f EXCEPT !.pc = "drain", !.glow = m])
    BY <1>7 DEF Afterglow
  <2>2. Continues(f, [f EXCEPT !.pc = "drain", !.glow = m])
    BY <1>0, <1>7 DEF Continues, StopOK, Retiring, FrameFields, Afterglow, At
  <2> QED
    BY <1>7, <2>1, <2>2, AppendsOrdinary DEF Afterglow
<1>8. CASE Drain(d)
  <2>1. Continues(f, [f EXCEPT !.pc = "dim", !.stopped = @ \cup {f.glow}])
    BY <1>0, <1>8 DEF Continues, StopOK, Retiring, FrameFields, Drain, At
  <2> QED
    BY <1>8, <2>1, BecomesOrdinary DEF Drain, counters
<1>9. CASE Complete(d)
  <2>1. Continues(f, [f EXCEPT !.pc = "afterglow", !.glow = None, !.retired = @ \ {f.glow}])
    BY <1>0, <1>9 DEF Continues, StopOK, Retiring, FrameFields, Complete, At
  <2> QED
    BY <1>9, <2>1, AppendsOrdinary DEF Complete
<1>10. CASE Finish(d)
  <2>1. Continues(f, Returns(f))
    BY <1>0, <1>10 DEF Continues, StopOK, Retiring, FrameFields, Finish, At, Returns
  <2>2. CASE Becomes(d, Returns(f)) /\ UNCHANGED faults
    BY <1>10, <2>1, <2>2, BecomesOrdinary DEF Finish
  <2>3. CASE Appends(d, Photon("system.started", f.epoch, None, 0), Returns(f))
    BY <1>10, <2>1, <2>3, AppendsOrdinary DEF Finish
  <2> QED
    BY <1>10, <2>2, <2>3 DEF Finish
<1> QED
  BY <1>1, <1>2, <1>3, <1>4, <1>5, <1>6, <1>7, <1>8, <1>9, <1>10
-----------------------------------------------------------------------------
(* BeamsFollowThePath *)

LEMMA BeamInit == Init => BeamInv
<1> SUFFICES ASSUME Init PROVE BeamInv
  OBVIOUS
<1>1. \A c \in Callers : beam[c] = NoBeam
  BY DEF Init
<1>2. \A d \in Daemons : mem[d].pc = "idle"
  BY FreshIsFrame DEF Init
<1> QED
  BY <1>1, <1>2 DEF Init, NoBeam, BeamInv, BeamTyped, BeamsAimAtThePath, RetiredAreReplaced, At

\* A daemon that has not opened has no Beam, and no other daemon has a Beam in it.
LEMMA OrdinaryKeepsBeams ==
    ASSUME Typed, BeamInv, NEW d \in Daemons, Ordinary(d)
    PROVE  BeamInv'
<1>1. /\ \A e \in Daemons \ {d} : mem'[e] = mem[e]
      /\ beam' = beam
  BY DEF Typed, Becomes, Ordinary
<1>2. CASE Continues(mem[d], mem'[d])
  <2>1. RetiredAreReplaced'
    BY <1>1, <1>2 DEF BeamInv, RetiredAreReplaced, Continues, At
  <2>2. BeamsAimAtThePath'
    <3>1. ASSUME NEW c \in Callers
          PROVE  /\ mem[Host[c]].opened => mem'[Host[c]].opened
                 /\ mem'[Host[c]].path = mem[Host[c]].path
                 /\ mem'[Host[c]].closed = mem[Host[c]].closed
      BY <1>1, <1>2, MountAssumption DEF Continues
    <3> QED
      BY <1>1, <3>1 DEF BeamInv, BeamsAimAtThePath
  <2> QED
    BY <1>1, <2>1, <2>2 DEF BeamInv, BeamTyped
<1>3. CASE mem'[d] = Fails(mem[d])
  <2>0. IsFrame(mem[d])
    BY DEF Typed
  <2>1. mem'[d].pc = "idle"
    BY <1>3, <2>0, FailsIsFrame
  <2>2. RetiredAreReplaced'
    BY <1>1, <2>1 DEF BeamInv, RetiredAreReplaced, At
  <2>3. mem[d].opened => /\ mem'[d].opened
                         /\ mem'[d].path = mem[d].path /\ mem'[d].closed = mem[d].closed
    BY <1>3, <2>0 DEF Fails, IsFrame, FrameFields
  <2>4. BeamsAimAtThePath'
    <3>1. ASSUME NEW c \in Callers, beam[c].pc # "none"
          PROVE  /\ mem[Host[c]].opened /\ mem'[Host[c]].opened
                 /\ mem'[Host[c]].path = mem[Host[c]].path
                 /\ mem'[Host[c]].closed = mem[Host[c]].closed
      BY <1>1, <2>3, <3>1, MountAssumption DEF BeamInv, BeamsAimAtThePath
    <3> QED
      BY <1>1, <3>1 DEF BeamInv, BeamsAimAtThePath
  <2> QED
    BY <1>1, <2>2, <2>4 DEF BeamInv, BeamTyped
<1> QED
  BY <1>2, <1>3 DEF Ordinary

LEMMA CloseKeepsBeams ==
    ASSUME Typed, BeamInv, NEW d \in Daemons, Close(d)
    PROVE  BeamInv'
<1>0. IsFrame(mem[d])
  BY DEF Typed
<1>1. PICK m : /\ Becomes(d, [mem[d] EXCEPT !.closed = @ \cup {m}])
               /\ beam' = [c \in Callers |->
                     IF Host[c] = d /\ beam[c].pc = "held" /\ beam[c].mount = m
                       THEN [beam[c] EXCEPT !.stop = TRUE] ELSE beam[c]]
  BY DEF Close
<1>2. /\ \A e \in Daemons \ {d} : mem'[e] = mem[e]
      /\ mem'[d].closed = mem[d].closed \cup {m} /\ mem'[d].path = mem[d].path
      /\ mem'[d].opened = mem[d].opened /\ mem'[d].pc = mem[d].pc
      /\ mem'[d].newPath = mem[d].newPath /\ mem'[d].retired = mem[d].retired
  BY <1>0, <1>1 DEF Typed, Becomes, IsFrame, FrameFields
<1>3. RetiredAreReplaced'
  BY <1>2 DEF BeamInv, RetiredAreReplaced, At
<1>4. ASSUME NEW c \in Callers
      PROVE  /\ DOMAIN beam'[c] = {"pc", "mount", "stop"} /\ beam'[c].stop \in BOOLEAN
             /\ beam'[c].pc = beam[c].pc /\ beam'[c].mount = beam[c].mount
             /\ beam'[c].stop \/ (beam'[c] = beam[c]
                                    /\ ~(Host[c] = d /\ beam[c].pc = "held" /\ beam[c].mount = m))
  BY <1>1 DEF BeamInv, BeamTyped
<1>5. BeamTyped'
  BY <1>1, <1>4 DEF BeamTyped
<1>6. BeamsAimAtThePath'
  <2> SUFFICES ASSUME NEW c \in Callers
               PROVE  LET f == mem'[Host[c]]
                      IN  /\ beam'[c].pc # "none" => f.opened
                          /\ beam'[c].pc = "aimed" => beam'[c].mount \in Mounts(f.path) \cup f.closed
                          /\ beam'[c].pc = "held" /\ ~beam'[c].stop =>
                                 beam'[c].mount \in Mounts(f.path) \ f.closed
    BY DEF BeamsAimAtThePath, Mounts
  <2>1. CASE Host[c] = d
    BY <1>2, <1>4, <2>1 DEF BeamInv, BeamsAimAtThePath
  <2>2. CASE Host[c] # d
    BY <1>2, <1>4, <2>2, MountAssumption DEF BeamInv, BeamsAimAtThePath
  <2> QED
    BY <2>1, <2>2
<1> QED
  BY <1>3, <1>5, <1>6 DEF BeamInv

\* What is not on the new path was closed before it is shown.
LEMMA PublishKeepsBeams ==
    ASSUME MountInv, BeamInv, NEW d \in Daemons, Publish(d)
    PROVE  BeamInv'
<1>1. /\ \A e \in Daemons \ {d} : mem'[e] = mem[e]
      /\ mem'[d].path = mem[d].newPath /\ mem'[d].pc = "afterglow"
      /\ mem[d].retired \subseteq mem[d].closed
      /\ mem'[d].closed = mem[d].closed /\ mem'[d].opened = mem[d].opened
      /\ beam' = beam
  BY PublishShows DEF MountInv, Typed, Becomes
<1>2. mem[d].retired = Mounts(mem[d].path) \ Mounts(mem[d].newPath)
  BY DEF BeamInv, RetiredAreReplaced, Publish
<1>3. RetiredAreReplaced'
  BY <1>1 DEF BeamInv, RetiredAreReplaced, At
<1>4. BeamsAimAtThePath'
  <2> SUFFICES ASSUME NEW c \in Callers
               PROVE  LET f == mem'[Host[c]]
                      IN  /\ beam[c].pc # "none" => f.opened
                          /\ beam[c].pc = "aimed" => beam[c].mount \in Mounts(f.path) \cup f.closed
                          /\ beam[c].pc = "held" /\ ~beam[c].stop =>
                                 beam[c].mount \in Mounts(f.path) \ f.closed
    BY <1>1 DEF BeamsAimAtThePath, Mounts
  <2>1. CASE Host[c] = d
    BY <1>1, <1>2, <2>1 DEF BeamInv, BeamsAimAtThePath
  <2>2. CASE Host[c] # d
    BY <1>1, <2>2, MountAssumption DEF BeamInv, BeamsAimAtThePath
  <2> QED
    BY <2>1, <2>2
<1> QED
  BY <1>1, <1>3, <1>4 DEF BeamInv, BeamTyped

LEMMA BeamKept == MountInv /\ BeamInv /\ [Next]_vars => BeamInv'
<1> SUFFICES ASSUME MountInv, BeamInv, [Next]_vars PROVE BeamInv'
  OBVIOUS
<1>0. Typed
  BY DEF MountInv
<1>1. ASSUME NEW d \in Daemons, Load(d) \/ Reconcile(d)
      PROVE  BeamInv'
  BY <1>0, <1>1, OrdinarySteps, OrdinaryKeepsBeams, CloseKeepsBeams, PublishKeepsBeams
     DEF Reconcile
<1>2. ASSUME NEW d \in Daemons, Crash(d)
      PROVE  BeamInv'
  <2>1. /\ \A e \in Daemons \ {d} : mem'[e] = mem[e]
        /\ mem'[d] = Fresh
        /\ beam' = [c \in Callers |-> IF Host[c] = d THEN NoBeam ELSE beam[c]]
    BY <1>0, <1>2 DEF Crash, Becomes, Typed
  <2>2. RetiredAreReplaced'
    BY <2>1, FreshIsFrame DEF BeamInv, RetiredAreReplaced, At
  <2>3. BeamTyped' /\ \A c \in Callers : Host[c] = d => beam'[c].pc = "none"
    BY <2>1 DEF BeamInv, BeamTyped, NoBeam
  <2>4. BeamsAimAtThePath'
    BY <2>1, <2>3, MountAssumption DEF BeamInv, BeamsAimAtThePath
  <2> QED
    BY <2>2, <2>3, <2>4 DEF BeamInv
<1>3. ASSUME NEW c \in Callers, Aim(c)
      PROVE  BeamInv'
  <2>1. PICK m \in Mounts(mem[Host[c]].path) :
          beam' = [beam EXCEPT ![c] = [pc |-> "aimed", mount |-> m, stop |-> FALSE]]
    BY <1>3 DEF Aim
  <2>2. mem' = mem /\ mem[Host[c]].opened
    BY <1>3 DEF Aim
  <2>3. /\ \A b \in Callers \ {c} : beam'[b] = beam[b]
        /\ beam'[c].pc = "aimed" /\ beam'[c].mount = m /\ beam'[c].stop = FALSE
        /\ DOMAIN beam'[c] = {"pc", "mount", "stop"} /\ DOMAIN beam' = Callers
    BY <2>1 DEF BeamInv, BeamTyped
  <2>4. RetiredAreReplaced' /\ BeamTyped'
    <3>1. RetiredAreReplaced'
      BY <2>2 DEF BeamInv, RetiredAreReplaced, At, Mounts
    <3>2. BeamTyped'
      BY <2>3 DEF BeamInv, BeamTyped
    <3> QED
      BY <3>1, <3>2
  <2>5. BeamsAimAtThePath'
    <3>1. ASSUME NEW b \in Callers \ {c}
          PROVE  beam'[b] = beam[b] /\ mem'[Host[b]] = mem[Host[b]]
      BY <2>2, <2>3
    <3>2. mem'[Host[c]] = mem[Host[c]]
      BY <2>2
    <3> QED
      BY <2>2, <2>3, <3>1, <3>2 DEF BeamInv, BeamsAimAtThePath
  <2> QED
    BY <2>4, <2>5 DEF BeamInv
<1>4. ASSUME NEW c \in Callers, Acquire(c) \/ Release(c)
      PROVE  BeamInv'
  <2>1. mem' = mem /\ \A b \in Callers \ {c} : beam'[b] = beam[b]
    BY <1>4 DEF Acquire, Release, BeamInv, BeamTyped
  <2>2. /\ DOMAIN beam'[c] = {"pc", "mount", "stop"} /\ DOMAIN beam' = Callers
        /\ beam'[c].stop \in BOOLEAN
        /\ \/ beam'[c].pc = "none"
           \/ /\ beam[c].pc = "aimed" /\ beam[c].mount \notin mem[Host[c]].closed
              /\ beam'[c].pc = "held" /\ beam'[c].mount = beam[c].mount
    <3>1. /\ DOMAIN beam = Callers /\ DOMAIN beam[c] = {"pc", "mount", "stop"}
          /\ beam[c].stop \in BOOLEAN
      BY DEF BeamInv, BeamTyped
    <3>2. CASE beam' = [beam EXCEPT ![c] = NoBeam]
      BY <3>1, <3>2 DEF NoBeam
    <3>3. CASE /\ beam[c].pc = "aimed" /\ beam[c].mount \notin mem[Host[c]].closed
               /\ beam' = [beam EXCEPT ![c] = [beam[c] EXCEPT !.pc = "held"]]
      BY <3>1, <3>3
    <3> QED
      BY <1>4, <3>2, <3>3 DEF Acquire, Release
  <2>3. RetiredAreReplaced' /\ BeamTyped'
    <3>1. RetiredAreReplaced'
      BY <2>1 DEF BeamInv, RetiredAreReplaced, At, Mounts
    <3>2. BeamTyped'
      BY <2>1, <2>2 DEF BeamInv, BeamTyped
    <3> QED
      BY <3>1, <3>2
  <2>4. BeamsAimAtThePath'
    <3>1. ASSUME NEW b \in Callers \ {c}
          PROVE  beam'[b] = beam[b] /\ mem'[Host[b]] = mem[Host[b]]
      BY <2>1
    <3>2. mem'[Host[c]] = mem[Host[c]]
      BY <2>1
    <3> QED
      BY <2>2, <3>1, <3>2 DEF BeamInv, BeamsAimAtThePath
  <2> QED
    BY <2>3, <2>4 DEF BeamInv
<1>5. CASE UNCHANGED <<mem, beam>>
  <2>1. mem' = mem /\ beam' = beam
    BY <1>5
  <2>2. BeamTyped' /\ RetiredAreReplaced'
    BY <2>1 DEF BeamInv, BeamTyped, RetiredAreReplaced, At
  <2>3. BeamsAimAtThePath'
    BY <2>1 DEF BeamInv, BeamsAimAtThePath
  <2> QED
    BY <2>2, <2>3 DEF BeamInv
<1>6. \A l \in Lenses, a \in Artifacts \cup {Off} : Edit(l, a) => UNCHANGED <<mem, beam>>
  BY DEF Edit
<1> QED
  BY <1>1, <1>2, <1>3, <1>4, <1>5, <1>6 DEF Next, vars

(* A Beam that nobody told to stop runs on the path that is shown, although *)
(* its caller read the path before, for any number of daemons, Lenses,     *)
(* callers, edits, faults and crashes.                                     *)
THEOREM BeamsAreNotStale == Spec => []BeamsFollowThePath
<1>1. BeamInv => BeamsFollowThePath
  BY DEF BeamInv, BeamsAimAtThePath, BeamsFollowThePath
<1> QED
  BY <1>1, MountInit, MountKept, BeamInit, BeamKept, PTL DEF Spec
-----------------------------------------------------------------------------
(* RetiredLensesStop *)

LEMMA StopInit == Init => StopInv
BY DEF Init, StopInv, StopOK, Fresh, Retiring

LEMMA StopKept == MountInv /\ StopInv /\ [Next]_vars => StopInv'
<1> SUFFICES ASSUME MountInv, StopInv, [Next]_vars, faults' = 0,
                    NEW e \in Daemons
             PROVE  StopOK(mem'[e])
  BY DEF StopInv, StopOK
<1>0. Typed /\ faults \in Nat
  BY DEF MountInv, Typed
<1>1. ASSUME faults = 0, mem'[e] = mem[e] PROVE StopOK(mem'[e])
  BY <1>1 DEF StopInv
<1>2. ASSUME NEW d \in Daemons, Load(d) \/ Reconcile(d) \/ Crash(d)
      PROVE  StopOK(mem'[e])
  <2>1. CASE Ordinary(d)
    <3>1. faults = 0 /\ \A k \in Daemons \ {d} : mem'[k] = mem[k]
      BY <1>0, <2>1 DEF Ordinary, Becomes, Typed
    <3>2. IsFrame(mem[d]) /\ StopOK(mem[d])
      BY <1>0, <3>1 DEF Typed, StopInv
    <3>3. CASE Continues(mem[d], mem'[d])
      BY <1>1, <3>1, <3>2, <3>3 DEF Continues
    <3>4. CASE mem'[d] = Fails(mem[d]) /\ mem[d].pc = "stage"
      <4>1. StopOK(Fresh)
        BY DEF StopOK, Fresh, Retiring
      <4>2. StopOK(Fails(mem[d]))
        BY <3>2, <3>4, <4>1 DEF StopOK, Fails, Retiring, IsFrame, FrameFields
      <4> QED
        BY <1>1, <3>1, <3>4, <4>2
    <3> QED
      BY <1>0, <2>1, <3>1, <3>3, <3>4 DEF Ordinary
  <2>2. CASE Close(d)
    <3>1. /\ IsFrame(mem[d]) /\ mem[d].pc = "close" /\ faults = 0
          /\ \A k \in Daemons \ {d} : mem'[k] = mem[k]
      BY <1>0, <2>2 DEF Close, counters, Becomes, Typed, At
    <3>2. PICK m \in mem[d].retired : Becomes(d, [mem[d] EXCEPT !.closed = @ \cup {m}])
      BY <2>2 DEF Close
    <3>3. /\ mem'[d].closed = mem[d].closed \cup {m} /\ mem'[d].stopped = mem[d].stopped
          /\ mem'[d].retired = mem[d].retired /\ mem'[d].pc = "close"
      BY <1>0, <3>1, <3>2 DEF Becomes, Typed, IsFrame, FrameFields
    <3>4. StopOK(mem'[d])
      BY <3>1, <3>3 DEF StopInv, StopOK, Retiring
    <3> QED
      BY <1>1, <3>1, <3>4
  <2>3. CASE Publish(d)
    <3>1. /\ \A k \in Daemons \ {d} : mem'[k] = mem[k]
          /\ mem'[d].closed = mem[d].closed /\ mem'[d].stopped = mem[d].stopped
          /\ mem'[d].retired = mem[d].retired /\ mem'[d].pc = "afterglow"
          /\ mem[d].pc = "close" /\ faults = 0
      BY <1>0, <2>3, PublishShows DEF Publish, Becomes, Typed, At
    <3>2. StopOK(mem'[d])
      BY <3>1 DEF StopInv, StopOK, Retiring
    <3> QED
      BY <1>1, <3>1, <3>2
  <2>4. CASE Crash(d)
    <3>1. /\ \A k \in Daemons \ {d} : mem'[k] = mem[k]
          /\ mem'[d] = Fresh /\ faults = 0
      BY <1>0, <2>4 DEF Crash, Becomes, Typed
    <3> QED
      BY <1>1, <3>1 DEF StopOK, Fresh, Retiring
  <2> QED
    BY <1>0, <1>2, <2>1, <2>2, <2>3, <2>4, OrdinarySteps DEF Reconcile
<1>3. CASE UNCHANGED <<mem, faults>>
  BY <1>1, <1>3
<1>4. \A l \in Lenses, a \in Artifacts \cup {Off} : Edit(l, a) => UNCHANGED <<mem, faults>>
  BY DEF Edit
<1>5. \A c \in Callers : Aim(c) \/ Acquire(c) \/ Release(c) => UNCHANGED <<mem, faults>>
  BY DEF Aim, Acquire, Release, counters
<1> QED
  BY <1>2, <1>3, <1>4, <1>5 DEF Next, vars, counters

(* As long as the store takes every photon, a Lens whose generation was     *)
(* closed is told to stop before the reconcile ends, for any number of     *)
(* daemons, Lenses, refusals and crashes.                                  *)
THEOREM RetiredAreStopped == Spec => []RetiredLensesStop
<1>1. StopInv => RetiredLensesStop
  BY DEF StopInv, StopOK, RetiredLensesStop, At, Retiring
<1> QED
  BY <1>1, MountInit, MountKept, StopInit, StopKept, PTL DEF Spec
=============================================================================
