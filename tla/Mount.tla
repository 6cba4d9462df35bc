------------------------------- MODULE Mount -------------------------------
(***************************************************************************)
(* TokmonRuntime::open and reconcile (src/nyxia/runtime): the change of a  *)
(* daemon's light path from the configuration, with the allocator of mount *)
(* identities (PhotonStore::allocate_mount), the publication               *)
(* (LightPath::publish) and the registry of Beams (src/nyxia/mount).       *)
(*                                                                         *)
(* Every photon reconcile appends may fail; every failure is an early      *)
(* return.  An Act that reads the path, takes a ticket and releases it is  *)
(* what the engine does with a Beam (see Engine).                          *)
(*                                                                         *)
(* An artifact is hashed when reconcile begins and read again when it is    *)
(* staged, so a Lens may be mounted under the hash of what its file held    *)
(* before: a mount has both.  A manifest is what the evidence, the authority *)
(* and the order of a Lens are decided by.  A candidate may also be refused *)
(* for what is left out: ids and runtimes, entries that do not load,       *)
(* versions, ports.  An artifact stands for its hash and its runtime kind.  *)
(***************************************************************************)
EXTENDS Naturals, Sequences, FiniteSets
LOCAL INSTANCE SequencesExt

CONSTANTS
    Daemons,    \* processes sharing the photon database and the configuration
    Lenses,     \* Lens ids of the configuration
    Artifacts,  \* artifact hashes
    Manifest,   \* what lens.yaml and lens-lock.yaml say, by Lens and artifact
    NoLock,     \* the lock of an artifact without lens-lock.yaml
    RequireSignatures,
    Off,        \* the entry of a Lens that is disabled or absent
    Callers,    \* threads that refract an Act
    Host,       \* the daemon each caller runs in
    MaxEpoch,   \* bound: allocations of a mount
    MaxEdits,   \* bound: edits of the configuration
    MaxFailures,\* bound: store operations that fail, candidates refused for other reasons
    MaxCrashes  \* bound: crashes

ASSUME MountAssumption ==
    /\ Off \notin Artifacts
    /\ RequireSignatures \in BOOLEAN
    /\ \A l \in Lenses, a \in Artifacts :
         LET manifest == Manifest[l][a]
         IN  /\ manifest.before \cup manifest.after \cup manifest.needs \subseteq Lenses
             /\ manifest.lock = NoLock
                  \/ /\ manifest.lock.hash \in Artifacts
                     /\ manifest.lock.signature \in {"none", "valid", "invalid"}
    /\ IsFiniteSet(Lenses)
    /\ Host \in [Callers -> Daemons]
    /\ {MaxEpoch, MaxEdits, MaxFailures, MaxCrashes} \subseteq Nat

VARIABLES
    config,     \* light-path.yaml and the artifacts it names
    allocator,  \* the mount_allocator row
    photons,    \* the photons reconcile appends
    mem,        \* the memory of each daemon
    beam,       \* what each caller holds
    shown,      \* history: every light path ever published
    edits, faults, refusals, crashes

counters == <<edits, faults, refusals, crashes>>
vars == <<config, allocator, photons, mem, beam, shown, counters>>

None == <<>>     \* no configuration, no mount

Configs == [Lenses -> Artifacts \cup {Off}]

Dark == [l \in Lenses |-> [gen |-> 0, artifact |-> Off, content |-> Off, place |-> 0]]

\* No generation is mounted, none was closed and no configuration is recorded.
Fresh == [pc |-> "idle", opened |-> FALSE, recorded |-> None, target |-> None,
          epoch |-> 0, path |-> Dark, newEpoch |-> 0, newPath |-> Dark,
          todo |-> {}, next |-> 0, retired |-> {}, glow |-> None,
          closed |-> {}, stopped |-> {}]

NoBeam == [pc |-> "none", mount |-> None, stop |-> FALSE]

Init == /\ config \in Configs
        /\ allocator = [epoch |-> 0, gen |-> 0]
        /\ photons = <<>>
        /\ mem = [d \in Daemons |-> Fresh]
        /\ beam = [c \in Callers |-> NoBeam]
        /\ shown = {}
        /\ edits = 0 /\ faults = 0 /\ refusals = 0 /\ crashes = 0
-----------------------------------------------------------------------------
(* Helpers *)

At(d, pc) == mem[d].pc = pc

Becomes(d, frame) == mem' = [mem EXCEPT ![d] = frame]

\* The <<Lens, generation>> pairs of a path.
Mounts(path) == {<<l, path[l].gen>> : l \in {k \in Lenses : path[k].gen # 0}}

(* reconcile returns an error.  What it had built is dropped.  A daemon     *)
(* whose first mount fails throws its runtime away and makes another.       *)
Fails(frame) ==
    IF frame.opened
      THEN [frame EXCEPT !.pc = "idle", !.target = None, !.todo = {}, !.next = 0,
                         !.newEpoch = 0, !.newPath = Dark,
                         !.retired = {}, !.glow = None]
      ELSE Fresh

\* reconcile, or the open around it, succeeds.
Returns(frame) ==
    [frame EXCEPT !.pc = "idle", !.opened = TRUE, !.target = None, !.next = 0,
                  !.newEpoch = 0, !.newPath = Dark]

\* PhotonStore::append: durable, or an error and nothing.
Appends(d, photon, frame) ==
    \/ /\ photons' = Append(photons, photon)
       /\ Becomes(d, frame)
       /\ UNCHANGED faults
    \/ /\ faults + refusals < MaxFailures
       /\ faults' = faults + 1
       /\ Becomes(d, Fails(mem[d]))
       /\ UNCHANGED photons

Photon(kind, epoch, mount, active) ==
    [kind |-> kind, epoch |-> epoch, mount |-> mount, active |-> active]

\* BeamRegistry::active.
Active(d, mount) ==
    Cardinality({c \in Callers : /\ Host[c] = d
                                 /\ beam[c].pc = "held" /\ beam[c].mount = mount})
-----------------------------------------------------------------------------
(* What makes a candidate bad *)

MountedIn(path) == {l \in Lenses : path[l].gen # 0}

ManifestOf(path, l) == Manifest[l][path[l].content]

\* verify_artifact_evidence.
Verifies(manifest, hash) ==
    IF manifest.lock = NoLock THEN ~RequireSignatures
    ELSE /\ manifest.lock.hash = hash
         /\ manifest.lock.signature = "valid"
              \/ (manifest.lock.signature = "none" /\ ~RequireSignatures)

\* A Lens that replaces another has no permission that the old one had not.
KeepsAuthority(path, l, manifest) ==
    l \in MountedIn(path) => manifest.permissions \subseteq ManifestOf(path, l).permissions

\* stage_lens with the checks of reconcile behind it.
Stageable(frame, l, content) ==
    /\ Verifies(Manifest[l][content], frame.target[l])
    /\ KeepsAuthority(frame.path, l, Manifest[l][content])

\* What the artifact of a Lens holds now: what was hashed, unless the file was
\* changed since.
Contents(frame, l) == {frame.target[l], config[l]} \ {Off}

\* Mutant: the order is that of the manifests that were hashed.
EdgesOfTheHash(path) ==
    {e \in MountedIn(path) \X MountedIn(path) :
       /\ e[1] # e[2]
       /\ \/ e[1] \in Manifest[e[2]][path[e[2]].artifact].needs
          \/ e[1] \in Manifest[e[2]][path[e[2]].artifact].after
          \/ e[2] \in Manifest[e[1]][path[e[1]].artifact].before}

\* Which Lens must come before which.
Edges(path) ==
    {e \in MountedIn(path) \X MountedIn(path) :
       /\ e[1] # e[2]
       /\ \/ e[1] \in ManifestOf(path, e[2]).needs \cup ManifestOf(path, e[2]).after
          \/ e[2] \in ManifestOf(path, e[1]).before}

\* order_light_path: of the Lenses that nothing left must precede, the one listed
\* first comes next.  A cycle leaves some of them out.
Ordered(path, listing) ==
    LET Ready(done) == {i \in DOMAIN listing :
                          /\ listing[i] \notin Range(done)
                          /\ \A e \in Edges(path) :
                               e[2] = listing[i] => e[1] \in Range(done)}
        First(places) == CHOOSE i \in places : \A j \in places : i <= j
        Next1(done, i) == IF Ready(done) = {} THEN done
                          ELSE Append(done, listing[First(Ready(done))])
    IN  FoldLeft(Next1, <<>>, listing)

\* The configuration lists the Lenses in any order.
Listings(path) == SetToSeqs(MountedIn(path))

Placed(path, order) ==
    [l \in Lenses |-> IF l \in Range(order)
                        THEN [path[l] EXCEPT !.place = CHOOSE i \in DOMAIN order : order[i] = l]
                        ELSE path[l]]

\* What LightPath::publish checks again, and what only it checks.
Publishable(path) ==
    \A l \in MountedIn(path) :
       /\ ManifestOf(path, l).needs \subseteq MountedIn(path)
       /\ \A k \in MountedIn(path) :
            /\ k \in ManifestOf(path, l).before => path[l].place < path[k].place
            /\ k \in ManifestOf(path, l).after => path[k].place < path[l].place
-----------------------------------------------------------------------------
(* The configuration changes under the daemons *)

Edit(l, a) ==
    /\ edits < MaxEdits
    /\ a # config[l]
    /\ config' = [config EXCEPT ![l] = a]
    /\ edits' = edits + 1
    /\ UNCHANGED <<allocator, photons, mem, beam, shown, faults, refusals, crashes>>
-----------------------------------------------------------------------------
(* reconcile *)

\* A hash over the files of the artifact, without its lock and its signatures:
\* it stands for their content.
ArtifactHash(l) == config[l]

\* The new configuration differs from the recorded one: the Lenses that changed
\* are staged again, the others keep their mount.
Load(d) ==
    /\ At(d, "idle")
    /\ mem[d].recorded # config
    /\ allocator.epoch < MaxEpoch
    /\ LET kept == {l \in Lenses : /\ config[l] # Off
                                   /\ mem[d].path[l].artifact = ArtifactHash(l)}
       IN Becomes(d, [mem[d] EXCEPT
              !.pc = "allocate", !.target = [l \in Lenses |-> ArtifactHash(l)],
              !.newPath = [l \in Lenses |->
                              IF l \in kept THEN mem[d].path[l] ELSE Dark[l]],
              !.todo = {l \in Lenses : config[l] # Off} \ kept])
    /\ UNCHANGED <<config, allocator, photons, beam, shown, counters>>

\* PhotonStore::allocate_mount, one transaction.
Allocate(d) ==
    /\ At(d, "allocate")
    /\ \/ /\ allocator' = [epoch |-> allocator.epoch + 1,
                           gen |-> allocator.gen + Cardinality(mem[d].todo)]
          /\ Becomes(d, [mem[d] EXCEPT !.pc = "observe",
                             !.newEpoch = allocator.epoch + 1,
                             !.next = allocator.gen + 1])
          /\ UNCHANGED faults
       \/ /\ faults + refusals < MaxFailures
          /\ faults' = faults + 1
          /\ Becomes(d, Fails(mem[d]))
          /\ UNCHANGED allocator
    /\ UNCHANGED <<config, photons, beam, shown, edits, refusals, crashes>>

Observe(d) ==
    /\ At(d, "observe")
    /\ Appends(d, Photon("config.light-path-observed", mem[d].newEpoch, None, 0),
               [mem[d] EXCEPT !.pc = "stage"])
    /\ UNCHANGED <<config, allocator, beam, shown, edits, refusals, crashes>>

\* Mutant: every staged Lens gets the first generation of the allocation.
StageSameGeneration(d) ==
    /\ At(d, "stage")
    /\ \E l \in mem[d].todo :
         \E content \in {c \in Contents(mem[d], l) : Stageable(mem[d], l, c)} :
            Appends(d, Photon("lens.candidate-verified", mem[d].newEpoch,
                              <<l, mem[d].next>>, 0),
                    [mem[d] EXCEPT !.todo = @ \ {l},
                        !.newPath[l] = [gen |-> mem[d].next, artifact |-> mem[d].target[l],
                                        content |-> content, place |-> 0]])
    /\ UNCHANGED <<config, allocator, beam, shown, edits, refusals, crashes>>

\* The Lenses are staged in the order of the configuration, which is any order.
Stage(d) ==
    /\ At(d, "stage")
    /\ \E l \in mem[d].todo :
         \E content \in {c \in Contents(mem[d], l) : Stageable(mem[d], l, c)} :
            Appends(d, Photon("lens.candidate-verified", mem[d].newEpoch,
                              <<l, mem[d].next>>, 0),
                    [mem[d] EXCEPT !.todo = @ \ {l}, !.next = @ + 1,
                        !.newPath[l] = [gen |-> mem[d].next, artifact |-> mem[d].target[l],
                                        content |-> content, place |-> 0]])
    /\ UNCHANGED <<config, allocator, beam, shown, edits, refusals, crashes>>

\* The rejection is recorded, or that fails too.
Rejects(d) ==
    Appends(d, Photon("lens.candidate-rejected", mem[d].newEpoch, None, 0), Fails(mem[d]))

\* A Lens is not stageable or the candidate has no order.
Refuse(d) ==
    /\ At(d, "stage")
    /\ \/ \E l \in mem[d].todo : \E c \in Contents(mem[d], l) : ~Stageable(mem[d], l, c)
       \/ /\ mem[d].todo = {}
          /\ \E listing \in Listings(mem[d].newPath) :
               Len(Ordered(mem[d].newPath, listing)) < Len(listing)
    /\ Rejects(d)
    /\ UNCHANGED <<config, allocator, beam, shown, edits, refusals, crashes>>

\* The dark publication refuses the candidate; that is not recorded.
RefuseInTheDark(d) ==
    /\ At(d, "stage")
    /\ mem[d].todo = {}
    /\ \E listing \in Listings(mem[d].newPath) :
         LET order == Ordered(mem[d].newPath, listing)
         IN  /\ Len(order) = Len(listing)
             /\ ~Publishable(Placed(mem[d].newPath, order))
    /\ Becomes(d, Fails(mem[d]))
    /\ UNCHANGED <<config, allocator, photons, beam, shown, counters>>

\* The candidate is bad for a reason that is left out.
RefuseOther(d) ==
    /\ At(d, "stage")
    /\ faults + refusals < MaxFailures
    /\ refusals' = refusals + 1
    /\ \/ mem[d].todo # {} /\ photons' = Append(photons,
                        Photon("lens.candidate-rejected", mem[d].newEpoch, None, 0))
       \/ mem[d].todo = {} /\ UNCHANGED photons
    /\ Becomes(d, Fails(mem[d]))
    /\ UNCHANGED <<config, allocator, beam, shown, edits, faults, crashes>>

\* The durable decision.  It comes before any effect on the old path.
Commit(d) ==
    /\ At(d, "stage")
    /\ mem[d].todo = {}
    /\ \E listing \in Listings(mem[d].newPath) :
         LET order == Ordered(mem[d].newPath, listing)
             placed == Placed(mem[d].newPath, order)
         IN  /\ Len(order) = Len(listing)
             /\ Publishable(placed)
             /\ Appends(d, Photon("mount.epoch-committed", mem[d].newEpoch, None, 0),
                   [mem[d] EXCEPT !.pc = "close", !.newPath = placed,
                       !.retired = Mounts(mem[d].path) \ Mounts(placed)])
    /\ UNCHANGED <<config, allocator, beam, shown, edits, refusals, crashes>>

\* BeamRegistry::stop_generation, for one retired Lens after the other.
Close(d) ==
    /\ At(d, "close")
    /\ \E m \in mem[d].retired \ mem[d].closed :
         /\ Becomes(d, [mem[d] EXCEPT !.closed = @ \cup {m}])
         /\ beam' = [c \in Callers |->
                IF Host[c] = d /\ beam[c].pc = "held" /\ beam[c].mount = m
                  THEN [beam[c] EXCEPT !.stop = TRUE] ELSE beam[c]]
    /\ UNCHANGED <<config, allocator, photons, shown, counters>>

\* LightPath::publish, and the reopening of the generations if it refuses.
Publish(d) ==
    /\ At(d, "close")
    /\ mem[d].retired \subseteq mem[d].closed
    /\ IF mem[d].newEpoch > mem[d].epoch
         THEN /\ Becomes(d, [mem[d] EXCEPT !.pc = "afterglow",
                     !.epoch = mem[d].newEpoch, !.path = mem[d].newPath,
                     !.recorded = mem[d].target])
              /\ shown' = shown \cup {[epoch |-> mem[d].newEpoch,
                                       path |-> mem[d].newPath]}
         ELSE /\ Becomes(d, Fails([mem[d] EXCEPT !.closed = @ \ mem[d].retired]))
              /\ UNCHANGED shown
    /\ UNCHANGED <<config, allocator, photons, beam, counters>>

Afterglow(d) ==
    /\ At(d, "afterglow")
    /\ \E m \in mem[d].retired :
         Appends(d, Photon("lens.afterglow-started", mem[d].newEpoch, m, 0),
                 [mem[d] EXCEPT !.pc = "drain", !.glow = m])
    /\ UNCHANGED <<config, allocator, beam, shown, edits, refusals, crashes>>

\* Mutant: the old Lens is not told to stop while a Beam is active.
DrainLeavesBusy(d) ==
    /\ At(d, "drain")
    /\ Becomes(d, [mem[d] EXCEPT !.pc = "dim",
           !.stopped = IF Active(d, mem[d].glow) = 0 THEN @ \cup {mem[d].glow} ELSE @])
    /\ UNCHANGED <<config, allocator, photons, beam, shown, counters>>

\* The old Lens is told to stop when its last Beam ends, or after two seconds.
Drain(d) ==
    /\ At(d, "drain")
    /\ Becomes(d, [mem[d] EXCEPT !.pc = "dim", !.stopped = @ \cup {mem[d].glow}])
    /\ UNCHANGED <<config, allocator, photons, beam, shown, counters>>

Complete(d) ==
    /\ At(d, "dim")
    /\ Appends(d, Photon("lens.afterglow-completed", mem[d].newEpoch, mem[d].glow,
                         Active(d, mem[d].glow)),
               [mem[d] EXCEPT !.pc = "afterglow", !.glow = None,
                   !.retired = @ \ {mem[d].glow}])
    /\ UNCHANGED <<config, allocator, beam, shown, edits, refusals, crashes>>

\* The end of reconcile.  The open around a first mount announces the daemon.
Finish(d) ==
    /\ At(d, "afterglow")
    /\ mem[d].retired = {}
    /\ IF mem[d].opened
         THEN Becomes(d, Returns(mem[d])) /\ UNCHANGED <<photons, faults>>
         ELSE Appends(d, Photon("system.started", mem[d].epoch, None, 0),
                      Returns(mem[d]))
    /\ UNCHANGED <<config, allocator, beam, shown, edits, refusals, crashes>>

\* A crash loses the memory of the daemon; it is launched again at once.
Crash(d) ==
    /\ crashes < MaxCrashes
    /\ mem[d] # Fresh
    /\ crashes' = crashes + 1
    /\ Becomes(d, Fresh)
    /\ beam' = [c \in Callers |-> IF Host[c] = d THEN NoBeam ELSE beam[c]]
    /\ UNCHANGED <<config, allocator, photons, shown, edits, faults, refusals>>
-----------------------------------------------------------------------------
(* Beams *)

\* The engine reads the light path and picks the Lens of its Act in it.
Aim(c) ==
    /\ beam[c].pc = "none"
    /\ mem[Host[c]].opened
    /\ \E m \in Mounts(mem[Host[c]].path) :
         beam' = [beam EXCEPT ![c] = [pc |-> "aimed", mount |-> m, stop |-> FALSE]]
    /\ UNCHANGED <<config, allocator, photons, mem, shown, counters>>

\* Mutant: a ticket is given out without a look at the closed generations.
AcquireUnchecked(c) ==
    /\ beam[c].pc = "aimed"
    /\ beam' = [beam EXCEPT ![c].pc = "held"]
    /\ UNCHANGED <<config, allocator, photons, mem, shown, counters>>

\* BeamRegistry::acquire.
Acquire(c) ==
    /\ beam[c].pc = "aimed"
    /\ beam' = [beam EXCEPT ![c] =
           IF beam[c].mount \in mem[Host[c]].closed THEN NoBeam
           ELSE [beam[c] EXCEPT !.pc = "held"]]
    /\ UNCHANGED <<config, allocator, photons, mem, shown, counters>>

Release(c) ==
    /\ beam[c].pc = "held"
    /\ beam' = [beam EXCEPT ![c] = NoBeam]
    /\ UNCHANGED <<config, allocator, photons, mem, shown, counters>>
-----------------------------------------------------------------------------
Reconcile(d) == \/ Allocate(d) \/ Observe(d) \/ Stage(d) \/ Refuse(d) \/ Commit(d)
                \/ RefuseInTheDark(d) \/ RefuseOther(d)
                \/ Close(d) \/ Publish(d) \/ Afterglow(d) \/ Drain(d)
                \/ Complete(d) \/ Finish(d)

Next == \/ \E l \in Lenses, a \in Artifacts \cup {Off} : Edit(l, a)
        \/ \E d \in Daemons : Load(d) \/ Reconcile(d) \/ Crash(d)
        \/ \E c \in Callers : Aim(c) \/ Acquire(c) \/ Release(c)

Spec == Init /\ [][Next]_vars
-----------------------------------------------------------------------------
(* Properties *)

\* The comment of BeamRegistry: once a generation is closed no new Beam can
\* target it.  So a Beam nobody told to stop runs on the path that is shown,
\* although its caller read the path before.
BeamsFollowThePath ==
    \A c \in Callers :
        beam[c].pc = "held" /\ ~beam[c].stop =>
            beam[c].mount \in Mounts(mem[Host[c]].path)

\* When reconcile is over, every Lens it ever retired was told to stop, as long as
\* the store takes every photon: an append that fails in the afterglow returns at
\* once, and the Lenses not yet reached are never told.
RetiredLensesStop ==
    \A d \in Daemons : faults = 0 /\ mem[d].opened /\ At(d, "idle") =>
        mem[d].closed \subseteq mem[d].stopped

\* The path that is shown respects what its Lenses themselves say of their order
\* and their needs, also when a file was changed between hashing and staging and
\* when one Lens is kept while another is replaced; and a candidate is refused for
\* its order only if there is none (runtime.cpp:475-519).
PathIsOrdered ==
    \A d \in Daemons :
        /\ \A l \in MountedIn(mem[d].path) :
             LET path == mem[d].path
                 manifest == ManifestOf(path, l)
             IN  /\ manifest.needs \subseteq MountedIn(path)
                 /\ \A k \in MountedIn(path) \ {l} :
                      /\ k \in manifest.needs \cup manifest.after => path[k].place < path[l].place
                      /\ k \in manifest.before => path[l].place < path[k].place
        /\ At(d, "stage") /\ mem[d].todo = {} =>
             LET candidate == mem[d].newPath
                 Respects(order) == \A i, j \in DOMAIN order :
                                      <<order[i], order[j]>> \in Edges(candidate) => i < j
             IN  \A listing \in Listings(candidate) :
                    (Len(Ordered(candidate, listing)) = Len(listing))
                      <=> \E order \in Listings(candidate) : Respects(order)

Atomic == INSTANCE AtomicMount WITH
    mounted <- [d \in Daemons |->
                  [epoch |-> mem[d].epoch,
                   gen |-> [l \in Lenses |-> mem[d].path[l].gen]]],
    history <- {[epoch |-> s.epoch, gen |-> [l \in Lenses |-> s.path[l].gen]] :
                   s \in shown}

\* All readers see is one atomic switch after another, with epochs and
\* generations that are new to every daemon on the database.
ImplementsAtomicMount == Atomic!Spec
=============================================================================
