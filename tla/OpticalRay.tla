----------------------------- MODULE OpticalRay -----------------------------
(***************************************************************************)
(* A ray under an optical assembly: a path is published or refused, each    *)
(* beat lets light go through it, and a CausalDelay carries light from one   *)
(* beat to a later one by an Act and the photon that it leaves.             *)
(***************************************************************************)
EXTENDS Propagation

LOCAL INSTANCE SequencesExt

CONSTANTS
    Assemblies,     \* the specifications to choose from, by name
    PathsOf(_),     \* and the paths that each is published on
    MaxTurns,       \* bound: turns of the user
    MaxFailures     \* bound: beats and commits that fail or are lost in a crash

VARIABLES
    assembly,       \* the name of the specification
    compiled,       \* what the path and it compile to
    pc,             \* where the engine is
    beat,           \* the outcome of the last beat
    turns, photons, \* the user's inputs, and the delays committed, in order
    failures

vars == <<assembly, compiled, pc, beat, turns, photons, failures>>

NoBeat == [ok |-> FALSE, wave |-> {}, executed |-> <<>>, executions |-> 0]

BoxesFit(spec) ==
    \A n \in DOMAIN spec.lenses :
        Lens(spec, n).kind = "assembly" => Boxable(Lens(spec, n), Lens(spec, n).inner)

Init == /\ assembly \in DOMAIN Assemblies
        /\ \E path \in PathsOf(Assemblies[assembly]) :
               compiled = Compile(Assemblies[assembly], path)
        /\ pc = IF compiled.ok /\ BoxesFit(compiled.spec) THEN "dark" ELSE "refused"
        /\ beat = NoBeat
        /\ turns = 0 /\ photons = <<>> /\ failures = 0

Seen == [turns |-> turns, committed |-> ToSet(photons)]

Input ==
    /\ pc \in {"dark", "failed", "lost"} /\ turns < MaxTurns
    /\ turns' = turns + 1
    /\ pc' = "beat"
    /\ UNCHANGED <<assembly, compiled, beat, photons, failures>>

\* RayTracingEngine::advance: one beat.  An error of the beat ends the call.
Beat ==
    /\ pc = "beat"
    /\ beat' = Propagate(compiled, Seen, <<>>)
    /\ pc' = IF ~beat'.ok THEN "failed"
             ELSE IF Proposals(beat'.wave) = {} THEN "dark" ELSE "act"
    /\ UNCHANGED <<assembly, compiled, turns, photons, failures>>

\* A deadline passes, or the view of an author's Lens fails: nothing is left of it.
BeatFails ==
    /\ pc = "beat" /\ failures < MaxFailures
    /\ failures' = failures + 1
    /\ pc' = "lost"
    /\ beat' = NoBeat
    /\ UNCHANGED <<assembly, compiled, turns, photons>>

\* The first proposal of the surface: of one Lens, that with the least hash.
Foremost == {c \in Proposals(beat.wave) : \A d \in Proposals(beat.wave) : c.at <= d.at}

\* CausalDelayLens::refract leaves the photon.
Commit ==
    /\ pc = "act"
    /\ \E c \in Foremost :
          photons' = Append(photons,
              [lens |-> Target(compiled.spec, c.lens, "optical.delay.commit"),
               key |-> c.key, value |-> c.value, priority |-> c.priority])
    /\ pc' = "beat"
    /\ UNCHANGED <<assembly, compiled, beat, turns, failures>>

\* The Act fails or is lost in a crash, and ends the call of advance: that of the
\* user's next turn proposes it again.
CommitFails ==
    /\ pc = "act" /\ failures < MaxFailures
    /\ failures' = failures + 1
    /\ pc' = "lost"
    /\ UNCHANGED <<assembly, compiled, beat, turns, photons>>

Next == Input \/ Beat \/ BeatFails \/ Commit \/ CommitFails

Spec == Init /\ [][Next]_vars
-----------------------------------------------------------------------------
Lit == pc \in {"act", "dark"} /\ beat.ok

(* The components of a path are the classes of Lenses that reach each other, *)
(* and every cycle that is let in has been declared as a Resonator.          *)
Reaches(edges, n) ==
    LET Further(set) == set \cup {<<v, w>> \in (1 .. n) \X (1 .. n) :
                                      \E u \in 1 .. n : <<v, u>> \in set /\ <<u, w>> \in set}
        reach[k \in 0 .. n] == IF k = 0 THEN edges ELSE Further(reach[k - 1])
    IN  reach[n]

(* No Lens of a beat that succeeds has the last word on stale light: each has *)
(* been invoked with the very cells that reach it in the end.                *)
NoLensSeesStaleLight ==
    Lit => \A at \in DOMAIN compiled.path :
        LET name == compiled.path[at]
            incident == Incident(compiled, beat.wave, name, <<>>)
        IN  /\ \A i \in DOMAIN incident : incident[i].ok
            /\ ~Waiting(compiled, name, incident) =>
                  \A k \in DOMAIN Invocations(compiled, name, incident) :
                      CellsOf(Invocations(compiled, name, incident)[k]) \in beat.executed[at]

(* Relays add a token and pass on what they get: in the end the token of each *)
(* is wherever a chain of connections leads, around cycles too, however the   *)
(* path orders the Lenses.  Rounds as many as the Lenses and one suffice.     *)
LightGoesEverywhere ==
    compiled.ok /\ Assemblies[assembly].relays /\ turns > 0 /\ pc \in {"dark", "act", "failed"} =>
        /\ beat.ok
        /\ LET n == Len(compiled.path)
               reach == Reaches(Edges(compiled.spec, compiled.path), n)
           IN  \A v \in 1 .. n :
                  UNION {c.value : c \in Select(beat.wave, compiled.path[v], 1)}
                    = {compiled.path[w] : w \in {v} \cup {u \in 1 .. n : <<u, v>> \in reach}}

\* What cells say, whatever the place of their Lens and the cells behind them.
Content(cells) ==
    {[lens |-> c.lens, port |-> c.port, key |-> c.key, value |-> c.value,
      priority |-> c.priority] : c \in cells}

(* An assembly in a box shows what it shows without one.                     *)
BoxesAreTransparent ==
    Lit /\ Assemblies[assembly].boxes \in DOMAIN Assemblies =>
        LET flat == Compile(Assemblies[Assemblies[assembly].boxes],
                            Assemblies[Assemblies[assembly].boxes].path)
        IN  Content(Surface(compiled, beat.wave)) =
                Content(Surface(flat, Propagate(flat, Seen, <<>>).wave))

(* A delay commits a value once, however often its Act fails.                *)
DelaysCommitOnce ==
    \A i, j \in DOMAIN photons :
        /\ SameValue(photons[i], photons[j]) /\ photons[i].lens = photons[j].lens
        => i = j
=============================================================================
