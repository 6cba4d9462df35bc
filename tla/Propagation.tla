---------------------------- MODULE Propagation ----------------------------
(***************************************************************************)
(* One beat: light goes through the layers of a compiled assembly           *)
(* (OpticalPropagator::propagate, src/nyxia/engine/optical_assembly.cpp),   *)
(* and what the Lenses make of it: the structural Lenses                    *)
(* (src/nyxia/engine/structural_lenses.cpp) and, as plain as can be, those  *)
(* of an author.                                                            *)
(*                                                                         *)
(* A Lens is [kind, own, inputs, outputs, trigger, monotone, inProcess, acts,*)
(* keys, limit, inner]; own is what it adds by itself, cells [out, key,      *)
(* value, priority, turn] that appear from that turn of the user on.  What  *)
(* it derives keeps its key and its priority.  A spent budget ends the beat  *)
(* with an error, as a conflict does.                                       *)
(***************************************************************************)
EXTENDS Assembly

LOCAL INSTANCE SequencesExt

RECURSIVE View(_, _, _, _), Propagate(_, _, _)

Emission(out, cell, causes) ==
    [out |-> out, key |-> cell.key, value |-> cell.value, priority |-> cell.priority,
     causes |-> causes]

Emitted(emissions) == [ok |-> TRUE, emissions |-> emissions]
ViewError == [ok |-> FALSE, emissions |-> <<>>]

\* Every cell of the incident wave, port by port.
Arriving(incident) ==
    FlattenSeq([p \in DOMAIN incident |-> InOrder(incident[p].cells)])

\* Identity, Splitter, Merge and Projection: each cell to each output.  A Prism
\* chooses the outputs by the key.
Copies(lens, incident) ==
    FlattenSeq([k \in DOMAIN Arriving(incident) |->
        LET cell == Arriving(incident)[k]
            outs == IF lens.kind = "prism" THEN {o \in DOMAIN lens.outputs : cell.key \in lens.keys[o]}
                                           ELSE DOMAIN lens.outputs
        IN  [i \in 1 .. Cardinality(outs) |->
                Emission(SetToSortSeq(outs, <)[i], cell, {cell})]])

\* The aperture lets the best cells through and reports on all of them.
ApertureView(lens, incident) ==
    LET cells == incident[1].cells
        \* By priority and path, then by id: the key is not looked at.
        Better(c, d) == c.priority > d.priority \/ (c.priority = d.priority /\ c.at < d.at)
        through == InOrder(BestBy(Better, cells, lens.limit))
        report == [key |-> 0, value |-> UNION {c.value : c \in cells}, priority |-> 0]
    IN  IF lens.limit = 0 THEN ViewError
        ELSE Emitted([i \in DOMAIN through |-> Emission(1, through[i], {through[i]})]
                     \o <<Emission(2, report, cells)>>)

\* Mutant: it proposes what is committed already.
DelayViewForgets(lens, name, incident, photons) ==
    LET shown == SetToSeq({c \in photons.committed : c.lens = name})
        rest == InOrder(incident[1].cells)
    IN  Emitted([i \in DOMAIN shown |-> Emission(1, shown[i], {})]
                \o [i \in DOMAIN rest |-> Emission(0, rest[i], {rest[i]})])

\* The cells that a delay has committed, and those that it has yet to.
Committed(name, photons) == {c \in photons.committed : c.lens = name}

Uncommitted(cells, name, photons) ==
    {c \in cells : ~\E d \in Committed(name, photons) : SameValue(c, d)}

\* The delay shows what the ray has committed, and proposes to commit the rest.
DelayView(lens, name, incident, photons) ==
    LET shown == SetToSeq(Committed(name, photons))
        rest == InOrder(Uncommitted(incident[1].cells, name, photons))
    IN  Emitted([i \in DOMAIN shown |-> Emission(1, shown[i], {})]
                \o [i \in DOMAIN rest |-> Emission(0, rest[i], {rest[i]})])

\* A per-key join, as an author would write it: one cell for what came together.
JoinView(incident) ==
    LET cells == UNION {incident[p].cells : p \in DOMAIN incident}
    IN  Emitted(<<[out |-> 1, key |-> FirstOf(cells).key, value |-> UNION {c.value : c \in cells},
                   priority |-> 0, causes |-> cells]>>)

\* The cells of the outer wave that a cell of the inner one comes from.
RECURSIVE Roots(_, _)
Roots(cell, outer) ==
    IF cell \in outer THEN {cell} ELSE UNION {Roots(c, outer) : c \in cell.causes}

\* OpticalAssemblyLens::create: every port of the boundary is bound, to ports of its
\* band, and the Acts of the Lenses inside are those of the box.
Boxable(boundary, inner) ==
    /\ Compile(inner.spec, inner.path).ok
    /\ {b.port : b \in inner.spec.inputs} = DOMAIN boundary.inputs
    /\ {b.port : b \in inner.spec.outputs} = DOMAIN boundary.outputs
    /\ \A b \in inner.spec.inputs :
          boundary.inputs[b.port].band = Lens(inner.spec, b.to).inputs[b.in].band
    /\ \A b \in inner.spec.outputs :
          boundary.outputs[b.port].band = Lens(inner.spec, b.from).outputs[b.out].band

Box(boundary, inner) ==
    [boundary EXCEPT !.kind = "assembly", !.inner = inner,
        !.acts = @ \cup UNION {Lens(inner.spec, n).acts : n \in DOMAIN inner.spec.lenses}]

\* OpticalAssemblyLens::refract: the Lens, however deep, that carries out an Act.
RECURSIVE Target(_, _, _)
Target(spec, name, act) ==
    LET inner == Lens(spec, name).inner.spec
    IN  IF Lens(spec, name).kind # "assembly" THEN name
        ELSE Target(inner, CHOOSE n \in DOMAIN inner.lenses : act \in Lens(inner, n).acts, act)

\* What the boundary of a box hands on from the beat within.
Handed(lens, incident, beat) ==
    LET outer == UNION {incident[p].cells : p \in DOMAIN incident}
        bindings == SetToSeq(lens.inner.spec.outputs)
        proposals == InOrder(Proposals(beat.wave))
        Pass(cells, out) == [i \in DOMAIN cells |-> Emission(out, cells[i], Roots(cells[i], outer))]
    IN  IF ~beat.ok THEN ViewError
        ELSE Emitted(FlattenSeq([k \in DOMAIN bindings |->
                         Pass(InOrder(Select(beat.wave, bindings[k].from, bindings[k].out)),
                              bindings[k].port)])
                     \o Pass(proposals, 0))

Inner(lens) == Compile(lens.inner.spec, lens.inner.path)

\* Mutant: a box that keeps from its Lenses what reaches it.
AssemblyViewBlind(lens, incident, photons) ==
    Handed(lens, incident, Propagate(Inner(lens), photons, <<>>))

\* OpticalAssemblyLens::view: a whole assembly within one Lens.
AssemblyView(lens, incident, photons) ==
    Handed(lens, incident, Propagate(Inner(lens), photons, incident))

View(lens, name, incident, photons) ==
    LET own == SelectSeq(lens.own, LAMBDA e : e.turn <= photons.turns)
    IN  CASE lens.kind \in {"copy", "prism"} ->
                Emitted([i \in DOMAIN own |-> Emission(own[i].out, own[i], {})]
                        \o Copies(lens, incident))
          [] lens.kind = "aperture" -> ApertureView(lens, incident)
          [] lens.kind = "delay"    -> DelayView(lens, name, incident, photons)
          [] lens.kind = "join"     -> JoinView(incident)
          [] lens.kind = "assembly" -> AssemblyView(lens, incident, photons)
-----------------------------------------------------------------------------
(* The head of execute_lens: the incident wave of a Lens *)

\* outside is the wave that a nested assembly is given, <<>> at the top.
Gather(a, wave, name, i, outside) ==
    LET port == Lens(a.spec, name).inputs[i]
        bound == {b \in a.spec.inputs : outside # <<>> /\ b.to = name /\ b.in = i}
        wires == {c \in a.connections : c.to = name /\ c.in = i}
        cells == UNION {outside[b.port].cells : b \in bound}
                   \cup UNION {Select(wave, c.from, c.out) : c \in wires}
    IN  IF bound = {} /\ wires = {} THEN Unconnected
        ELSE Connect(IF port.law = "top_k" THEN Cut(cells, port.max) ELSE cells, port)

Incident(a, wave, name, outside) ==
    [i \in DOMAIN Lens(a.spec, name).inputs |-> Gather(a, wave, name, i, outside)]

Waiting(a, name, incident) ==
    \E i \in DOMAIN incident :
        Lens(a.spec, name).inputs[i].required /\ incident[i].cells = {}

CellsOf(incident) == UNION {incident[i].cells : i \in DOMAIN incident}

\* One invocation, or one for every key that all required inputs have.
Invocations(a, name, incident) ==
    LET keys == {c.key : c \in CellsOf(incident)}
        ForKey(k) == [i \in DOMAIN incident |->
                         [incident[i] EXCEPT !.cells = {c \in @ : c.key = k}]]
        ready == {k \in keys : ~Waiting(a, name, ForKey(k))}
    IN  IF Lens(a.spec, name).trigger # "per_key_join" THEN <<incident>>
        ELSE [i \in 1 .. Cardinality(ready) |-> ForKey(SetToSortSeq(ready, <)[i])]
-----------------------------------------------------------------------------
(* The rest of execute_lens.  A beat in progress is [ok, wave, executed,    *)
(* executions]: for each Lens, the sets of cells it has been invoked with.   *)

Fails(s) == [s EXCEPT !.ok = FALSE]

\* append_cell: each cell counts against the limit of its own output, whatever the
\* output of those before it.
WithinLimits(a, lens, emissions) ==
    \A i \in DOMAIN emissions :
        i <= (IF emissions[i].out = 0 THEN a.spec.budget.cells
              ELSE lens.outputs[emissions[i].out].max)

MergeEmission(a, name, at, s, e) ==
    LET lens == Lens(a.spec, name)
        cell == [lens |-> name, at |-> at, port |-> e.out, key |-> e.key, value |-> e.value,
                 priority |-> e.priority, causes |-> e.causes]
        merged == IF e.out = 0 THEN MergeProposal(s.wave, cell)
                  ELSE Merge(s.wave, cell, lens.outputs[e.out].law, lens.outputs[e.out].max)
    IN  IF ~s.ok THEN s
        ELSE IF merged.ok THEN [s EXCEPT !.wave = merged.wave]
        ELSE Fails(s)

\* What a view that returned adds to the beat.
Record(a, name, at, s, viewed) ==
    LET merged == FoldLeft(LAMBDA r, e : MergeEmission(a, name, at, r, e), s, viewed.emissions)
    IN  IF \/ s.executions > a.spec.budget.executions
           \/ ~viewed.ok
           \/ ~WithinLimits(a, Lens(a.spec, name), viewed.emissions)
           \/ Cardinality(merged.wave) > a.spec.budget.cells
          THEN Fails(s)
        ELSE merged

Invoke(a, name, at, s, incident, photons) ==
    IF ~s.ok \/ CellsOf(incident) \in s.executed[at] THEN s
    ELSE Record(a, name, at,
                [s EXCEPT !.executed[at] = @ \cup {CellsOf(incident)}, !.executions = @ + 1],
                View(Lens(a.spec, name), name, incident, photons))

Execute(a, at, s, photons, outside) ==
    LET name == a.path[at]
        incident == Incident(a, s.wave, name, outside)
    IN  IF ~s.ok THEN s
        ELSE IF \E i \in DOMAIN incident : ~incident[i].ok THEN Fails(s)
        ELSE IF Waiting(a, name, incident) THEN s
        ELSE FoldLeft(LAMBDA r, inv : Invoke(a, name, at, r, inv, photons), s,
                      Invocations(a, name, incident))
-----------------------------------------------------------------------------
(* The layers *)

\* One round: the members of a step in the order of the path.
Round(a, members, s, photons, outside) ==
    FoldLeft(LAMBDA r, at : Execute(a, at, r, photons, outside), s, members)

MembersCells(wave, members) == {c \in wave : \E i \in DOMAIN members : members[i] = c.at}

RECURSIVE Resonate(_, _, _, _, _, _, _)

\* A round has changed s into after.
Goes(a, step, r, round, s, after, photons, outside) ==
    LET mine == MembersCells(after.wave, step.lenses)
        used == after.executions - s.executions
    IN  IF ~after.ok \/ Proposals(mine) # {} THEN Fails(after)
        ELSE IF after.wave = s.wave THEN after
        ELSE IF Cardinality(mine) > r.cells \/ used > r.executions THEN Fails(after)
        ELSE Resonate(a, step, [r EXCEPT !.executions = @ - used], round + 1, after,
                      photons, outside)

\* Mutant: the last round is not looked at.
ResonateShort(a, step, r, round, s, photons, outside) ==
    IF round + 1 >= r.rounds THEN Fails(s)
    ELSE Goes(a, step, r, round, s, Round(a, step.lenses, s, photons, outside), photons, outside)

\* A Resonator goes round until a round changes nothing.
Resonate(a, step, r, round, s, photons, outside) ==
    IF round = r.rounds THEN Fails(s)
    ELSE Goes(a, step, r, round, s, Round(a, step.lenses, s, photons, outside), photons, outside)

Propagate(a, photons, outside) ==
    LET Step(s, step) ==
            IF step.resonators = {} THEN Round(a, step.lenses, s, photons, outside)
            ELSE Resonate(a, step, CHOOSE r \in step.resonators : TRUE, 0, s, photons, outside)
        dark == [ok |-> TRUE, wave |-> {}, executed |-> [at \in DOMAIN a.path |-> {}],
                 executions |-> 0]
    IN  FoldLeft(Step, dark, a.steps)

\* The cells that the surface shows.
Surface(a, wave) ==
    {c \in wave : c.port # 0 /\ Lens(a.spec, c.lens).outputs[c.port].surface}
=============================================================================
