------------------------------ MODULE Assembly ------------------------------
(***************************************************************************)
(* How a path of Lenses becomes an optical assembly                         *)
(* (compile_optical_assembly, src/nyxia/engine/optical_assembly.cpp).       *)
(*                                                                         *)
(* A specification has the Lenses by name, connections [from, out, to, in]   *)
(* between their numbered ports, the bindings inputs [port, to, in] and     *)
(* outputs [from, out, port] of a nested assembly, autowire, resonators     *)
(* [lenses, rounds, cells, executions], a budget [cells, executions], and   *)
(* denied: the connections that trust, sensitivity, audiences and process   *)
(* boundaries rule out.  A path is the sequence of its Lenses' names.       *)
(***************************************************************************)
EXTENDS Wavefront

LOCAL INSTANCE SequencesExt
LOCAL INSTANCE FiniteSetsExt

Lens(spec, name) == spec.lenses[name]

\* The endpoints that may be wired to an input that nothing is connected to.
Compatible(spec, to, in) ==
    {c \in UNION {{[from |-> f, out |-> o, to |-> to, in |-> in] :
                      o \in DOMAIN Lens(spec, f).outputs} : f \in DOMAIN spec.lenses \ {to}} :
        Lens(spec, c.from).outputs[c.out].band = Lens(spec, to).inputs[in].band}

Unwired(spec) ==
    {w \in UNION {{[to |-> n, in |-> i] : i \in DOMAIN Lens(spec, n).inputs} :
                     n \in DOMAIN spec.lenses} :
        /\ ~\E c \in spec.connections : c.to = w.to /\ c.in = w.in
        /\ ~\E b \in spec.inputs : b.to = w.to /\ b.in = w.in}

Autowired(spec) ==
    IF spec.autowire THEN UNION {Compatible(spec, w.to, w.in) : w \in Unwired(spec)} ELSE {}

Connections(spec) == spec.connections \cup Autowired(spec)

\* append_connection, and the unconnected inputs.
WellConnected(spec) ==
    /\ \A c \in Connections(spec) :
          /\ {c.from, c.to} \subseteq DOMAIN spec.lenses
          /\ c.out \in DOMAIN Lens(spec, c.from).outputs
          /\ c.in \in DOMAIN Lens(spec, c.to).inputs
          /\ Lens(spec, c.from).outputs[c.out].band = Lens(spec, c.to).inputs[c.in].band
    /\ Connections(spec) \cap spec.denied = {}
    /\ \A b \in spec.inputs : b.in \in DOMAIN Lens(spec, b.to).inputs
    /\ \A b \in spec.outputs : b.out \in DOMAIN Lens(spec, b.from).outputs
    /\ \A w \in Unwired(spec) :
          LET found == {c \in Connections(spec) : c.to = w.to /\ c.in = w.in}
          IN  /\ Cardinality(found) <= 1
              /\ found = {} => ~Lens(spec, w.to).inputs[w.in].required

\* What is checked of each Lens once it is connected.
WellFormed(spec) ==
    /\ \A n \in DOMAIN spec.lenses :
          /\ Lens(spec, n).trigger = "on_delta" => Lens(spec, n).monotone
          /\ \A o \in DOMAIN Lens(spec, n).outputs :
                Lens(spec, n).outputs[o].max <= spec.budget.cells
          /\ \A i \in DOMAIN Lens(spec, n).inputs :
                Lens(spec, n).inputs[i].one =>
                    Cardinality({c \in Connections(spec) : c.to = n /\ c.in = i})
                      + Cardinality({b \in spec.inputs : b.to = n /\ b.in = i}) <= 1
          /\ \A m \in DOMAIN spec.lenses \ {n} :
                Lens(spec, n).acts \cap Lens(spec, m).acts = {}
    /\ spec.budget.cells > 0 /\ spec.budget.executions > 0
-----------------------------------------------------------------------------
(* Tarjan's strongly connected components, over the positions of the path.   *)

Edges(spec, path) ==
    {<<i, j>> \in (1 .. Len(path)) \X (1 .. Len(path)) :
        \E c \in Connections(spec) : c.from = path[i] /\ c.to = path[j]}

Unvisited(n) == [discovery |-> [v \in 1 .. n |-> 0], low |-> [v \in 1 .. n |-> 0],
                 next |-> 1, stack |-> <<>>, components |-> <<>>]

\* An edge to a Lens that is still on the stack.
Lowered(s, v, t) ==
    IF t \in Range(s.stack) THEN [s EXCEPT !.low[v] = Min({@, s.discovery[t]})] ELSE s

RECURSIVE StrongConnect(_, _, _)
StrongConnect(edges, s, v) ==
    LET entered == [s EXCEPT !.discovery[v] = s.next, !.low[v] = s.next,
                             !.next = @ + 1, !.stack = Append(@, v)]
        Follow(r, t) ==
            IF r.discovery[t] # 0 THEN Lowered(r, v, t)
            ELSE LET below == StrongConnect(edges, r, t)
                 IN  [below EXCEPT !.low[v] = Min({@, below.low[t]})]
        left == FoldLeft(Follow, entered, SetToSortSeq({e[2] : e \in {d \in edges : d[1] = v}}, <))
        at == CHOOSE i \in DOMAIN left.stack : left.stack[i] = v
    IN  IF left.low[v] # left.discovery[v] THEN left
        ELSE [left EXCEPT
                 !.stack = SubSeq(@, 1, at - 1),
                 !.components = Append(@, ToSet(SubSeq(left.stack, at, Len(left.stack))))]

Components(edges, n) ==
    FoldLeft(LAMBDA s, v : IF s.discovery[v] = 0 THEN StrongConnect(edges, s, v) ELSE s,
             Unvisited(n), [v \in 1 .. n |-> v]).components

Cyclic(edges, component) ==
    Cardinality(component) > 1 \/ \E v \in component : <<v, v>> \in edges

\* What a cycle must be to be let in.
Resonant(spec, path, component) ==
    LET members == {path[v] : v \in component}
    IN  \E r \in spec.resonators :
            /\ r.lenses = members
            /\ r.rounds > 0
            /\ r.cells <= spec.budget.cells /\ r.executions <= spec.budget.executions
            /\ \A n \in members :
                  /\ Lens(spec, n).monotone /\ Lens(spec, n).trigger = "on_delta"
                  /\ Lens(spec, n).inProcess
                  /\ \A p \in Range(Lens(spec, n).inputs) \cup Range(Lens(spec, n).outputs) :
                        p.law \in LatticeLaws
-----------------------------------------------------------------------------
(* Layers: a component comes after all those that it takes light from.       *)

\* Mutant: the components run in the order in which they were found.
LevelsAsFound(edges, components) == [k \in DOMAIN components |-> k]

Levels(edges, components) ==
    LET Sources(k) == {j \in DOMAIN components \ {k} :
                          \E v \in components[j], w \in components[k] : <<v, w>> \in edges}
        level[k \in DOMAIN components] ==
            1 + Max({level[j] : j \in Sources(k)} \cup {0})
    IN  level

\* The components in the order of their layers and, within one, of their numbers.
Scheduled(edges, components) ==
    LET level == Levels(edges, components)
        Earlier(j, k) == level[j] < level[k] \/ (level[j] = level[k] /\ j < k)
        order == SetToSortSeq(DOMAIN components, Earlier)
    IN  [i \in DOMAIN order |-> components[order[i]]]

Refused == [ok |-> FALSE]

Compile(spec, path) ==
    LET edges == Edges(spec, path)
        components == Components(edges, Len(path))
        Step(component) ==
            [lenses |-> SetToSortSeq(component, <),
             resonators |-> IF Cyclic(edges, component)
                              THEN {r \in spec.resonators : r.lenses = {path[v] : v \in component}}
                              ELSE {}]
        steps == Scheduled(edges, components)
    IN  IF ~WellConnected(spec) \/ ~WellFormed(spec)
           \/ \E c \in Range(components) : Cyclic(edges, c) /\ ~Resonant(spec, path, c)
          THEN Refused
        ELSE [ok |-> TRUE, spec |-> spec, path |-> path, connections |-> Connections(spec),
              steps |-> [k \in DOMAIN steps |-> Step(steps[k])]]
=============================================================================
