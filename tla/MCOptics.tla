------------------------------ MODULE MCOptics ------------------------------
(* Small assemblies for OpticalRay. *)
EXTENDS OpticalRay, FiniteSets

In(band) == [band |-> band, law |-> "set_union", max |-> 8, one |-> FALSE, required |-> FALSE]
Out(band) == [band |-> band, law |-> "set_union", max |-> 8, surface |-> TRUE]
Own(out, key, value, priority, turn) ==
    [out |-> out, key |-> key, value |-> value, priority |-> priority, turn |-> turn]

NoBox == [name |-> "none", edges |-> {}, guarded |-> FALSE]
NoInner == [spec |-> [outputs |-> {}], path |-> <<>>]

Plain(kind, own, inputs, outputs) ==
    [kind |-> kind, own |-> own, inputs |-> inputs, outputs |-> outputs,
     trigger |-> "on_delta", monotone |-> TRUE, inProcess |-> TRUE, acts |-> {},
     keys |-> <<>>, limit |-> 2, inner |-> NoInner]

Wire(from, out, to, in) == [from |-> from, out |-> out, to |-> to, in |-> in]

Spec0(lenses, connections, path) ==
    [lenses |-> lenses, connections |-> connections, path |-> path,
     inputs |-> {}, outputs |-> {}, autowire |-> FALSE, resonators |-> {},
     denied |-> {}, budget |-> [cells |-> 40, executions |-> 40],
     relays |-> FALSE, boxes |-> NoBox]
-----------------------------------------------------------------------------
(* Every graph of three relays, on every path, with its cycles declared or not. *)

Names == {"a", "b", "c"}
Relay(name) == Plain("copy", <<Own(1, 1, {name}, 0, 1)>>, <<In("x")>>, <<Out("x")>>)

Rounds(set, rounds) == [lenses |-> set, rounds |-> rounds, cells |-> 9, executions |-> 12]

Relays(edges, guarded) ==
    [Spec0([n \in Names |-> Relay(n)], {Wire(e[1], 1, e[2], 1) : e \in edges}, <<"a", "b", "c">>)
       EXCEPT !.relays = TRUE,
              !.resonators = IF guarded
                  THEN {Rounds(set, Cardinality(set) + 1) : set \in SUBSET Names \ {{}}}
                  ELSE {}]
-----------------------------------------------------------------------------
(* Structural Lenses *)

Source == Plain("copy", <<Own(1, 1, {"p"}, 1, 1), Own(1, 2, {"q"}, 3, 1), Own(1, 3, {"r"}, 2, 2),
                    Own(1, 2, {"u"}, 0, 2)>>,
                <<>>, <<Out("x")>>)

Sink == Plain("copy", <<>>, <<In("x")>>, <<Out("shown")>>)

Prism == [Plain("prism", <<>>, <<In("x")>>, <<Out("y"), Out("z")>>)
            EXCEPT !.keys = <<{1, 2}, {2, 3}>>]

Join == [Plain("join", <<>>,
               <<[In("y") EXCEPT !.required = TRUE], [In("z") EXCEPT !.required = TRUE]>>,
               <<[Out("x") EXCEPT !.law = "map_union_unique"]>>)
           EXCEPT !.trigger = "per_key_join"]

Narrow(in, out, law, max) ==
    Plain("copy", <<>>, <<[In(in) EXCEPT !.law = law, !.max = max]>>,
                        <<[Out(out) EXCEPT !.law = law, !.max = max]>>)

Aperture == Plain("aperture", <<>>, <<In("x")>>,
                  <<Out("x"), [Out("report") EXCEPT !.law = "map_union_unique"]>>)

\* Light is divided by its key, comes together again and is looked at.
Divided ==
    Spec0([n \in {"s", "prism", "join", "t"} |->
              CASE n = "s" -> Source [] n = "prism" -> Prism [] n = "join" -> Join [] OTHER -> Sink],
          {Wire("s", 1, "prism", 1), Wire("prism", 1, "join", 1), Wire("prism", 2, "join", 2),
           Wire("join", 1, "t", 1)},
          <<"s", "prism", "join", "t">>)

\* A cycle that keeps its best cell only, behind a choice among the others.
Chosen(law) ==
    [Spec0([n \in {"s", "best", "loop", "hold"} |->
              CASE n = "s" -> Source [] n = "best" -> Aperture
                [] n = "loop" -> Narrow("x", "x", law, 2) [] OTHER -> Narrow("x", "x", law, 2)],
           {Wire("s", 1, "best", 1), Wire("best", 1, "loop", 1), Wire("loop", 1, "hold", 1),
            Wire("hold", 1, "loop", 1)},
           <<"s", "best", "loop", "hold">>)
       EXCEPT !.resonators = {Rounds({"loop", "hold"}, 3)}]

Delay == [Plain("delay", <<>>, <<In("x")>>, <<Out("x")>>)
            EXCEPT !.trigger = "once_when_ready", !.monotone = FALSE,
                   !.acts = {"optical.delay.commit"}]

Delayed ==
    [Spec0([n \in {"s", "delay", "t"} |->
               CASE n = "s" -> Source [] n = "delay" -> Delay
                 [] n = "t" -> [Sink EXCEPT !.inputs = <<[In("y") EXCEPT !.band = "d"]>>]],
           {Wire("s", 1, "delay", 1)}, <<"s", "delay", "t">>)
       EXCEPT !.autowire = TRUE, !.lenses["delay"].outputs = <<Out("d")>>]

\* A value that goes back to where it came from, through the delay.
Circular ==
    Spec0([n \in {"r", "delay"} |-> IF n = "r" THEN Relay("r") ELSE Delay],
          {Wire("r", 1, "delay", 1), Wire("delay", 1, "r", 1)}, <<"r", "delay">>)

\* The source, then a prism with an aperture, boxed or not, then the sink.
Middle == [n \in {"prism", "best"} |->
              IF n = "prism" THEN Prism ELSE [Aperture EXCEPT !.inputs = <<In("y")>>,
                                                             !.outputs[1] = Out("x")]]

Hidden(lens) == [lens EXCEPT !.outputs = [o \in DOMAIN lens.outputs |->
                                              [lens.outputs[o] EXCEPT !.surface = FALSE]]]

Flat == Spec0([n \in {"s", "prism", "best", "t"} |->
                  CASE n = "s" -> Hidden(Source) [] n = "t" -> Sink
                    [] OTHER -> Hidden(Middle[n])],
              {Wire("s", 1, "prism", 1), Wire("prism", 1, "best", 1), Wire("best", 1, "t", 1)},
              <<"s", "prism", "best", "t">>)

Inside == [Spec0(Middle, {Wire("prism", 1, "best", 1)}, <<"prism", "best">>)
             EXCEPT !.inputs = {[port |-> 1, to |-> "prism", in |-> 1]},
                    !.outputs = {[from |-> "best", out |-> 1, port |-> 1]}]

Boundary == Plain("assembly", <<>>, <<In("x")>>, <<[Out("x") EXCEPT !.surface = FALSE]>>)
InBox(inside) == Box(Boundary, [spec |-> inside, path |-> inside.path])

Id(name) == [name |-> name, edges |-> {}, guarded |-> FALSE]

Boxed(inside, flat) ==
    [Spec0([n \in {"s", "box", "t"} |->
               CASE n = "s" -> Hidden(Source) [] n = "t" -> Sink [] OTHER -> InBox(inside)],
           {Wire("s", 1, "box", 1), Wire("box", 1, "t", 1)}, <<"s", "box", "t">>)
        EXCEPT !.boxes = Id(flat)]

\* The delay in a box of its own.
DelayInside == [Spec0([n \in {"delay"} |-> Delay], {}, <<"delay">>)
                  EXCEPT !.inputs = {[port |-> 1, to |-> "delay", in |-> 1]},
                         !.outputs = {[from |-> "delay", out |-> 1, port |-> 1]}]

FlatDelay == Spec0([n \in {"s", "delay", "t"} |->
                      CASE n = "s" -> Hidden(Source) [] n = "t" -> Sink [] OTHER -> Hidden(Delay)],
                   {Wire("s", 1, "delay", 1), Wire("delay", 1, "t", 1)}, <<"s", "delay", "t">>)

Named == [divided |-> Divided, top |-> Chosen("top_k"), first |-> Chosen("priority_then_path"),
          delayed |-> Delayed, circular |-> Circular, flat |-> Flat, flatDelay |-> FlatDelay,
          boxed |-> Boxed(Inside, "flat"),
          boxedDelay |-> Boxed(DelayInside, "flatDelay")]

Graphs == [name : {"graph"}, edges : SUBSET (Names \X Names), guarded : BOOLEAN]

Library == [id \in Graphs \cup {Id(n) : n \in DOMAIN Named} |->
               IF id \in Graphs THEN Relays(id.edges, id.guarded) ELSE Named[id.name]]
-----------------------------------------------------------------------------
Permutations3(set) == {p \in [1 .. Cardinality(set) -> set] : \A i, j \in DOMAIN p : p[i] = p[j] => i = j}
AnyPath(spec) == Permutations3(DOMAIN spec.lenses)
=============================================================================
