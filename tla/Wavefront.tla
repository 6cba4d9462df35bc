----------------------------- MODULE Wavefront -----------------------------
(***************************************************************************)
(* The light of one beat (src/nyxia/base/wavefront.cpp): field cells, the   *)
(* laws that merge them, and what an input port makes of those it receives. *)
(*                                                                         *)
(* A cell is [lens, at, port, key, value, priority, causes]: its Lens and the *)
(* place of that in the path, the number of its output (0 for a proposal of *)
(* an Act), and the cells it was derived from.  Its id, a hash of all this,  *)
(* is the record itself; where the code orders by id, CHOOSE stands for the  *)
(* hash.  A value is a set of tokens.  Schemas, bytes and the photons of a   *)
(* cell's provenance are left out.                                          *)
(***************************************************************************)
EXTENDS Naturals, Sequences, FiniteSets

LOCAL INSTANCE SequencesExt

\* stable_cell_less, up to the id.
Precedes(c, d) ==
    \/ c.priority > d.priority
    \/ c.priority = d.priority /\ c.at < d.at
    \/ c.priority = d.priority /\ c.at = d.at /\ c.key < d.key

FirstBy(Better(_, _), cells) == CHOOSE c \in cells : \A d \in cells : ~Better(d, c)
BestBy(Better(_, _), cells, k) ==
    FoldLeft(LAMBDA best, i : IF best = cells THEN best
                              ELSE best \cup {FirstBy(Better, cells \ best)},
             {}, [i \in 1 .. k |-> i])

FirstOf(cells) == FirstBy(Precedes, cells)
Best(cells, k) == BestBy(Precedes, cells, k)

RECURSIVE InOrder(_)
InOrder(cells) ==
    IF cells = {} THEN <<>>
    ELSE <<FirstOf(cells)>> \o InOrder(cells \ {FirstOf(cells)})

SameScope(c, d) == c.lens = d.lens /\ c.port = d.port
SameValue(c, d) == c.key = d.key /\ c.value = d.value

\* The laws that a Resonator may use.
LatticeLaws == {"set_union", "map_union_unique", "top_k", "priority_then_path"}
-----------------------------------------------------------------------------
(* Wavefront::merge: one cell joins the wave, under the law of its output.   *)

Merged(cells) == [ok |-> TRUE, wave |-> cells]
Conflict == [ok |-> FALSE, wave |-> {}]

Merge(wave, cell, law, max) ==
    LET scope == {c \in wave : SameScope(c, cell)}
        rivals == {c \in scope : c.key = cell.key}
        Insert == IF law = "top_k"
                    THEN Merged((wave \ scope) \cup Best(scope \cup {cell}, max))
                  ELSE IF Cardinality(scope) >= max THEN Conflict
                  ELSE Merged(wave \cup {cell})
    IN  CASE cell \in wave -> Merged(wave)
          [] law \in {"set_union", "top_k"} /\ (\E c \in scope : SameValue(c, cell)) ->
                Merged(wave)
          [] law = "map_union_unique" /\ rivals # {} ->
                IF \A c \in rivals : SameValue(c, cell) THEN Merged(wave) ELSE Conflict
          [] law \in {"optional_single", "product"} /\ scope # {} ->
                IF SameValue(FirstOf(scope), cell) THEN Merged(wave) ELSE Conflict
          [] law = "priority_then_path" /\ rivals # {} ->
                Merged((wave \ rivals) \cup {FirstOf(rivals \cup {cell})})
          [] OTHER -> Insert

\* A proposal goes by the Act's id, which for a delay is that of key and value.
MergeProposal(wave, cell) ==
    LET same == {c \in wave : SameScope(c, cell) /\ SameValue(c, cell)}
    IN  IF \E c \in same : c.priority # cell.priority THEN Conflict
        ELSE IF same # {} THEN Merged(wave)
        ELSE Merged(wave \cup {cell})

Select(wave, lens, port) == {c \in wave : c.lens = lens /\ c.port = port}
Proposals(wave) == {c \in wave : c.port = 0}
-----------------------------------------------------------------------------
(* IncidentWave::connect: what an input port makes of the cells that arrive. *)

Connect(cells, port) ==
    LET Firsts(Same(_, _)) == {c \in cells : c = FirstOf({d \in cells : Same(c, d)})}
        SameKey(c, d) == c.key = d.key
        kept == CASE port.law \in {"set_union", "top_k"} -> Firsts(SameValue)
                  [] port.law \in {"map_union_unique", "priority_then_path"} -> Firsts(SameKey)
                  [] OTHER -> cells
        left == IF port.law = "top_k" THEN Best(kept, port.max) ELSE kept
        single == port.one \/ port.law \in {"optional_single", "product"}
    IN  [ok |-> /\ port.law = "map_union_unique" =>
                       \A c, d \in cells : SameKey(c, d) => SameValue(c, d)
                /\ Cardinality(left) <= (IF single THEN 1 ELSE port.max),
         connected |-> TRUE,
         cells |-> left]

Unconnected == [ok |-> TRUE, connected |-> FALSE, cells |-> {}]

\* The engine has cut what arrives at a top_k port before that, by priority and id.
Cut(cells, k) == BestBy(LAMBDA c, d : c.priority > d.priority, cells, k)
=============================================================================
