------------------------------ MODULE MCMount ------------------------------
(* Instances of Mount for TLC. *)
EXTENDS Mount, TLC

CONSTANTS d1, c1, x1, x2

\* The Beams are in one daemon.
OneHost == [c \in Callers |-> d1]

\* The first artifact of a Lens has a lock and no wishes; the second has no lock,
\* one more permission, and needs all other Lenses before it.
OneNeedsAll ==
    [l \in Lenses |-> [a \in Artifacts |->
        [before |-> {}, after |-> {},
         needs |-> IF a = x2 THEN Lenses \ {l} ELSE {},
         permissions |-> IF a = x2 THEN {"emit", "process"} ELSE {"emit"},
         lock |-> IF a = x1 THEN [hash |-> x1, signature |-> "none"] ELSE NoLock]]]

Alike == Permutations(Lenses)
=============================================================================
