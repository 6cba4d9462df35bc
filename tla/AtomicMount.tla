---------------------------- MODULE AtomicMount ----------------------------
(***************************************************************************)
(* What TokmonRuntime::reconcile promises its readers: a daemon switches   *)
(* from one complete light path to the next in a single step, under an     *)
(* epoch no daemon ever had, and a Lens either keeps its generation or     *)
(* gets one that no Lens ever had.                                         *)
(***************************************************************************)
EXTENDS Naturals

CONSTANTS Daemons, Lenses

VARIABLES
    mounted,    \* the light path each daemon shows: [epoch, gen: Lenses -> Nat]
    history     \* every light path ever shown

Dark == [epoch |-> 0, gen |-> [l \in Lenses |-> 0]]

EverUsed(g) == \E shown \in history, l \in Lenses : shown.gen[l] = g

Init == /\ mounted = [d \in Daemons |-> Dark]
        /\ history = {}

Switch(d) ==
    LET old == mounted[d]
        new == mounted'[d]
    IN /\ mounted' = [mounted EXCEPT ![d] = new]
       /\ history' = history \cup {new}
       /\ new.epoch > old.epoch
       /\ \A shown \in history : shown.epoch # new.epoch
       /\ \A l \in Lenses :
            \/ new.gen[l] \in {0, old.gen[l]}
            \/ /\ ~EverUsed(new.gen[l])
               /\ \A k \in Lenses \ {l} : new.gen[k] # new.gen[l]

\* The daemon dies, or its first mount is not announced and is thrown away.
Lose(d) == /\ mounted' = [mounted EXCEPT ![d] = Dark]
           /\ UNCHANGED history

Next == \E d \in Daemons : Switch(d) \/ Lose(d)

Spec == Init /\ [][Next]_<<mounted, history>>
=============================================================================
