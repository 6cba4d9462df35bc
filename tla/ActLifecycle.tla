---------------------------- MODULE ActLifecycle ----------------------------
(***************************************************************************)
(* What the audit trail promises about an Act: its attempts follow one     *)
(* another, and each is settled once, after it was started and before the  *)
(* next one starts.  Nothing is said of how: by a Lens that returned, or   *)
(* by the recovery of a daemon that never saw the result.                  *)
(***************************************************************************)
EXTENDS Naturals

CONSTANT Acts

VARIABLES
    started,    \* how often the log says that an Act was started
    settled     \* how often it says that the Act has ended

Init == /\ started = [a \in Acts |-> 0]
        /\ settled = [a \in Acts |-> 0]

Start(a) == /\ started[a] = settled[a]
            /\ started' = [started EXCEPT ![a] = @ + 1]
            /\ UNCHANGED settled

Settle(a) == /\ settled[a] < started[a]
             /\ settled' = [settled EXCEPT ![a] = @ + 1]
             /\ UNCHANGED started

Next == \E a \in Acts : Start(a) \/ Settle(a)

Spec == Init /\ [][Next]_<<started, settled>>
=============================================================================
