------------------------------ MODULE MCEngine ------------------------------
(***************************************************************************)
(* A small instance of Engine with a history variable: how many Acts a     *)
(* daemon started on a ray after that ray had been cancelled in it.        *)
(***************************************************************************)
EXTENDS Engine, TLC

CONSTANTS d1, c1, r1, a1, a2

\* The single caller that tokmond's runtime_mutex lets in, on one ray.
LoneHost == c1 :> d1
SameRay == a1 :> r1 @@ a2 :> r1

VARIABLES late

StartsOn(d, r) ==
    \E c \in CallersOf(d) : At(c, "start") /\ call'[c].pc = "run" /\ call[c].ray = r

LateInit == Init /\ late = [d \in Daemons |-> [r \in Rays |-> 0]]

LateNext ==
    /\ Next
    /\ late' = [d \in Daemons |-> [r \in Rays |->
                  IF proc'[d].phase = "down" THEN 0
                  ELSE IF r \in proc[d].cancelled /\ StartsOn(d, r)
                    THEN late[d][r] + 1 ELSE late[d][r]]]

LateSpec == LateInit /\ [][LateNext]_<<vars, late>> /\ Fairness

(* A cancelled ray starts at most the one Act whose call had already passed *)
(* the cancellation check of its beat; it starts none in any later beat.    *)
OneActAfterCancel == \A d \in Daemons : \A r \in Rays : late[d][r] <= 1
=============================================================================
