----------------------------- MODULE MCTokmond ------------------------------
(* Small instances of Tokmond: requests that are sent once or twice. *)
EXTENDS Tokmond, TLC

CONSTANTS first, again, one

OneRequest == first :> one @@ again :> one
=============================================================================
