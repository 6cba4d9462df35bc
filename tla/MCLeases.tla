------------------------------ MODULE MCLeases ------------------------------
(* Small instances of Leases: a Desktop, a chat and a one-shot CLI command. *)
EXTENDS Leases, TLC

CONSTANTS desktop, chat, command

\* 250 ms, which is less than a heartbeat, and 15 s, cut down to one and two.
IdleOf == desktop :> 0 @@ chat :> 1 @@ command :> 2
=============================================================================
