----------------------------- MODULE RayPhotons -----------------------------
(***************************************************************************)
(* The photons of one ray, as the Lenses read them: a sequence in which a  *)
(* photon is known by its position.  A Lens keeps no state of its own; all *)
(* it knows it works out from this sequence, over and over.                *)
(*                                                                         *)
(* A photon carries the Act it is about (NoAct for the others) and one     *)
(* argument, whose meaning depends on its kind.                            *)
(***************************************************************************)
EXTENDS Integers, Sequences, FiniteSets, FiniteSetsExt

\* An Act: its kind, the photon it answers, and its argument.  The id that
\* LensBase::propose derives stands for these (and the epoch).
Act(kind, of, arg) == [kind |-> kind, of |-> of, arg |-> arg]
NoAct == Act("none", 0, 0)

Photon(kind, act, arg) == [kind |-> kind, act |-> act, arg |-> arg]
Said(kind, arg) == Photon(kind, NoAct, arg)

Positions(log, kinds) == {i \in DOMAIN log : log[i].kind \in kinds}

\* The position of the last photon of one of these kinds, 0 if there is none.
Latest(log, kinds) == Max(Positions(log, kinds) \cup {0})

\* How many photons of these kinds follow position i.
CountAfter(log, kinds, i) == Cardinality({j \in Positions(log, kinds) : j > i})

ActEnds == {"act.completed", "act.failed", "act.rejected"}

StartsOf(log, a) == {i \in Positions(log, {"act.started"}) : log[i].act = a}
EndsOf(log, a) ==
    {i \in Positions(log, ActEnds \cup {"act.outcome-unknown"}) : log[i].act = a}

\* The Acts that were started and never ended: what recover_inflight_acts looks for.
Inflight(log) ==
    {a \in {log[i].act : i \in Positions(log, {"act.started"})} : EndsOf(log, a) = {}}

\* What tells Janus and Techor that a tool has run.
ToolResults == {"tool.result", "fs.changed", "fs.read-completed",
                "process.exited", "process.timed-out", "process.cancelled"}
=============================================================================
