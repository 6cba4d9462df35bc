------------------------------- MODULE ActLog -------------------------------
(***************************************************************************)
(* The photon log, as far as the life of an Act is concerned.              *)
(*                                                                         *)
(* PhotonStore keeps one append-only table of photons ordered by sequence. *)
(* A photon here is [kind, ray, act]: its kind, the ray it belongs to and  *)
(* its caused_by_act column, NoAct when that column is empty.  Payloads,   *)
(* hashes and times are left out.  Everything that decides what happened   *)
(* to an Act reads only these three columns.                               *)
(***************************************************************************)
EXTENDS Integers, Sequences, FiniteSets

CONSTANT NoAct          \* the empty caused_by_act column

Photon(kind, ray, act) == [kind |-> kind, ray |-> ray, act |-> act]

(* The kinds recover_inflight_acts counts as the end of an Act.  A photon   *)
(* ends an Act only when it names one: the act.rejected photon of a refused *)
(* admission has an empty caused_by_act.                                    *)
TerminalKinds ==
    {"act.completed", "act.failed", "act.rejected", "act.outcome-unknown"}

Starts(p, a) == p.kind = "act.started" /\ p.act = a

Ends(p, a) == p.kind \in TerminalKinds /\ p.act = a

\* Act a was started and nothing has ended it since.
Open(l, a) ==
    \E i \in DOMAIN l : /\ Starts(l[i], a)
                        /\ \A j \in DOMAIN l : j > i => ~Ends(l[j], a)

\* What read_all() returns: the first "limit" photons, not the last ones.
ReadAll(l, limit) == SubSeq(l, 1, IF Len(l) < limit THEN Len(l) ELSE limit)

\* Mutant: recovery takes every started Act for unfinished.
UnsettledIgnoringEnds(h, acts) ==
    {a \in acts : \E i \in DOMAIN h : Starts(h[i], a)}

(* The work list of recover_inflight_acts over the photons h it has read:   *)
(* the Acts with a start and, anywhere in h, no terminal photon.            *)
Unsettled(h, acts) ==
    {a \in acts : /\ \E i \in DOMAIN h : Starts(h[i], a)
                  /\ \A j \in DOMAIN h : ~Ends(h[j], a)}

(* Every terminal photon closes a start of its own: since the last start of *)
(* its Act, it is the only one.                                             *)
TerminalsClose(l, acts) ==
    \A j \in DOMAIN l : \A a \in acts :
        Ends(l[j], a) =>
            \E i \in 1..(j - 1) : /\ Starts(l[i], a)
                                  /\ \A k \in (i + 1)..(j - 1) : ~Ends(l[k], a)
=============================================================================
