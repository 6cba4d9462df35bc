-------------------------------- MODULE Beat --------------------------------
(***************************************************************************)
(* The engine's advance over one ray, as the Lenses of the ray see it.     *)
(* Module Engine has the engine's own detail; here a beat is the proposal  *)
(* (with its admission), the photons the Lens emits one by one, and the    *)
(* terminal photon.  A crash may come between any two of them.  tokmond lets  *)
(* one request at a time at the runtime; only a cancel comes in between.     *)
(***************************************************************************)
EXTENDS RayPhotons

CONSTANTS
    MaxBeats,       \* config_.max_beats
    MaxDisturbances \* bound: failing appends, cancels, crashes and the like

VARIABLES
    log,            \* the photons of the ray
    beat,           \* the stack of advance
    cancelled,      \* the ray is in cancelled_rays_
    disturbances

beatVars == <<log, beat, cancelled, disturbances>>

\* todo is what the Lens still has to emit, result how its refract will end; once
\* tells a client's refract from a beat of advance.
Idle == [pc |-> "idle", beats |-> 0, act |-> NoAct, todo |-> <<>>, result |-> "none",
         once |-> FALSE]

BeatInit == /\ log = <<>>
            /\ beat = Idle
            /\ cancelled = FALSE
            /\ disturbances = 0

Disturbs == /\ disturbances < MaxDisturbances
            /\ disturbances' = disturbances + 1

\* An append that leads to one frame, or to another when the store fails it.
Appends(photon, frame, failed) ==
    \/ /\ log' = Append(log, photon)
       /\ beat' = frame
       /\ UNCHANGED disturbances
    \/ /\ Disturbs
       /\ beat' = failed
       /\ UNCHANGED log

Ends(result) == [beat EXCEPT !.pc = "finish", !.todo = <<>>, !.result = result]

\* continue_ray, which tokmond follows by advance.  A cancelled ray takes no input.
Submit(arg) ==
    /\ beat.pc = "idle" /\ ~cancelled
    /\ Appends(Said("user.input", arg), [Idle EXCEPT !.pc = "check"], Idle)
    /\ UNCHANGED cancelled

\* The head of the loop: the budget of beats, then the cancelled rays.
Check ==
    /\ beat.pc = "check"
    /\ IF beat.beats >= MaxBeats THEN Appends(Said("ray.budget-exhausted", 0), Idle, Idle)
       ELSE IF cancelled THEN Appends(Said("ray.cancelled", 0), Idle, Idle)
       ELSE beat' = [beat EXCEPT !.pc = "view"] /\ UNCHANGED <<log, disturbances>>
    /\ UNCHANGED cancelled

\* The first proposal goes to its Lens, is refused, or the ray goes dark, which is
\* the one success of advance.  A refusal is recorded without the Act's id.
View(act, admitted) ==
    /\ beat.pc = "view"
    /\ IF act = NoAct THEN Appends(Said("ray.darkened", 0), [Idle EXCEPT !.pc = "dark"], Idle)
       ELSE IF ~admitted THEN Appends(Said("act.rejected", 0), Idle, Idle)
       ELSE Appends(Photon("act.started", act, 0),
                    [beat EXCEPT !.pc = "run", !.act = act], Idle)
    /\ UNCHANGED cancelled

Return ==
    /\ beat.pc = "dark"
    /\ beat' = Idle
    /\ UNCHANGED <<log, cancelled, disturbances>>

\* refract, called by a client: one Act of its own, without a beat.
Refract(act, admitted) ==
    /\ beat.pc = "idle"
    /\ log' = Append(log, IF admitted THEN Photon("act.started", act, 0)
                                      ELSE Said("act.rejected", 0))
    /\ beat' = IF admitted THEN [Idle EXCEPT !.pc = "run", !.act = act, !.once = TRUE]
                           ELSE Idle
    /\ UNCHANGED <<cancelled, disturbances>>

\* The Lens has done its work and begins to emit.
Runs(todo, result) ==
    /\ beat' = [beat EXCEPT !.pc = "emit", !.todo = todo, !.result = result]
    /\ UNCHANGED <<log, cancelled, disturbances>>

\* RefractionBeam::emit, one photon; its error ends the Lens call.  A cancel makes
\* it refuse as soon as the stop flag has reached the Beam.
Emit ==
    /\ beat.pc = "emit"
    /\ \/ beat.todo = <<>> /\ beat' = Ends(beat.result) /\ UNCHANGED <<log, disturbances>>
       \/ /\ beat.todo # <<>> /\ cancelled
          /\ beat' = Ends("cancelled") /\ UNCHANGED <<log, disturbances>>
       \/ /\ beat.todo # <<>>
          /\ Appends(Head(beat.todo), [beat EXCEPT !.todo = Tail(@)], Ends("error"))
    /\ UNCHANGED cancelled

TerminalOf ==
    [completed |-> "act.completed", failed |-> "act.failed", rejected |-> "act.rejected"]

\* The terminal photon.  A status lets the loop go on, an error ends the call.
Finish ==
    /\ beat.pc = "finish"
    /\ CASE beat.result \in DOMAIN TerminalOf ->
              Appends(Photon(TerminalOf[beat.result], beat.act, 0),
                      IF beat.once THEN Idle
                      ELSE [Idle EXCEPT !.pc = "check", !.beats = beat.beats + 1],
                      Idle)
         [] beat.result = "error" ->
              Appends(Photon("act.failed", beat.act, 0), Idle, Idle)
         [] beat.result = "cancelled" ->
              Appends(Photon("act.failed", beat.act, 0),
                      [beat EXCEPT !.pc = "abort"], Idle)
    /\ UNCHANGED cancelled

Abort ==
    /\ beat.pc = "abort"
    /\ Appends(Said("ray.cancelled", 0), Idle, Idle)
    /\ UNCHANGED cancelled

\* cancel_ray: the ray stays cancelled for the life of the process.
CancelRay ==
    /\ ~cancelled /\ log # <<>> /\ beat.pc # "recover"
    /\ Disturbs
    /\ cancelled' = TRUE
    /\ UNCHANGED <<log, beat>>

\* The daemon dies.
Crash ==
    /\ Disturbs
    /\ beat' = [Idle EXCEPT !.pc = "recover"]
    /\ cancelled' = FALSE
    /\ UNCHANGED log

\* recover_inflight_acts, in the next process and before it serves anyone: one photon
\* for each Act that was started and has no end.  An Act that was started again after
\* an end has one.
Recover ==
    /\ beat.pc = "recover"
    /\ \/ Inflight(log) = {} /\ beat' = Idle /\ UNCHANGED log
       \/ \E act \in Inflight(log) :
             log' = Append(log, Photon("act.outcome-unknown", act, 0)) /\ UNCHANGED beat
    /\ UNCHANGED <<cancelled, disturbances>>

BeatStep == Check \/ Emit \/ Finish \/ Abort \/ Recover
=============================================================================
