------------------------------- MODULE Engine -------------------------------
(***************************************************************************)
(* The optical engine of a Tokmon daemon (src/nyxia/engine), the Beam      *)
(* registry it draws tickets from (src/nyxia/mount) and the crash recovery *)
(* that runs before it (recover_inflight_acts in src/nyxia/runtime), over  *)
(* the photon log they share.                                              *)
(*                                                                         *)
(* A Caller is a thread inside RayTracingEngine::advance; between two      *)
(* photons it appends, any other caller, cancellation, remount or daemon   *)
(* may move.  Lenses are the environment: view proposes any Act the Lenses *)
(* may propose, refract ends in any of the ways refract can end.           *)
(*                                                                         *)
(* Left out: payloads and hashes; Act validation other than the epoch      *)
(* check (it is one more way to be refused); the photons a Lens emits      *)
(* during refract (they open and end no Act).  One Lens is mounted and     *)
(* every remount replaces it, so that its generation is its epoch.         *)
(***************************************************************************)
EXTENDS ActLog

CONSTANTS
    Daemons,        \* processes sharing the photon database
    Callers,        \* threads that advance rays
    Host,           \* the daemon each caller runs in
    Rays,
    NoRay,          \* no ray at all
    Acts,           \* Act ids
    RayOf,          \* the ray an Act belongs to (its id is derived from it)
    Derived,        \* Acts whose id a Lens derives from the photon it answers
    Window,         \* default limit of read_all(): 4096 in the code
    MaxBeats,       \* config_.max_beats
    MaxInputs,      \* bound: user inputs in the log
    MaxEpoch,       \* bound: mounts
    MaxCancels,     \* bound: rays cancelled in one daemon
    MaxCrashes,     \* bound: crashes and stops, of all daemons
    MaxFaults       \* bound: appends that the store fails

ASSUME HostAssumption == Host \in [Callers -> Daemons]
ASSUME RayOfAssumption == RayOf \in [Acts -> Rays] /\ NoRay \notin Rays
ASSUME ActAssumption == Derived \subseteq Acts /\ NoAct \notin Acts
ASSUME BoundAssumption ==
    {Window, MaxBeats, MaxInputs, MaxEpoch, MaxCancels, MaxCrashes, MaxFaults}
        \subseteq Nat

VARIABLES
    log,        \* the photons table
    lastEpoch,  \* the mount_allocator row
    proc,       \* the memory of each daemon
    call,       \* the stack of each caller
    crashes, faults

vars == <<log, lastEpoch, proc, call, crashes, faults>>

Kinds == {"user.input", "act.proposed", "act.admitted", "act.started",
          "ray.cancelled", "ray.darkened", "ray.budget-exhausted",
          "system.started"} \cup TerminalKinds

\* How ILens::refract can end: the three statuses, an error, the error "cancelled".
Results == {"act.completed", "act.rejected", "act.failed", "error", "cancelled"}

Down == [phase |-> "down", unsettled |-> {}, stopping |-> FALSE,
         cancelled |-> {}, stopQueue |-> {}, path |-> 0, closed |-> {}]

Idle == [pc |-> "idle", ray |-> NoRay, act |-> NoAct, viewed |-> 0, snap |-> 0,
         beats |-> 0, stop |-> FALSE, result |-> "none"]

Init == /\ log = <<>>
        /\ lastEpoch = 0
        /\ proc = [d \in Daemons |-> Down]
        /\ call = [c \in Callers |-> Idle]
        /\ crashes = 0
        /\ faults = 0
-----------------------------------------------------------------------------
(* Helpers *)

Of(c) == proc[Host[c]]

At(c, pc) == call[c].pc = pc

CallersOf(d) == {c \in Callers : Host[c] = d}

\* The callers that hold a ticket of the Beam registry: from acquire to release.
Beams(d) == {c \in CallersOf(d) : call[c].pc \in {"start", "run"}}

Returns(c, frame) == call' = [call EXCEPT ![c] = frame]

(* RayTracingEngine::emit.  It refuses once the engine is stopping, and the *)
(* store may fail; each emitter then returns the error to its caller.       *)
Emits(c, photon, frame) ==
    \/ /\ ~Of(c).stopping
       /\ log' = Append(log, photon)
       /\ Returns(c, frame)
       /\ UNCHANGED faults
    \/ /\ Of(c).stopping
       /\ Returns(c, Idle)
       /\ UNCHANGED <<log, faults>>
    \/ /\ faults < MaxFaults
       /\ faults' = faults + 1
       /\ Returns(c, Idle)
       /\ UNCHANGED log

\* audit_act: a photon that names the Act the caller carries.
Audits(c, kind, frame) ==
    Emits(c, Photon(kind, call[c].ray, call[c].act), frame)

(* What the Lenses may propose on a ray.  A derived id is proposed again    *)
(* and again until the Act has completed (Techor, LensBase::propose); any   *)
(* other id is made fresh for one proposal (make_id).                       *)
Proposable(r) ==
    {a \in Acts : /\ RayOf[a] = r
                  /\ \A i \in DOMAIN log :
                        log[i].act = a => /\ a \in Derived
                                          /\ log[i].kind # "act.completed"}

Inputs == Cardinality({i \in DOMAIN log : log[i].kind = "user.input"})
-----------------------------------------------------------------------------
(* One call of advance(ray) *)

(* continue_ray: a cancelled ray accepts no input.  The check and the       *)
(* append are separate critical sections.  The caller owns the ray until    *)
(* it returns: tokmond holds runtime_mutex across the whole request.  No    *)
(* request comes in once the engine is stopping: snow.stop() went before.   *)
Begin(c, r) ==
    /\ At(c, "idle")
    /\ Of(c).phase = "up" /\ ~Of(c).stopping
    /\ r \notin Of(c).cancelled
    /\ \A b \in CallersOf(Host[c]) : call[b].ray # r
    /\ Inputs < MaxInputs
    /\ Returns(c, [Idle EXCEPT !.pc = "input", !.ray = r])
    /\ UNCHANGED <<log, lastEpoch, proc, crashes, faults>>

Input(c) ==
    /\ At(c, "input")
    /\ Emits(c, Photon("user.input", call[c].ray, NoAct),
             [call[c] EXCEPT !.pc = "check"])
    /\ UNCHANGED <<lastEpoch, proc, crashes>>

\* Mutant: only the first beat looks at the cancelled rays.
CheckCancelledOnce(c) ==
    /\ At(c, "check")
    /\ \/ /\ call[c].beats >= MaxBeats \/ Of(c).stopping
          /\ Returns(c, [call[c] EXCEPT !.pc = "leave"])
          /\ UNCHANGED <<log, faults>>
       \/ /\ call[c].beats < MaxBeats /\ ~Of(c).stopping
          /\ call[c].beats = 0 /\ call[c].ray \in Of(c).cancelled
          /\ Emits(c, Photon("ray.cancelled", call[c].ray, NoAct), Idle)
       \/ /\ call[c].beats < MaxBeats /\ ~Of(c).stopping
          /\ call[c].beats > 0 \/ call[c].ray \notin Of(c).cancelled
          /\ Returns(c, [call[c] EXCEPT !.pc = "view"])
          /\ UNCHANGED <<log, faults>>
    /\ UNCHANGED <<lastEpoch, proc, crashes>>

\* The head of the loop: the budget, the stop flag, then the cancelled rays.
Check(c) ==
    /\ At(c, "check")
    /\ \/ /\ call[c].beats >= MaxBeats \/ Of(c).stopping
          /\ Returns(c, [call[c] EXCEPT !.pc = "leave"])
          /\ UNCHANGED <<log, faults>>
       \/ /\ call[c].beats < MaxBeats /\ ~Of(c).stopping
          /\ call[c].ray \in Of(c).cancelled
          /\ Emits(c, Photon("ray.cancelled", call[c].ray, NoAct), Idle)
       \/ /\ call[c].beats < MaxBeats /\ ~Of(c).stopping
          /\ call[c].ray \notin Of(c).cancelled
          /\ Returns(c, [call[c] EXCEPT !.pc = "view"])
          /\ UNCHANGED <<log, faults>>
    /\ UNCHANGED <<lastEpoch, proc, crashes>>

\* view: the first proposal, stamped with the epoch viewed, or darkness.
View(c) ==
    /\ At(c, "view")
    /\ \/ \E a \in Proposable(call[c].ray) :
            /\ Returns(c, [call[c] EXCEPT !.pc = "propose", !.act = a,
                                          !.viewed = Of(c).path])
            /\ UNCHANGED <<log, faults>>
       \/ Emits(c, Photon("ray.darkened", call[c].ray, NoAct), Idle)
    /\ UNCHANGED <<lastEpoch, proc, crashes>>

\* refract takes a snapshot of its own before it records the proposal.
Propose(c) ==
    /\ At(c, "propose")
    /\ Audits(c, "act.proposed",
              [call[c] EXCEPT !.pc = "admit", !.snap = Of(c).path])
    /\ UNCHANGED <<lastEpoch, proc, crashes>>

(* ActPipeline::admit.  A stale epoch is refused; a fresh Act may still be  *)
(* refused by policy, validation or a missing approval.  The refusal is     *)
(* recorded without the Act id.                                             *)
Admit(c) ==
    /\ At(c, "admit")
    /\ \/ /\ call[c].viewed = call[c].snap
          /\ Audits(c, "act.admitted", [call[c] EXCEPT !.pc = "acquire"])
       \/ Emits(c, Photon("act.rejected", call[c].ray, NoAct), Idle)
    /\ UNCHANGED <<lastEpoch, proc, crashes>>

\* BeamRegistry::acquire: no ticket on a closed generation, and no photon then.
Acquire(c) ==
    /\ At(c, "acquire")
    /\ IF call[c].snap \in Of(c).closed
         THEN Returns(c, Idle)
         ELSE Returns(c, [call[c] EXCEPT !.pc = "start", !.stop = FALSE])
    /\ UNCHANGED <<log, lastEpoch, proc, crashes, faults>>

\* Mutant: the Lens is called even when act.started could not be stored.
StartUnaudited(c) ==
    /\ At(c, "start")
    /\ \/ Audits(c, "act.started", [call[c] EXCEPT !.pc = "run"])
       \/ /\ faults < MaxFaults
          /\ faults' = faults + 1
          /\ Returns(c, [call[c] EXCEPT !.pc = "run"])
          /\ UNCHANGED log
    /\ UNCHANGED <<lastEpoch, proc, crashes>>

Start(c) ==
    /\ At(c, "start")
    /\ Audits(c, "act.started", [call[c] EXCEPT !.pc = "run"])
    /\ UNCHANGED <<lastEpoch, proc, crashes>>

(* The Lens returns and the ticket is released, before the terminal photon  *)
(* is written.  A Lens reports "cancelled" when its ticket was stopped or   *)
(* when the engine is stopping; it may also finish in spite of either.      *)
Run(c) ==
    /\ At(c, "run")
    /\ \E result \in Results :
          /\ result = "cancelled" => call[c].stop \/ Of(c).stopping
          /\ Returns(c, [call[c] EXCEPT !.pc = "finish", !.stop = FALSE,
                                        !.result = result])
    /\ UNCHANGED <<log, lastEpoch, proc, crashes, faults>>

(* The terminal photon.  A status, even "failed", is a result and the loop  *)
(* goes on; an error is act.failed and ends the call, through ray.cancelled *)
(* when the error is "cancelled".                                           *)
Finish(c) ==
    /\ At(c, "finish")
    /\ \/ /\ call[c].result \in TerminalKinds
          /\ Audits(c, call[c].result,
                    [Idle EXCEPT !.pc = "check", !.ray = call[c].ray,
                                 !.beats = call[c].beats + 1])
       \/ /\ call[c].result = "error"
          /\ Audits(c, "act.failed", Idle)
       \/ /\ call[c].result = "cancelled"
          /\ Audits(c, "act.failed", [call[c] EXCEPT !.pc = "abort"])
    /\ UNCHANGED <<lastEpoch, proc, crashes>>

Abort(c) ==
    /\ At(c, "abort")
    /\ Audits(c, "ray.cancelled", Idle)
    /\ UNCHANGED <<lastEpoch, proc, crashes>>

\* After the loop.
Leave(c) ==
    /\ At(c, "leave")
    /\ Emits(c, Photon("ray.budget-exhausted", call[c].ray, NoAct), Idle)
    /\ UNCHANGED <<lastEpoch, proc, crashes>>
-----------------------------------------------------------------------------
(* Other threads of a daemon *)

(* cancel_ray, first half: the ray joins cancelled_rays_ and stays there    *)
(* for the life of the process.  tokmond calls it from the connection that  *)
(* asks, or from the deadline watch, without runtime_mutex.                 *)
CancelRay(d, r) ==
    /\ proc[d].phase = "up"
    /\ r \notin proc[d].cancelled
    /\ Cardinality(proc[d].cancelled) < MaxCancels
    /\ \E i \in DOMAIN log : log[i].ray = r
    /\ proc' = [proc EXCEPT ![d].cancelled = @ \cup {r},
                            ![d].stopQueue = @ \cup {r}]
    /\ UNCHANGED <<log, lastEpoch, call, crashes, faults>>

\* cancel_ray, second half, outside the lock: stop_ray flags the tickets of r.
StopRay(d, r) ==
    /\ r \in proc[d].stopQueue
    /\ proc' = [proc EXCEPT ![d].stopQueue = @ \ {r}]
    /\ call' = [c \in Callers |->
                  IF c \in Beams(d) /\ call[c].ray = r
                    THEN [call[c] EXCEPT !.stop = TRUE] ELSE call[c]]
    /\ UNCHANGED <<log, lastEpoch, crashes, faults>>

(* reconcile replaces the Lens: stop_generation closes the old generation   *)
(* and flags its tickets in one critical section ...                        *)
CloseGeneration(d) ==
    /\ proc[d].phase = "up"
    /\ lastEpoch < MaxEpoch
    /\ proc[d].path \notin proc[d].closed
    /\ proc' = [proc EXCEPT ![d].closed = @ \cup {proc[d].path}]
    /\ call' = [c \in Callers |->
                  IF c \in Beams(d) /\ call[c].snap = proc[d].path
                    THEN [call[c] EXCEPT !.stop = TRUE] ELSE call[c]]
    /\ UNCHANGED <<log, lastEpoch, crashes, faults>>

\* ... and publish then exposes the new one.
Publish(d) ==
    /\ proc[d].phase = "up"
    /\ proc[d].path \in proc[d].closed
    /\ lastEpoch' = lastEpoch + 1
    /\ proc' = [proc EXCEPT ![d].path = lastEpoch + 1]
    /\ UNCHANGED <<log, call, crashes, faults>>

\* RayTracingEngine::request_stop
RequestStop(d) ==
    /\ proc[d].phase = "up" /\ ~proc[d].stopping
    /\ crashes < MaxCrashes
    /\ crashes' = crashes + 1
    /\ proc' = [proc EXCEPT ![d].stopping = TRUE]
    /\ UNCHANGED <<log, lastEpoch, call, faults>>
-----------------------------------------------------------------------------
(* The life of a daemon *)

\* Mutant: open goes on without recovery.
OpenWithoutRecovery(d) ==
    /\ proc[d].phase = "down"
    /\ proc' = [proc EXCEPT ![d].phase = "recovering"]
    /\ UNCHANGED <<log, lastEpoch, call, crashes, faults>>

\* open: recovery reads the log once and makes its work list.
OpenRuntime(d) ==
    /\ proc[d].phase = "down"
    /\ proc' = [proc EXCEPT ![d].phase = "recovering",
                            ![d].unsettled = Unsettled(ReadAll(log, Window), Acts)]
    /\ UNCHANGED <<log, lastEpoch, call, crashes, faults>>

\* recover_inflight_acts, one append; a store failure makes open fail.
Recover(d, a) ==
    /\ proc[d].phase = "recovering"
    /\ a \in proc[d].unsettled
    /\ \/ /\ log' = Append(log, Photon("act.outcome-unknown", RayOf[a], a))
          /\ proc' = [proc EXCEPT ![d].unsettled = @ \ {a}]
          /\ UNCHANGED faults
       \/ /\ faults < MaxFaults
          /\ faults' = faults + 1
          /\ proc' = [proc EXCEPT ![d] = Down]
          /\ UNCHANGED log
    /\ UNCHANGED <<lastEpoch, call, crashes>>

\* The first mount takes an epoch; system.started ends open, if it is stored.
Ready(d) ==
    /\ proc[d].phase = "recovering"
    /\ proc[d].unsettled = {}
    /\ lastEpoch' = lastEpoch + 1
    /\ \/ /\ log' = Append(log, Photon("system.started", NoRay, NoAct))
          /\ proc' = [proc EXCEPT ![d].phase = "up", ![d].path = lastEpoch + 1]
          /\ UNCHANGED faults
       \/ /\ faults < MaxFaults
          /\ faults' = faults + 1
          /\ proc' = [proc EXCEPT ![d] = Down]
          /\ UNCHANGED log
    /\ UNCHANGED <<call, crashes>>

\* TokmonRuntime::stop destroys the engine once its callers have returned.
Exit(d) ==
    /\ proc[d].stopping
    /\ \A c \in CallersOf(d) : At(c, "idle")
    /\ proc' = [proc EXCEPT ![d] = Down]
    /\ UNCHANGED <<log, lastEpoch, call, crashes, faults>>

\* The process dies: the log survives, everything in memory is gone.
Crash(d) ==
    /\ proc[d].phase # "down"
    /\ crashes < MaxCrashes
    /\ crashes' = crashes + 1
    /\ proc' = [proc EXCEPT ![d] = Down]
    /\ call' = [c \in Callers |-> IF Host[c] = d THEN Idle ELSE call[c]]
    /\ UNCHANGED <<log, lastEpoch, faults>>
-----------------------------------------------------------------------------
Step(c) == \/ Input(c) \/ Check(c) \/ View(c) \/ Propose(c) \/ Admit(c)
           \/ Acquire(c) \/ Start(c) \/ Run(c) \/ Finish(c) \/ Abort(c)
           \/ Leave(c)

Boot(d) == OpenRuntime(d) \/ (\E a \in Acts : Recover(d, a)) \/ Ready(d)

Next ==
    \/ \E c \in Callers : Step(c) \/ \E r \in Rays : Begin(c, r)
    \/ \E d \in Daemons :
        \/ Boot(d)
        \/ \E r \in Rays : CancelRay(d, r) \/ StopRay(d, r)
        \/ CloseGeneration(d) \/ Publish(d)
        \/ RequestStop(d) \/ Exit(d) \/ Crash(d)

Spec == Init /\ [][Next]_vars

(* A running thread runs, a Lens call ends (each has a deadline), a stopped *)
(* engine is destroyed and a dead daemon is started again by the next       *)
(* client (ensure_daemon).  Nobody has to ask for anything.                 *)
Fairness == /\ \A c \in Callers : WF_vars(Step(c))
            /\ \A d \in Daemons : WF_vars(Boot(d)) /\ WF_vars(Exit(d))

FairSpec == Spec /\ Fairness
-----------------------------------------------------------------------------
(* Properties *)

PCs == {"idle", "input", "check", "view", "propose", "admit", "acquire",
        "start", "run", "finish", "abort", "leave"}

TypeOK ==
    /\ log \in Seq([kind : Kinds, ray : Rays \cup {NoRay}, act : Acts \cup {NoAct}])
    /\ lastEpoch \in Nat /\ crashes \in 0..MaxCrashes /\ faults \in 0..MaxFaults
    /\ proc \in [Daemons ->
          [phase : {"down", "recovering", "up"}, unsettled : SUBSET Acts,
           stopping : BOOLEAN, cancelled : SUBSET Rays, stopQueue : SUBSET Rays,
           path : Nat, closed : SUBSET Nat]]
    /\ call \in [Callers ->
          [pc : PCs, ray : Rays \cup {NoRay}, act : Acts \cup {NoAct},
           viewed : Nat, snap : Nat, beats : 0..MaxBeats, stop : BOOLEAN,
           result : Results \cup {"none"}]]

(* Every terminal photon closes a start: between two ends of an Act there   *)
(* is a start, whoever wrote them, a Lens that returned late, a retry, or   *)
(* the recovery of a restarted daemon.                                      *)
TerminalsCloseStarts == TerminalsClose(log, Acts)

\* The Acts whose id is made for one proposal.  An Act with a derived id is left out
\* below: once it has had an end, recovery does not see that it was started again.
MadeOnce == Acts \ Derived

(* A ticket whose generation has been closed has been told to stop: closing *)
(* and admission exclude each other, so no Beam slips in between.           *)
ClosedGenerationsAreStopped ==
    \A d \in Daemons : \A c \in Beams(d) :
        call[c].snap \in proc[d].closed => call[c].stop

(* A started Act is settled, by its Lens or, through any crash, by the      *)
(* recovery of the next start, unless the store failed to take its end.     *)
StartedIsSettled ==
    \A a \in MadeOnce : Open(log, a) ~> ~Open(log, a) \/ faults > 0

(* The log as the abstract audit trail.                                     *)
StartsOf(a) == Cardinality({i \in DOMAIN log : Starts(log[i], a)})
EndsOf(a) == Cardinality({i \in DOMAIN log : Ends(log[i], a)})

Lifecycle == INSTANCE ActLifecycle WITH Acts <- MadeOnce,
                                        started <- [a \in MadeOnce |-> StartsOf(a)],
                                        settled <- [a \in MadeOnce |-> EndsOf(a)]

(* Every step of the engine, of its cancellations, remounts, crashes and    *)
(* recoveries is a Start, a Settle or a stutter of the audit trail: an Act  *)
(* is neither settled twice, nor unstarted, nor started while it is open.   *)
ImplementsLifecycle == Lifecycle!Spec
=============================================================================
