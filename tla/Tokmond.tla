------------------------------ MODULE Tokmond -------------------------------
(***************************************************************************)
(* The Snow handler of tokmond (src/apps/tokmond/main.cpp): chat requests, *)
(* their retries, cancels and deadlines, each on a thread of its own, and  *)
(* the configuration worker, which opens the runtime and remounts it when  *)
(* the configuration changes.                                              *)
(*                                                                         *)
(* One disjunct of the next state is one critical section, of the runtime, *)
(* request or boot mutex.  Engine and Mount say what advance and reconcile *)
(* do; here a chat is a number of beats and a reconcile a verdict.         *)
(***************************************************************************)
EXTENDS Integers, FiniteSets

CONSTANTS
    Ids,        \* request ids
    Copies,     \* every time that a request is sent
    IdOf,       \* the request id of a copy
    Worker,     \* the configuration worker, as a holder of runtime_mutex
    Nobody,
    Cap,        \* answers that are remembered: 1024 in the code
    MaxEdits,   \* bound: edits of the configuration
    MaxChecks   \* bound: validations asked for

ASSUME TokmondAssumption ==
    /\ IdOf \in [Copies -> Ids]
    /\ Worker \notin Copies /\ Nobody \notin Copies \cup {Worker}
    /\ Cap \in Nat \ {0} /\ MaxEdits \in Nat /\ MaxChecks \in Nat

VARIABLES
    file,       \* the configuration on disk: [version, kind]
    noticed,    \* watched_time: the version that the watcher saw last
    boot,       \* boot_mutex: [state, requested, completed]
    worker,     \* configuration_worker: [pc, generation, ok]
    runtime,    \* [opened, life, policy, mounted]: config_ is policy, and the
                \* path was mounted from the version mounted
    mutex,      \* who holds runtime_mutex
    copy,       \* where each copy of a request is
    life,       \* the runtime that each ray was begun in, 0 before
    completed,  \* completed_requests: ids
    cancelled,  \* cancelled_requests: ids
    active,     \* active_requests: the copy whose ray is registered, per id
    darkened,   \* cancelled_rays_ of the engine; the ray of a copy is the copy
    cancel,     \* the cancel message of each id: [pc, ray]
    asked,      \* history: the version on disk when a check was last asked for
    verdict     \* history: [version, ok], what the worker judged last

vars == <<file, noticed, boot, worker, runtime, mutex, copy, life, completed,
          cancelled, active, darkened, cancel, asked, verdict>>

bootVars    == <<file, noticed, boot, worker, runtime, asked, verdict>>
requestVars == <<copy, life, completed, cancelled, active, darkened, cancel>>

\* "invalid" is refused by load_config, "refused" by open or reconcile.
Kinds == {"good", "invalid", "refused"}

\* A queued copy is past the gate; in "begun" its ray is not registered yet; in
\* "advanced" and "failed" advance has returned.
Places == {"unsent", "sent", "gate", "queued", "begun", "advancing", "beating",
           "advanced", "failed", "answered", "rejected"}

Init == /\ \E k \in Kinds : file = [version |-> 1, kind |-> k]
        /\ noticed = 1
        /\ boot = [state |-> "starting", requested |-> 0, completed |-> 0]
        /\ worker = [pc |-> "wait", generation |-> 0, ok |-> FALSE]
        /\ runtime = [opened |-> FALSE, life |-> 1, policy |-> 0, mounted |-> 0]
        /\ mutex = Nobody
        /\ copy = [c \in Copies |-> "unsent"]
        /\ life = [c \in Copies |-> 0]
        /\ completed = {} /\ cancelled = {} /\ darkened = {}
        /\ active = [i \in Ids |-> Nobody]
        /\ cancel = [i \in Ids |-> [pc |-> "unsent", ray |-> Nobody]]
        /\ asked = 0
        /\ verdict = [version |-> 0, ok |-> FALSE]
-----------------------------------------------------------------------------
(* Configuration *)

\* The user edits a file.
Edit ==
    /\ file.version <= MaxEdits
    /\ \E k \in Kinds : file' = [version |-> file.version + 1, kind |-> k]
    /\ UNCHANGED <<noticed, boot, worker, runtime, mutex, requestVars, asked, verdict>>

RequestValidation ==
    /\ boot' = [boot EXCEPT !.state = "starting", !.requested = @ + 1]
    /\ asked' = file.version

\* The first client that attaches asks for the first check.
FirstAttach ==
    /\ boot.requested = 0
    /\ RequestValidation
    /\ UNCHANGED <<file, noticed, worker, runtime, mutex, requestVars, verdict>>

\* The maintenance loop sees another modification time.
Watch ==
    /\ noticed # file.version
    /\ noticed' = file.version
    /\ RequestValidation
    /\ UNCHANGED <<file, worker, runtime, mutex, requestVars, verdict>>

\* lens.reconcile, lens.mount and their like ask under runtime_mutex.
Revalidate ==
    /\ boot.requested \in 1..(MaxChecks - 1)
    /\ runtime.opened /\ mutex = Nobody
    /\ RequestValidation
    /\ UNCHANGED <<file, noticed, worker, runtime, mutex, requestVars, verdict>>

WorkerTakes ==
    /\ worker.pc = "wait"
    /\ boot.requested # boot.completed
    /\ worker' = [worker EXCEPT !.pc = "load", !.generation = boot.requested]
    /\ UNCHANGED <<file, noticed, boot, runtime, mutex, requestVars, asked, verdict>>

\* load_config, before runtime_mutex is taken.
WorkerLoads ==
    /\ worker.pc = "load"
    /\ IF file.kind = "invalid"
         THEN /\ worker' = [worker EXCEPT !.pc = "publish", !.ok = FALSE]
              /\ verdict' = [version |-> file.version, ok |-> FALSE]
         ELSE worker' = [worker EXCEPT !.pc = "lock"] /\ UNCHANGED verdict
    /\ UNCHANGED <<file, noticed, boot, runtime, mutex, requestVars, asked>>

WorkerLocks ==
    /\ worker.pc = "lock"
    /\ mutex = Nobody
    /\ mutex' = Worker
    /\ worker' = [worker EXCEPT !.pc = "mount"]
    /\ UNCHANGED <<file, noticed, boot, runtime, requestVars, asked, verdict>>

\* Mutant: any failure makes a new runtime.
MountReplaces ==
    /\ worker.pc = "mount"
    /\ mutex' = Nobody
    /\ LET ok == file.kind = "good"
       IN /\ worker' = [worker EXCEPT !.pc = "publish", !.ok = ok]
          /\ verdict' = [version |-> file.version, ok |-> ok]
          /\ runtime' = IF ok
               THEN [runtime EXCEPT !.opened = TRUE, !.policy = file.version,
                                    !.mounted = file.version]
               ELSE [opened |-> FALSE, life |-> runtime.life + 1, policy |-> 0, mounted |-> 0]
    /\ UNCHANGED <<file, noticed, boot, requestVars, asked>>

\* Mutant: runtime_mutex is kept when the configuration is refused.
MountKeepsLock ==
    /\ worker.pc = "mount"
    /\ mutex' = IF file.kind = "good" THEN Nobody ELSE mutex
    /\ LET ok == file.kind = "good"
       IN /\ worker' = [worker EXCEPT !.pc = "publish", !.ok = ok]
          /\ verdict' = [version |-> file.version, ok |-> ok]
          /\ runtime' =
               IF ok THEN [runtime EXCEPT !.opened = TRUE, !.policy = file.version,
                                          !.mounted = file.version]
               ELSE IF ~runtime.opened THEN [runtime EXCEPT !.life = @ + 1]
               ELSE runtime
    /\ UNCHANGED <<file, noticed, boot, requestVars, asked>>

\* open or reconcile, which load the file again.  A reconcile that is refused
\* after it was loaded has replaced config_ but not the path; a runtime that
\* never opened is thrown away.
WorkerMounts ==
    /\ worker.pc = "mount"
    /\ mutex' = Nobody
    /\ LET ok == file.kind = "good"
       IN /\ worker' = [worker EXCEPT !.pc = "publish", !.ok = ok]
          /\ verdict' = [version |-> file.version, ok |-> ok]
          /\ runtime' =
               IF ok THEN [runtime EXCEPT !.opened = TRUE, !.policy = file.version,
                                          !.mounted = file.version]
               ELSE IF ~runtime.opened THEN [runtime EXCEPT !.life = @ + 1]
               ELSE IF file.kind = "refused" THEN [runtime EXCEPT !.policy = file.version]
               ELSE runtime
    /\ UNCHANGED <<file, noticed, boot, requestVars, asked>>

\* Mutant: the outcome is published whatever was asked meanwhile.
PublishAlways ==
    /\ worker.pc = "publish"
    /\ worker' = [worker EXCEPT !.pc = "wait"]
    /\ boot' = [boot EXCEPT !.completed = worker.generation,
                            !.state = IF worker.ok THEN "ready" ELSE "failed"]
    /\ UNCHANGED <<file, noticed, runtime, mutex, requestVars, asked, verdict>>

WorkerPublishes ==
    /\ worker.pc = "publish"
    /\ worker' = [worker EXCEPT !.pc = "wait"]
    /\ boot' = [boot EXCEPT !.completed = worker.generation,
                            !.state = IF boot.requested # worker.generation THEN @
                                      ELSE IF worker.ok THEN "ready" ELSE "failed"]
    /\ UNCHANGED <<file, noticed, runtime, mutex, requestVars, asked, verdict>>
-----------------------------------------------------------------------------
(* Requests *)

Goes(c, where) == copy' = [copy EXCEPT ![c] = where]

\* A client sends a request, or sends it again when its connection was lost.
Send(c) ==
    /\ copy[c] = "unsent"
    /\ Goes(c, "sent")
    /\ UNCHANGED <<bootVars, mutex, life, completed, cancelled, active, darkened, cancel>>

\* The first critical section: an answer that is remembered, or a cancel.
Arrive(c) ==
    /\ copy[c] = "sent"
    /\ Goes(c, IF IdOf[c] \in completed THEN "answered"
               ELSE IF IdOf[c] \in cancelled THEN "rejected" ELSE "gate")
    /\ UNCHANGED <<bootVars, mutex, life, completed, cancelled, active, darkened, cancel>>

\* The startup gate, which is read before runtime_mutex is taken.
Gate(c) ==
    /\ copy[c] = "gate"
    /\ Goes(c, IF boot.state = "ready" THEN "queued" ELSE "rejected")
    /\ UNCHANGED <<bootVars, mutex, life, completed, cancelled, active, darkened, cancel>>

\* runtime_mutex is taken and the input is submitted, on a ray of its own.
Begin(c) ==
    /\ copy[c] = "queued"
    /\ mutex = Nobody
    /\ mutex' = c
    /\ Goes(c, "begun")
    /\ life' = [life EXCEPT ![c] = runtime.life]
    /\ UNCHANGED <<bootVars, completed, cancelled, active, darkened, cancel>>

\* Mutant: a cancel that came before the ray is forgotten.
RegisterUnchecked(c) ==
    /\ copy[c] = "begun"
    /\ Goes(c, "advancing")
    /\ active' = [active EXCEPT ![IdOf[c]] = c]
    /\ UNCHANGED <<bootVars, mutex, life, completed, cancelled, darkened, cancel>>

\* The ray is registered, and cancelled at once if its request already is.
Register(c) ==
    /\ copy[c] = "begun"
    /\ Goes(c, "advancing")
    /\ active' = [active EXCEPT ![IdOf[c]] = c]
    /\ darkened' = IF IdOf[c] \in cancelled THEN darkened \cup {c} ELSE darkened
    /\ UNCHANGED <<bootVars, mutex, life, completed, cancelled, cancel>>

\* A beat of advance begins, unless the ray is cancelled.
Beat(c) ==
    /\ copy[c] = "advancing"
    /\ Goes(c, IF c \in darkened THEN "failed" ELSE "beating")
    /\ UNCHANGED <<bootVars, mutex, life, completed, cancelled, active, darkened, cancel>>

\* It ends; advance goes on, is done, or fails.
BeatEnds(c) ==
    /\ copy[c] = "beating"
    /\ \E where \in {"advancing", "advanced", "failed"} : Goes(c, where)
    /\ UNCHANGED <<bootVars, mutex, life, completed, cancelled, active, darkened, cancel>>

\* The deadline of the request, which may come when advance has just returned.
Deadline(c) ==
    /\ copy[c] \in {"advancing", "beating", "advanced", "failed"}
    /\ c \notin darkened
    /\ darkened' = darkened \cup {c}
    /\ UNCHANGED <<bootVars, mutex, copy, life, completed, cancelled, active, cancel>>

\* The ray is taken off the register; a success is remembered, in place of any
\* other answer when there are too many; runtime_mutex is released.
Finish(c) ==
    /\ copy[c] \in {"advanced", "failed"}
    /\ Goes(c, IF copy[c] = "advanced" THEN "answered" ELSE "rejected")
    /\ active' = [active EXCEPT ![IdOf[c]] = Nobody]
    /\ mutex' = Nobody
    /\ IF copy[c] = "failed" THEN UNCHANGED completed
       ELSE \E kept \in SUBSET completed :
              /\ IF Cardinality(completed) < Cap THEN kept = completed
                                                 ELSE Cardinality(kept) = Cardinality(completed) - 1
              /\ completed' = kept \cup {IdOf[c]}
    /\ UNCHANGED <<bootVars, life, cancelled, darkened, cancel>>
-----------------------------------------------------------------------------
(* Cancels *)

\* A cancel marks the request and looks up its ray.
Cancel(i) ==
    /\ cancel[i].pc = "unsent"
    /\ cancel' = [cancel EXCEPT ![i] = [pc |-> "found", ray |-> active[i]]]
    /\ cancelled' = cancelled \cup {i}
    /\ UNCHANGED <<bootVars, mutex, copy, life, completed, active, darkened>>

\* runtime->cancel, with no mutex, and the answer to the cancel.
CancelRay(i) ==
    /\ cancel[i].pc = "found"
    /\ cancel' = [cancel EXCEPT ![i].pc = "answered"]
    /\ darkened' = darkened \cup ({cancel[i].ray} \ {Nobody})
    /\ UNCHANGED <<bootVars, mutex, copy, life, completed, cancelled, active>>
-----------------------------------------------------------------------------
Configuration ==
    Edit \/ FirstAttach \/ Watch \/ Revalidate \/ WorkerTakes \/ WorkerLoads
    \/ WorkerLocks \/ WorkerMounts \/ WorkerPublishes

Request(c) ==
    Arrive(c) \/ Gate(c) \/ Begin(c) \/ Register(c) \/ Beat(c) \/ BeatEnds(c) \/ Finish(c)

Next == \/ Configuration
        \/ \E c \in Copies : Send(c) \/ Request(c) \/ Deadline(c)
        \/ \E i \in Ids : Cancel(i) \/ CancelRay(i)

Spec == Init /\ [][Next]_vars

\* Threads run, whoever waits for runtime_mutex has it when it is free for good,
\* and the beats of a ray come to an end (advance bounds them).
Fairness ==
    /\ WF_vars(Watch)
    /\ WF_vars(WorkerTakes \/ WorkerLoads \/ WorkerLocks \/ WorkerMounts \/ WorkerPublishes)
    /\ \A c \in Copies : WF_vars(Request(c)) /\ SF_vars(BeatEnds(c) /\ copy'[c] # "advancing")

FairSpec == Spec /\ Fairness
-----------------------------------------------------------------------------
(* Properties *)

\* Once a cancel is answered no beat of its request begins, wherever the request
\* was: not sent, between two critical sections, or running, once or twice.
CancelIsNotLost ==
    [][\A c \in Copies : copy[c] = "advancing" /\ copy'[c] = "beating" =>
            cancel[IdOf[c]].pc # "answered"]_vars

\* What daemon.status says is the verdict on a configuration not older than the
\* one that was on disk when a check was last asked for: an edit during a check
\* is never reported with the outcome of the check that it interrupted.
StateIsTheVerdict ==
    boot.state # "starting" =>
        verdict.version >= asked /\ verdict.ok = (boot.state = "ready")

\* A request that passed the gate before a remount that failed still begins on a
\* runtime that is open.
BeginsOnAnOpenRuntime ==
    [][\A c \in Copies : copy[c] = "queued" /\ copy'[c] = "begun" => runtime.opened]_vars

\* Every copy of a request that is sent gets an answer.
RequestIsAnswered ==
    \A c \in Copies : copy[c] = "sent" ~> copy[c] \in {"answered", "rejected"}
=============================================================================
