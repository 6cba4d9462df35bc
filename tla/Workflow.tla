------------------------------ MODULE Workflow ------------------------------
(***************************************************************************)
(* One ray that follows a workflow: Janus answers the user's inputs, Clotho *)
(* proposes the steps, Techor turns the last dispatch into an Act, Aya     *)
(* starts child rays, and the runtime advances these after their parent.   *)
(* Clients define, pause, cancel and retry; the daemon may die anywhere.    *)
(***************************************************************************)
EXTENDS Clotho, Janus, Techor, Rhea

CONSTANTS
    SpawnOf,        \* what a node that starts a child asks for
    Denied,         \* the nodes whose Act the policy denies
    Controls,       \* the Acts that clients send: [kind, arg]
    MaxRequests     \* bound: inputs and Acts of clients

\* Limits below one count as one.
ASSUME WorkflowsAssumption ==
    /\ IsFiniteSet(AllNodes) /\ AllNodes \subseteq Nat
    /\ \A w \in DOMAIN Workflows :
          /\ Workflows[w].parallel \in Nat \ {0}
          /\ \A n \in DOMAIN Expanded[w] :
                LET group == Expanded[w][n].group
                IN  group = "none" \/ Workflows[w].groups[group] \in Nat \ {0}

\* The Acts with which the Lenses drive a workflow are no client's.
ASSUME ControlsAssumption ==
    \A c \in Controls :
        /\ c.kind \in {"workflow.define", "workflow.retry", "workflow.pause",
                       "workflow.resume", "workflow.cancel", "child.spawn",
                       "child.join", "child.cancel", "child.message"}
        /\ c.kind = "workflow.define" => c.arg \in DOMAIN Workflows

VARIABLES
    children,       \* what the stream of each child holds: its input, or an answer
    resumed,        \* advance has come back from the children
    requests

vars == <<beatVars, rhea, children, resumed, requests>>

Init == /\ BeatInit
        /\ rhea = NoCall
        /\ children = <<>>
        /\ resumed = FALSE
        /\ requests = 0

Mine == UNCHANGED <<rhea, children, resumed, requests>>

\* The path mounts Janus, Clotho and Techor in this order.  A turn has one input and
\* one answer, so neither Janus' ray.terminate nor a tool of Techor is proposed.
Proposals == IF JanusView(log) # NoAct THEN {JanusView(log)}
             ELSE IF ClothoView(log) # {} THEN ClothoView(log)
             ELSE {TechorView(log)}

Admitted(act) ==
    act.kind = "dispatch" => act.arg.compensation \/ act.arg.node \notin Denied

Advance ==
    /\ \/ BeatStep
       \/ /\ beat.pc = "view" /\ ~ClothoFails(log)
          /\ \E act \in Proposals : View(act, Admitted(act))
    /\ Mine

\* A Lens whose view fails fails the call of advance, and leaves no photon.
ViewFails ==
    /\ beat.pc = "view" /\ ClothoFails(log)
    /\ beat' = Idle
    /\ UNCHANGED <<log, cancelled, disturbances>> /\ Mine

ModelCall == RheaStep /\ UNCHANGED <<children, resumed, requests>>

RunClotho ==
    /\ beat.pc = "run"
    /\ beat.act.kind \in {c.kind : c \in Controls} \cup
          {"workflow.step", "workflow.compensate", "workflow.record-step",
           "workflow.record-compensation"}
    /\ beat.act.kind \notin {"child.spawn", "child.join", "child.cancel", "child.message"}
    /\ IF beat.act.kind = "workflow.define"
          /\ ~Valid(Expanded[beat.act.arg])
         THEN Runs(<<>>, "error")
         ELSE Runs(<<ClothoEmits(log, beat.act)>>, "completed")
    /\ Mine

Starts(act) ==
    \/ act.kind = "child.spawn"
    \/ /\ act.kind = "dispatch" /\ ~act.arg.compensation
       /\ Nodes(log)[act.arg.node].does = "child"

\* The Act of a step or of a compensation.  Clotho knows no end of a rejected one.
RunStep ==
    /\ beat.pc = "run" /\ beat.act.kind = "dispatch" /\ ~Starts(beat.act)
    /\ \/ \E end \in {"completed", "failed", "rejected", "error"} : Runs(<<>>, end)
       \/ cancelled /\ Runs(<<>>, "cancelled")
    /\ Mine

\* child.spawn writes the input into the stream of the child, then child.started
\* into that of the parent.
Spawn ==
    /\ beat.pc = "run" /\ Starts(beat.act)
    /\ LET spawn == IF beat.act.kind = "dispatch" THEN SpawnOf[beat.act.arg.node]
                                                  ELSE beat.act.arg
           started == Said("child.started", [child |-> Len(children) + 1,
                                             acts |-> spawn.acts])
       IN  IF ~Spawnable(spawn) THEN Runs(<<>>, "error") /\ UNCHANGED children
           ELSE Runs(<<started>>, "completed") /\ children' = Append(children, "input")
    /\ UNCHANGED <<rhea, resumed, requests>>

RunAya ==
    /\ beat.pc = "run" /\ beat.act.kind \in {"child.join", "child.cancel", "child.message"}
    /\ Runs(<<AyaEmits(log, beat.act)>>, "completed")
    /\ Mine
-----------------------------------------------------------------------------
(* TokmonRuntime::advance, after the engine's advance has succeeded *)

\* Mutant: a child that has ended is advanced again.
PendingForEver == ChildrenOf(log)

\* The children that the parent has started and that have not ended for it.
Pending == {c \in ChildrenOf(log) : EndsOfChild(log, c, ChildEnds) = {}}

Supervise ==
    /\ beat.pc = "dark"
    /\ beat' = IF resumed THEN Idle ELSE [Idle EXCEPT !.pc = "children", !.todo = Pending]
    /\ resumed' = FALSE
    /\ UNCHANGED <<log, cancelled, disturbances, rhea, children, requests>>

\* The engine advances one child after the other, in the order of their starts; each
\* begins with a model call.
AdvanceChild ==
    /\ beat.pc = "children" /\ beat.todo # {}
    /\ \E ok \in BOOLEAN :
          LET c == Min(beat.todo)
          IN  /\ ok => InScope(log, c, "model.call")
              /\ children' = IF ok THEN [children EXCEPT ![c] = "answer"] ELSE children
              /\ beat' = [beat EXCEPT !.pc = IF ok THEN "answered" ELSE "broken"]
    /\ UNCHANGED <<log, cancelled, disturbances, rhea, resumed, requests>>

EndChild ==
    /\ beat.pc \in {"answered", "broken"}
    /\ Appends(Said(IF beat.pc = "answered" THEN "child.completed" ELSE "child.failed",
                    Min(beat.todo)),
               [beat EXCEPT !.pc = "children", !.todo = @ \ {Min(@)}, !.result = "added"],
               Idle)
    /\ UNCHANGED <<cancelled, rhea, children, resumed, requests>>

\* A parent that has learnt something goes on once more.
Resume ==
    /\ beat.pc = "children" /\ beat.todo = {}
    /\ beat' = IF beat.result = "added" THEN [Idle EXCEPT !.pc = "check"] ELSE Idle
    /\ resumed' = (beat.result = "added")
    /\ UNCHANGED <<log, cancelled, disturbances, rhea, children, requests>>
-----------------------------------------------------------------------------
(* Clients and the environment *)

Request1 == requests < MaxRequests /\ requests' = requests + 1

Turn ==
    /\ Request1
    /\ Submit("local-chat")
    /\ resumed' = FALSE
    /\ UNCHANGED <<rhea, children>>

Control ==
    /\ Request1
    /\ \E c \in Controls : Refract(Act(c.kind, Len(log), c.arg), TRUE)
    /\ UNCHANGED <<rhea, children, resumed>>

Cancel == CancelRay /\ Mine

Restart ==
    /\ Crash
    /\ rhea' = NoCall
    /\ resumed' = FALSE
    /\ UNCHANGED <<children, requests>>

Next == \/ Advance \/ ViewFails \/ ModelCall \/ RunClotho \/ RunStep \/ Spawn \/ RunAya
        \/ Supervise \/ AdvanceChild \/ EndChild \/ Resume
        \/ Turn \/ Control \/ Cancel \/ Restart

Spec == Init /\ [][Next]_vars
-----------------------------------------------------------------------------
(* The log only grows: each of these properties is about its last photon and *)
(* those before it, and so about every photon when it was appended.          *)
Newest == log[Len(log)]
Now(kinds) == log # <<>> /\ Newest.kind \in kinds
Before == SubSeq(log, 1, Len(log) - 1)

StepStarts(node) ==
    {i \in Positions(log, {"act.started"}) :
        log[i].act.kind = "dispatch" /\ log[i].act.arg = [node |-> node, compensation |-> FALSE]}

(* A recorded result is that of the Act of the step's last dispatch, and is  *)
(* recorded once.                                                            *)
ResultsBelongToTheAttempt ==
    Now({"workflow.step-completed", "workflow.step-failed"})
        /\ Nodes(log)[Newest.arg].does # "join" =>
        LET d == LastDispatch(Before, Newest.arg)
            end == IF Newest.kind = "workflow.step-completed" THEN "act.completed"
                                                            ELSE "act.failed"
        IN  /\ \E i \in Positions(Before, {end}) :
                   log[i].act.kind = "dispatch" /\ log[i].act.of = d
            /\ \A i \in Positions(Before, {"workflow.step-completed", "workflow.step-failed"}) :
                   log[i].arg = Newest.arg => i < d

(* A child that has ended for its parent is not advanced again: it has one   *)
(* end there, whatever fails between its run and the photon.                  *)
ChildrenEndOnce ==
    Now(ChildEnds) => EndsOfChild(Before, Newest.arg, ChildEnds) = {}

OneByOne(l) ==
    /\ Positions(l, {"workflow.defined"}) = {Defined(l)}
    /\ Workflow(l).parallel = 1

(* The one workflow of a ray whose steps go one by one is not forgotten: when *)
(* the ray goes dark, each step has a result, is held up by a failure, or is  *)
(* in flight.  What is in flight then is waiting for an Act that was started   *)
(* and whose completion or failure is not recorded, or is a step that was     *)
(* never started because Techor only told a diagnostic of its dispatch        *)
(* (techor_lens.cpp:344), which no check of the definition prevents.          *)
DarkMeansSettled ==
    Now({"ray.darkened"}) /\ ~Halted(log) /\ OneByOne(log) /\ Stopping(log) = {} =>
        LET stuck == {n \in AllNodes : InFlight(log, n)}
            Started(n) == {i \in StepStarts(n) : log[i].act.of = LastDispatch(log, n)}
        IN  /\ \A n \in stuck :
                   /\ log[LastDispatch(log, n)].arg.concrete <=> Started(n) # {}
                   /\ \A i \in Positions(log, {"act.completed", "act.failed"}) :
                         log[i].act.kind = "dispatch" => log[i].act.of # LastDispatch(log, n)
            /\ stuck = {} => \A n \in DOMAIN Nodes(log) :
                   \/ Recorded(log, n)
                   \/ \E d \in Nodes(log)[n].needs :
                         ~Succeeded(log, d) /\ ~Skipped(log, d) /\ ~PassedOver(log, d)
=============================================================================
