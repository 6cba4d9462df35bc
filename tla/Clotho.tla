------------------------------- MODULE Clotho -------------------------------
(***************************************************************************)
(* The workflow Lens (src/lenses/clotho): which step of a workflow comes    *)
(* next, worked out from the photons of the ray.                           *)
(*                                                                         *)
(* A workflow, as its author writes it, is [nodes, parallel, groups]; its   *)
(* nodes are numbered in the order of their ids, tens for the author's and *)
(* the rest for the copies of a for_each.  A node is                        *)
(*   [needs, does, policy, attempts, group, when, each, concrete,           *)
(*    compensates]:                                                         *)
(* what it does is an Act, a child ray or nothing (a join), concrete when   *)
(* its parameters are a map, which no check of a definition asks for; when  *)
(* is a condition [of, status] on another step, of = 0 standing for none;   *)
(* compensates says what undoes it: none, an Act, or a vague map.           *)
(* Inputs, templates, time limits and permissions of Acts are left out.     *)
(*                                                                         *)
(* The child rays that a step may start (src/lenses/aya) follow.  A child is *)
(* a number.  The argument of child.started is [child, acts], the kinds of  *)
(* Acts that the child may do; of child.completed and child.failed, the     *)
(* child.  Usage and work trees are left out.                               *)
(***************************************************************************)
EXTENDS RayPhotons

CONSTANT Workflows  \* the workflows that clients define, by name

\* parse_definition: a for_each node becomes its copies and a join of them.
Copies(nodes, n) == {n + i : i \in 1 .. nodes[n].each}

Expand(nodes) ==
    LET copies == UNION {Copies(nodes, n) : n \in DOMAIN nodes}
        Source(c) == 10 * (c \div 10)
    IN  [c \in DOMAIN nodes \cup copies |->
            IF c \in copies THEN [nodes[Source(c)] EXCEPT !.each = 0]
            ELSE IF nodes[c].each = 0 THEN nodes[c]
            ELSE [nodes[c] EXCEPT !.needs = Copies(nodes, c), !.does = "join",
                     !.policy = "stop", !.attempts = 1, !.group = "none",
                     !.when = [of |-> 0, status |-> "none"], !.each = 0]]

\* workflow_nodes: every dependency is another node and none is circular.
Valid(nodes) ==
    LET Resolves(set) == set \cup {n \in DOMAIN nodes : nodes[n].needs \subseteq set}
        resolved[k \in 0 .. Cardinality(DOMAIN nodes)] ==
            IF k = 0 THEN {} ELSE Resolves(resolved[k - 1])
    IN  /\ \A n \in DOMAIN nodes : nodes[n].needs \subseteq DOMAIN nodes \ {n}
        /\ resolved[Cardinality(DOMAIN nodes)] = DOMAIN nodes

Expanded == [w \in DOMAIN Workflows |-> Expand(Workflows[w].nodes)]
AllNodes == UNION {DOMAIN Expanded[w] : w \in DOMAIN Workflows}

Defined(log) == Latest(log, {"workflow.defined"})
Workflow(log) == Workflows[log[Defined(log)].arg]
Nodes(log) == Expanded[log[Defined(log)].arg]
-----------------------------------------------------------------------------
(* state: what the photons say of a node, whichever definition they are of.  *)

LatestOf(log, kinds, node) ==
    Max({i \in Positions(log, kinds) : log[i].arg = node} \cup {0})

DispatchesOf(log, node) ==
    {i \in Positions(log, {"workflow.step-dispatched"}) : log[i].arg.node = node}

LastDispatch(log, node) == Max(DispatchesOf(log, node) \cup {0})
LastRetry(log, node) == LatestOf(log, {"workflow.step-retry-requested"}, node)

Succeeded(log, node) == LatestOf(log, {"workflow.step-completed"}, node) # 0
Skipped(log, node) == LatestOf(log, {"workflow.step-skipped"}, node) # 0
Compensated(log, node) == LatestOf(log, {"workflow.compensation-completed"}, node) # 0

\* A dispatch and a retry clear what went before.
Cleared(log, node) == Max({LastDispatch(log, node), LastRetry(log, node)})

Failed(log, node) == LatestOf(log, {"workflow.step-failed"}, node) > Cleared(log, node)

\* The end of the Act of a step, or of its compensation, 0 if there is none.  A
\* rejected Act and one whose outcome is unknown have no end here.
EndOf(log, node, compensation) ==
    Max({i \in Positions(log, {"act.completed", "act.failed"}) :
            /\ log[i].act.kind = "dispatch"
            /\ log[i].act.arg = [node |-> node, compensation |-> compensation]}
        \cup {0})

\* Mutant: a new attempt inherits the end of the last one.
EndedOnce(log, node) == EndOf(log, node, FALSE)

Ended(log, node) ==
    LET end == EndOf(log, node, FALSE)
    IN  IF end > Cleared(log, node) THEN end ELSE 0

Recorded(log, node) == Succeeded(log, node) \/ Skipped(log, node) \/ Failed(log, node)

InFlight(log, node) ==
    LastDispatch(log, node) > LastRetry(log, node) /\ ~Recorded(log, node)

Paused(log) == Latest(log, {"workflow.paused"}) > Latest(log, {"workflow.resumed"})
Cancelled(log) == Latest(log, {"workflow.cancelled"}) # 0
-----------------------------------------------------------------------------
(* ClothoLens::view *)

\* A failure that does not keep the workflow from going on.
PassedOver(log, node) ==
    LET policy == Nodes(log)[node].policy
    IN  /\ Failed(log, node)
        /\ \/ policy = "continue"
           \/ policy = "compensate" /\ Compensated(log, node)

\* Steps of every definition are counted against the size of the last one.
Finished(log) ==
    Cardinality({n \in AllNodes : Succeeded(log, n)})
      + Cardinality({n \in AllNodes : Skipped(log, n)})
      + Cardinality({n \in DOMAIN Nodes(log) : PassedOver(log, n)})
    = Cardinality(DOMAIN Nodes(log))

Halted(log) == Defined(log) = 0 \/ Cancelled(log) \/ Paused(log) \/ Finished(log)

Attempts(log, node) == Cardinality(DispatchesOf(log, node))

UsedUp(log, node) == Attempts(log, node) >= Nodes(log)[node].attempts

\* Failures that end the workflow, or that ask for a compensation.
Stopping(log) ==
    {n \in DOMAIN Nodes(log) :
        /\ Failed(log, n) /\ UsedUp(log, n)
        /\ \/ Nodes(log)[n].policy = "stop"
           \/ Nodes(log)[n].policy = "compensate" /\ ~Compensated(log, n)}

Ready(log, node) ==
    /\ ~Succeeded(log, node) /\ ~Skipped(log, node) /\ ~InFlight(log, node)
    /\ Failed(log, node) => ~UsedUp(log, node)
    /\ \A d \in Nodes(log)[node].needs :
           Succeeded(log, d) \/ Skipped(log, d) \/ PassedOver(log, d)

\* The ready steps that the limits leave room for: as many of a group as the group
\* has room for, then as many as the workflow has, in the order of their ids.
Offered(log) ==
    LET flying == {n \in AllNodes : InFlight(log, n)}
        ready == {n \in DOMAIN Nodes(log) : Ready(log, n)}
        Peers(set, n) ==
            {m \in set \cap DOMAIN Nodes(log) : Nodes(log)[m].group = Nodes(log)[n].group}
        Before(set, n) == {m \in set : m < n}
        eligible == {n \in ready :
            Nodes(log)[n].group # "none" =>
                Cardinality(Peers(flying, n)) + Cardinality(Before(Peers(ready, n), n))
                    < Workflow(log).groups[Nodes(log)[n].group]}
    IN  {n \in eligible :
            Cardinality(flying) + Cardinality(Before(eligible, n)) < Workflow(log).parallel}

\* The condition of a step.  A step that has no state yet fails every condition.
Condition(log, node) ==
    LET when == Nodes(log)[node].when
    IN  CASE when.status = "succeeded" -> Succeeded(log, when.of)
          [] when.status = "failed"    -> Failed(log, when.of)
          [] when.status = "skipped"   -> Skipped(log, when.of)
          [] OTHER                     -> TRUE

Step(kind, log, arg) == Act(kind, Defined(log), arg)

\* The proposals: a result to record, a compensation, or the steps that are next.
\* The surface orders those of one Lens by the hashes that are their ids.
ClothoView(log) ==
    LET done == {n \in AllNodes : Ended(log, n) # 0 /\ ~Recorded(log, n)}
        undone == {n \in AllNodes : EndOf(log, n, TRUE) # 0 /\ ~Compensated(log, n)}
        Record(kind, n, end) ==
            {Step(kind, log, [node |-> n, end |-> end,
                              ok |-> log[end].kind = "act.completed"])}
    IN  IF Halted(log) THEN {}
        ELSE IF done # {} THEN
            Record("workflow.record-step", Min(done), Ended(log, Min(done)))
        ELSE IF undone # {} THEN
            Record("workflow.record-compensation", Min(undone),
                   EndOf(log, Min(undone), TRUE))
        ELSE IF Stopping(log) # {} THEN
            IF Nodes(log)[Min(Stopping(log))].policy = "stop" THEN {}
            ELSE {Step("workflow.compensate", log, [node |-> Min(Stopping(log))])}
        ELSE {Step("workflow.step", log,
                   [node |-> n, attempt |-> Attempts(log, n) + 1,
                    skip |-> ~Condition(log, n)]) : n \in Offered(log)}

\* A compensation without a definition is an error of the view.
ClothoFails(log) ==
    \E act \in ClothoView(log) :
        act.kind = "workflow.compensate" /\ Nodes(log)[act.arg.node].compensates = "none"
-----------------------------------------------------------------------------
(* ClothoLens::refract *)

ClothoEmits(log, act) ==
    LET node == act.arg.node
        dispatch == [node |-> node,
                     concrete |-> IF act.kind = "workflow.compensate"
                                    THEN Nodes(log)[node].compensates = "act"
                                    ELSE Nodes(log)[node].concrete]
    IN  CASE act.kind = "workflow.pause"  -> Said("workflow.paused", 0)
          [] act.kind = "workflow.resume" -> Said("workflow.resumed", 0)
          [] act.kind = "workflow.cancel" -> Said("workflow.cancelled", 0)
          [] act.kind = "workflow.retry"  -> Said("workflow.step-retry-requested", act.arg)
          [] act.kind = "workflow.define" -> Said("workflow.defined", act.arg)
          [] act.kind = "workflow.record-step" ->
                Said(IF act.arg.ok THEN "workflow.step-completed"
                                   ELSE "workflow.step-failed", node)
          [] act.kind = "workflow.record-compensation" ->
                Said(IF act.arg.ok THEN "workflow.compensation-completed"
                                   ELSE "workflow.compensation-failed", node)
          [] act.kind = "workflow.compensate" ->
                Said("workflow.compensation-dispatched", dispatch)
          [] act.kind = "workflow.step" ->
                IF act.arg.skip THEN Said("workflow.step-skipped", node)
                ELSE IF Nodes(log)[node].does = "join" THEN Said("workflow.step-completed", node)
                ELSE Said("workflow.step-dispatched", dispatch)
-----------------------------------------------------------------------------
(* Child rays: their start, and the join that waits for them *)

\* What a spawn asks for: [acts, parentActs, fits].  fits stands for the budgets,
\* the deadline, the modes, the task and the absence of secrets.
Spawnable(spawn) ==
    /\ spawn.fits
    /\ spawn.parentActs # {} => spawn.acts \subseteq spawn.parentActs

ChildEnds == {"child.completed", "child.failed", "child.cancelled"}

ChildrenOf(log) == {log[i].arg.child : i \in Positions(log, {"child.started"})}

EndsOfChild(log, child, kinds) ==
    {i \in Positions(log, kinds) : log[i].arg = child}

\* AyaLens::refract, child.join: a child that failed never satisfies "all".
JoinReady(log, join) ==
    LET completed == {c \in join.children : EndsOfChild(log, c, {"child.completed"}) # {}}
    IN  CASE join.policy = "manual" -> TRUE
          [] join.policy = "all"    -> completed = join.children
          [] join.policy = "any"    -> completed # {}
          [] join.policy = "quorum" -> Cardinality(completed) >= join.quorum

\* child.cancel is only recorded; nothing stops the child.
AyaEmits(log, act) ==
    CASE act.kind = "child.join" ->
             Said(IF JoinReady(log, act.arg) THEN "child.joined" ELSE "child.join-pending",
                  act.arg)
      [] act.kind = "child.cancel" -> Said("child.cancel-requested", act.arg)
      [] act.kind = "child.message" -> Said("child.message-delivered", act.arg)

\* The admission callback: an Act of a child is of a kind that the child was given.
InScope(log, child, kind) ==
    \E i \in Positions(log, {"child.started"}) :
        log[i].arg.child = child /\ log[i].arg.acts \cap {"*", kind} # {}
=============================================================================
