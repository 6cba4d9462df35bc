----------------------------- MODULE MCWorkflow -----------------------------
(* Small instances of Workflow. *)
EXTENDS Workflow

Always == [of |-> 0, status |-> "none"]

Node(needs, does, policy, attempts) ==
    [needs |-> needs, does |-> does, policy |-> policy, attempts |-> attempts,
     group |-> "none", when |-> Always, each |-> 0, concrete |-> TRUE,
     compensates |-> "act"]

NoGroups == [g \in {"g"} |-> 1]

\* A step with a retry, a conditional child after it, and a join of both.
Chain == [nodes |-> [n \in {10, 20, 30} |->
             CASE n = 10 -> Node({}, "act", "continue", 2)
               [] n = 20 -> [Node({10}, "child", "stop", 1) EXCEPT
                                !.when = [of |-> 10, status |-> "succeeded"]]
               [] n = 30 -> Node({20}, "join", "stop", 1)],
          parallel |-> 1, groups |-> NoGroups]

\* Two copies of a step in one group, and a step that undoes itself when it fails.
Fan == [nodes |-> [n \in {10, 20} |->
           CASE n = 10 -> [Node({}, "act", "stop", 1) EXCEPT !.each = 2, !.group = "g"]
             [] n = 20 -> Node({10}, "act", "compensate", 1)],
        parallel |-> 2, groups |-> NoGroups]

\* A step that waits for itself, which no definition may say.
Circle == [nodes |-> [n \in {10, 20} |-> Node({30 - n}, "act", "stop", 1)],
           parallel |-> 1, groups |-> NoGroups]

\* A step that would be undone, without saying how.
Broken == [nodes |-> [n \in {10} |->
              [Node({}, "act", "compensate", 1) EXCEPT !.compensates = "none"]],
           parallel |-> 1, groups |-> NoGroups]

\* A child whose description is no map, after a step whose undoing is none either.
Vague == [nodes |-> [n \in {10, 20} |->
             CASE n = 10 -> [Node({}, "act", "compensate", 1) EXCEPT !.compensates = "vague"]
               [] n = 20 -> [Node({10}, "child", "stop", 1) EXCEPT !.concrete = FALSE]],
          parallel |-> 1, groups |-> NoGroups]

Five == [w \in {"chain", "fan", "circle", "broken", "vague"} |->
            CASE w = "chain" -> Chain [] w = "fan" -> Fan [] w = "circle" -> Circle
              [] w = "vague" -> Vague [] OTHER -> Broken]

\* The local model answers: no schedule is used, and no answer has tool calls.
NoKeys == <<>>
NoSchedule == {[attempts |-> 1, backoff |-> 0, first |-> 1]}

Spawning(acts) == [acts |-> acts, parentActs |-> {}, fits |-> TRUE]
Free == [n \in {20} |-> Spawning({"*"})]

\* The scope that the fork command gives a child.
Fork == Spawning({"model.request", "tool.call"})

C(kind, arg) == [kind |-> kind, arg |-> arg]
JoinAll(set) == C("child.join", [policy |-> "all", children |-> set, quorum |-> 1])

Everything ==
    {C("workflow.define", w) : w \in DOMAIN Five} \cup
    {C("workflow.retry", 10), C("workflow.pause", 0), C("workflow.resume", 0),
     C("workflow.cancel", 0), C("child.spawn", Fork), C("child.cancel", 1),
     JoinAll({1}), JoinAll({1, 2})}
=============================================================================
