-------------------------------- MODULE Agent --------------------------------
(***************************************************************************)
(* One ray of the agent: Janus, Rhea and Techor take turns over its log,   *)
(* driven by the engine's beats, every Act admitted by policy and          *)
(* approvals.  Between two calls of advance, clients put in inputs and     *)
(* Acts of their own; the ray may be cancelled, and the daemon may die, at *)
(* any moment.                                                             *)
(***************************************************************************)
EXTENDS Janus, Techor, Approval, Rhea, Projection

CONSTANTS
    Tools,          \* every tool name
    KindOf,         \* the Act kind of a tool
    Inputs,         \* what a user may submit: remote, local-sum or local-chat
    Frames,         \* code frames: sequences of tools
    Clients,        \* the Acts a client may send, by kind
    Decides,        \* what a client may decide: [approved, scope, approver, required]
    MaxRequests     \* bound: inputs, of weight 3, and Acts of clients, of weight 2

ASSUME DecidesAssumption == \A d \in Decides : d.scope \in {"one_shot", "session"}

VARIABLES
    generation,     \* of the Lenses that carry out tools; the epoch with it
    requests

vars == <<beatVars, rhea, generation, requests>>

Init == /\ BeatInit
        /\ rhea = NoCall
        /\ generation = 1
        /\ requests = 0

PolicyKind(act) ==
    CASE act.kind = "tool" -> KindOf[act.arg.tool]
      [] act.kind = "client" -> KindOf[act.arg]
      [] OTHER -> act.kind

\* A verdict on an Act, at a moment at which some decisions have expired.  Any Act
\* may be refused, by policy, for want of an approval or by validation.
Verdict(act, admitted) ==
    IF admitted /\ act # NoAct
      THEN \E expired \in SUBSET Positions(log, Decisions) :
               Admitted(log, act, PolicyKind(act), generation, expired)
      ELSE TRUE

\* The path mounts Janus before Techor, and the first proposal of the path wins.
Proposal == IF JanusView(log) # NoAct THEN JanusView(log) ELSE TechorView(log)
-----------------------------------------------------------------------------
Advance ==
    /\ BeatStep \/ Return \/ \E admitted \in BOOLEAN :
          /\ beat.pc = "view"
          /\ Verdict(Proposal, admitted)
          /\ View(Proposal, admitted)
    /\ UNCHANGED <<rhea, generation, requests>>

\* Janus carries out its own Acts: terminate, cancel and steer.
RunJanus ==
    /\ beat.pc = "run" /\ beat.act.kind \in {"ray.terminate", "ray.cancel", "ray.steer"}
    /\ Runs(<<JanusEmits(beat.act)>>, "completed")
    /\ UNCHANGED <<rhea, generation, requests>>

\* Fallen records a decision.
RunFallen ==
    /\ beat.pc = "run" /\ beat.act.kind = "approval.decide"
    /\ Runs(<<FallenEmits(log, beat.act.arg.approved, beat.act.arg.decision)>>,
            "completed")
    /\ UNCHANGED <<rhea, generation, requests>>

\* A tool leaves its result, or none: it fails, or it is stopped.
RunTool ==
    /\ beat.pc = "run" /\ beat.act.kind \in {"tool", "client"}
    /\ \/ Runs(<<Said("tool.result", 0)>>, "completed")
       \/ Runs(<<Said("process.exited", 0)>>, "failed")
       \/ Runs(<<>>, "error")
       \/ cancelled /\ Runs(<<>>, "cancelled")
    /\ UNCHANGED <<rhea, generation, requests>>

ModelCall == RheaStep /\ UNCHANGED <<generation, requests>>
-----------------------------------------------------------------------------
(* Clients, between two calls of advance *)

Requests(weight) ==
    /\ requests + weight <= MaxRequests
    /\ requests' = requests + weight

Turn ==
    /\ Requests(3)
    /\ \E arg \in Inputs : Submit(arg)
    /\ UNCHANGED <<rhea, generation>>

\* approval.decide on a client's tool Act, or on its tool for the session.
DecideActs ==
    {Act("approval.decide", 0,
         [approved |-> d.approved,
          decision |-> [act |-> Act("client", 0, t), kind |-> KindOf[t],
                        generation |-> generation, scope |-> d.scope,
                        approver |-> d.approver, required |-> d.required]]) :
        d \in Decides, t \in {u \in Tools : EvaluatePolicy(KindOf[u]) = "ask"}}

\* A client's own tool Act is the same one when it is sent again.
ClientActs ==
    {a \in DecideActs \cup {Act("client", 0, t) : t \in Tools}
             \cup {Act(kind, 0, Len(log)) : kind \in {"ray.cancel", "ray.steer"}} :
        a.kind \in Clients}

ClientAct ==
    /\ Requests(2)
    /\ \E act \in ClientActs, admitted \in BOOLEAN :
          /\ Verdict(act, admitted)
          /\ Refract(act, admitted)
    /\ UNCHANGED <<rhea, generation>>

\* Photons that a client appends through its Lens (worker, MCP or API).
Put(photon) ==
    /\ beat.pc = "idle" /\ log # <<>>
    /\ Disturbs
    /\ log' = Append(log, photon)
    /\ UNCHANGED <<beat, cancelled, rhea, generation, requests>>

Observe == \E names \in SUBSET Tools \ {{}} : Put(Said("external.catalog-observed", names))
Register == \E t \in Tools : Put(Said("tool.registered", t))
Unregister == \E t \in Tools : Put(Said("tool.unregistered", t))
SendFrame == \E f \in Frames : Put(Said("code.frame", f))

Remount ==
    /\ beat.pc = "idle"
    /\ Disturbs
    /\ generation' = generation + 1
    /\ UNCHANGED <<log, beat, cancelled, rhea, requests>>

Cancel == CancelRay /\ UNCHANGED <<rhea, generation, requests>>

\* The mounts of a new process take new generations.
Restart ==
    /\ Crash
    /\ generation' = generation + 1
    /\ rhea' = NoCall
    /\ UNCHANGED requests
-----------------------------------------------------------------------------
Next == \/ Turn \/ Advance \/ RunJanus \/ RunFallen \/ RunTool \/ ModelCall
        \/ ClientAct \/ Observe \/ Register \/ Unregister \/ SendFrame
        \/ Remount \/ Cancel \/ Restart

Spec == Init /\ [][Next]_vars
-----------------------------------------------------------------------------
(* The log only grows: each of these properties is about its last photon and *)
(* those before it, and so about every photon when it was appended.          *)
Now(kind) == log # <<>> /\ log[Len(log)].kind = kind
Before == SubSeq(log, 1, Len(log) - 1)

(* The model is never asked twice for the same thing: between two requests   *)
(* of one turn the first has completed, even when an append failed or the    *)
(* daemon died in the middle of it.                                          *)
OneModelCallAtATime ==
    Now("model.requested") =>
        Latest(Before, {"model.requested"})
            <= Latest(Before, {"model.completed", "user.input", "user.steering"})

(* A turn goes dark only when the model has been asked about the last result *)
(* of the tools that it called for, unless a model call of the turn failed:  *)
(* an answer given beside a tool call does not end the turn.                 *)
ResultsReachTheModel ==
    Now("ray.darkened") /\ ~Terminated(Before)
        /\ Latest(Before, {"model.failed"}) < TurnStart(Before) =>
      \A call \in Positions(Before, {"model.tool-call"}) :
        TurnStart(Before) < call /\ call < ResultOf(Before)
            => Latest(Before, {"model.requested"}) > ResultOf(Before)

(* An Act the policy asks about starts only under a grant that all its       *)
(* required approvers gave: one for the session, or a one-shot grant of the   *)
(* Act's own that is more recent than its last start.                        *)
GrantsAreUsedOnce ==
    Now("act.started") =>
        LET act == log[Len(log)].act
            kind == PolicyKind(act)
            By(g, approver) ==
                \E i \in Positions(Before, {"approval.stage-granted", "approval.granted"}) :
                    i <= g /\ log[i].arg.act = log[g].arg.act /\ log[i].arg.approver = approver
        IN  EvaluatePolicy(kind) = "ask" =>
              \E g \in Positions(Before, {"approval.granted"}) :
                 /\ \A approver \in log[g].arg.required : By(g, approver)
                 /\ \/ log[g].arg.scope = "session" /\ log[g].arg.kind = kind
                    \/ /\ log[g].arg.act = act
                       /\ \A s \in StartsOf(Before, act) : s < g

(* Janus works out the deadline of a model call from the configured schedule, *)
(* and Rhea works out again how long it waits for a first byte and between   *)
(* two attempts, with limits of its own (janus_lens.cpp:64-87,               *)
(* rhea_lens.cpp:531-541, 713).  Through all attempts at the one provider     *)
(* that Janus names, the margin is left.  Not part of it: a stream that goes *)
(* on after its first byte, a longer wait that the provider asks for, and a   *)
(* configured wait for a first byte above Janus' limit of five minutes, which *)
(* Rhea does not have.                                                        *)
DeadlineCoversTheSchedule ==
    beat.pc = "model" /\ ~rhea.stretched /\ rhea.schedule.first <= MaxFirst
        /\ (rhea.plan = 1 \/ (rhea.plan = 2 /\ rhea.attempt = 0))
      => rhea.elapsed + Margin <= ModelCallDeadline(rhea.schedule)

(* A turn that has gone dark is not shown as still running: the trace calls  *)
(* it failed, completed or answered, and what it calls failed or completed,  *)
(* the conversation does too.  Open it stays only when Janus gave the turn up *)
(* for its budget, while a call of the turn has had no result, and after a    *)
(* failed model call, when Techor may carry out a call of an earlier turn     *)
(* (ui_projection.cpp:249-325, 876-941).                                      *)
SettledTurnsAreTold ==
    Now("ray.darkened") =>
        /\ \/ Trace(log) \in {"failed", "completed", "replied"}
           \/ Terminated(log)
           \/ LastInTurn(log, {"model.tool-call"}) > ResultOf(log)
           \/ InTurn(log, {"model.failed"}) # {}
        /\ Trace(log) = "completed" => Closing(log) = "task.completed"
        /\ Trace(log) = "failed" =>
              Closing(log) = "task.failed" \/ \E i \in Rows(log) : RowTone(log[i]) = "danger"

(* A tool that acts on the outside and whose outcome a crash left unknown is *)
(* not run again for the same call (docs/BUILTIN-LENSES-DESIGN.md:516).      *)
UnknownIsNotRepeated ==
    /\ Now("act.started") /\ log[Len(log)].act.kind = "tool"
    /\ RiskOf[PolicyKind(log[Len(log)].act)] # "observe"
    =>
        \A i \in Positions(Before, {"act.outcome-unknown"}) :
            log[i].act # log[Len(log)].act

=============================================================================
