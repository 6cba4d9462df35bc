----------------------------- MODULE Projection -----------------------------
(***************************************************************************)
(* What the desktop tells of a ray, worked out from its photons alone: the *)
(* rows of the conversation and how it closes a turn, the summary above    *)
(* the trace.  Wording is left out.                                        *)
(***************************************************************************)
EXTENDS RayPhotons

\* Both views begin a turn with the last input.
Inputs_ == {"user.input", "user.message"}
ThisTurn(log) == {i \in DOMAIN log : i >= Latest(log, Inputs_)}
InTurn(log, kinds) == Positions(log, kinds) \cap ThisTurn(log)
LastInTurn(log, kinds) == Max(InTurn(log, kinds) \cup {0})

Verifiable == {"tool.result", "fs.changed", "fs.read-completed", "process.exited"}
-----------------------------------------------------------------------------
(* conversation_workflow_item: the photons that have a row, and its tone    *)

Good == {"tool.result", "fs.read-completed", "fs.read", "fs.changed", "fs.written", "fs.created",
         "workflow.step-completed", "workflow.compensation-completed", "workflow.resumed"}
Bad == {"model.failed", "act.failed", "act.rejected", "workflow.step-failed",
        "workflow.compensation-failed", "workflow.cancelled"}
UnderWay == {"model.tool-call", "fs.deleted", "process.started", "process.stderr",
             "worker.progress", "workflow.step-dispatched", "workflow.step-retry-requested",
             "workflow.compensation-dispatched", "workflow.paused"}
Plain == {"process.stdout", "process.output", "workflow.defined", "workflow.step-skipped"}

\* The end of a model call has no row of its own, unless admission refused it: a
\* refusal does not name the Act.
HasRow(photon) ==
    /\ photon.kind \in Good \cup Bad \cup UnderWay \cup Plain \cup {"process.exited"}
    /\ photon.kind \in {"act.failed", "act.rejected"} => photon.act.kind # "model.call"

RowTone(photon) ==
    IF photon.kind = "process.exited" THEN IF photon.arg = 0 THEN "success" ELSE "danger"
    ELSE IF photon.kind \in Good THEN "success"
    ELSE IF photon.kind \in Bad THEN "danger"
    ELSE IF photon.kind \in UnderWay THEN "warning"
    ELSE "neutral"

Rows(log) == {i \in ThisTurn(log) : HasRow(log[i])}

\* The row that conversation_workflow_from puts at the end of a turn.
Closing(log) ==
    LET assistant == LastInTurn(log, {"assistant.message"})
        result == LastInTurn(log, Verifiable)
        calls == InTurn(log, {"model.tool-call"})
    IN  IF assistant > result /\ result > 0 /\ calls # {} THEN "task.completed"
        ELSE IF assistant > 0 /\ calls = {} THEN "agent.reply-only"
        ELSE IF InTurn(log, {"model.failed", "act.failed"}) # {} THEN "task.failed"
        ELSE "open"
-----------------------------------------------------------------------------
(* trace_summary_from *)

\* Mutant: what was found is not reset when a turn begins.
TraceOfRay(log) ==
    LET call == Latest(log, {"model.tool-call"})
        result == Latest(log, Verifiable)
        assistant == Latest(log, {"assistant.message"})
        failure == Latest(log, {"model.failed", "act.failed", "act.rejected"})
    IN  IF failure > assistant /\ failure > result THEN "failed"
        ELSE IF call > 0 /\ result > call /\ assistant > result THEN "completed"
        ELSE IF assistant > 0 THEN IF call = 0 THEN "replied" ELSE "waiting"
        ELSE "running"

Trace(log) ==
    LET call == LastInTurn(log, {"model.tool-call"})
        result == LastInTurn(log, Verifiable)
        assistant == LastInTurn(log, {"assistant.message"})
        failure == LastInTurn(log, {"model.failed", "act.failed", "act.rejected"})
    IN  IF failure > assistant /\ failure > result THEN "failed"
        ELSE IF call > 0 /\ result > call /\ assistant > result THEN "completed"
        ELSE IF assistant > 0 THEN IF call = 0 THEN "replied" ELSE "waiting"
        ELSE IF Positions(log, Inputs_) # {} THEN "running" ELSE "empty"
=============================================================================
