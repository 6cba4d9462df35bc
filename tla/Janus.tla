-------------------------------- MODULE Janus --------------------------------
(***************************************************************************)
(* The agent loop (src/lenses/janus): where a turn stands and what it       *)
(* needs next, worked out from the photons of the ray.                     *)
(***************************************************************************)
EXTENDS RayPhotons

CONSTANTS
    MaxSteps, MaxModelCalls, MaxToolCalls,  \* 64, 16 and 32 by default
    MaxTokens,                              \* 100000 by default
    MaxFailures                             \* 3, the oscillation limit

\* A turn starts with the user's input or with a later steering of it.
TurnStart(log) == Latest(log, {"user.input", "user.steering"})

ResultOf(log) ==
    LET r == Latest(log, ToolResults) IN IF r > TurnStart(log) THEN r ELSE 0

PendingTool(log) ==
    LET call == Latest(log, {"model.tool-call"})
    IN  call > TurnStart(log) /\ ResultOf(log) < call

ResultReady(log) == ResultOf(log) > Latest(log, {"model.tool-call"})

\* Mutant: an answer that came with a tool call completes the turn.
CompleteAtAnswer(log) == Latest(log, {"assistant.message"}) > TurnStart(log)

Complete(log) ==
    LET answer == Latest(log, {"assistant.message"})
    IN  /\ answer > TurnStart(log)
        /\ ~PendingTool(log)
        /\ ResultReady(log) => answer > ResultOf(log)

\* Mutant: a model call that failed is asked again.
WaitingModelUntilFailed(log) ==
    LET asked == Latest(log, {"model.requested"})
    IN  asked > TurnStart(log)
        /\ Latest(log, {"model.completed", "model.failed"}) < asked

\* A model call has been requested and its completion is not recorded.
WaitingModel(log) ==
    LET asked == Latest(log, {"model.requested"})
    IN  asked > TurnStart(log) /\ Latest(log, {"model.completed"}) < asked

Terminated(log) ==
    \E i \in Positions(log, {"ray.cancel-requested", "ray.budget-exhausted",
                             "ray.terminated"}) : i > TurnStart(log)

Tokens(log) ==
    LET used == {i \in Positions(log, {"model.usage"}) : i > TurnStart(log)}
    IN  MapThenSumSet(LAMBDA i : log[i].arg, used)

BudgetExceeded(log) ==
    LET start == TurnStart(log)
    IN  \/ CountAfter(log, {"act.completed"}, start) >= MaxSteps
        \/ CountAfter(log, {"model.requested"}, start) >= MaxModelCalls
        \/ CountAfter(log, {"model.tool-call"}, start) >= MaxToolCalls
        \/ Tokens(log) >= MaxTokens

\* Failures since the last Act that completed.  The other sign of oscillation,
\* three proposals with one hash, cannot occur: the hash binds the proposal cell.
Oscillating(log) ==
    LET since == Max({TurnStart(log), Latest(log, {"act.completed"})})
    IN  CountAfter(log, {"act.failed", "model.failed"}, since) >= MaxFailures

JanusState(log) ==
    CASE Latest(log, {"user.input"}) = 0 -> "idle"
      [] Terminated(log)      -> "terminated"
      [] Complete(log)        -> "complete"
      [] PendingTool(log)     -> "waiting_tool"
      [] WaitingModel(log)    -> "waiting_model"
      [] BudgetExceeded(log)  -> "budget_exhausted"
      [] Oscillating(log)     -> "oscillation_stopped"
      [] OTHER                -> "need_model"

\* JanusLens::view proposes at most one Act.  A model call answers the last
\* result, or else the input; the text of a steering makes it another call.
JanusView(log) ==
    LET state == JanusState(log)
    IN  CASE state \in {"budget_exhausted", "oscillation_stopped"} ->
                 Act("ray.terminate", Len(log), state)
          [] state = "need_model" ->
                 Act("model.call",
                     IF ResultReady(log) THEN ResultOf(log)
                                         ELSE Latest(log, {"user.input"}),
                     TurnStart(log))
          [] OTHER -> NoAct

\* JanusLens::refract
JanusEmits(act) ==
    Said(CASE act.kind = "ray.cancel" -> "ray.cancel-requested"
           [] act.kind = "ray.steer" -> "user.steering"
           [] act.arg = "budget_exhausted" -> "ray.budget-exhausted"
           [] OTHER -> "ray.terminated", 0)
=============================================================================
