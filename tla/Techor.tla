------------------------------- MODULE Techor -------------------------------
(***************************************************************************)
(* The tool Lens (src/lenses/techor): the tool catalog, and the one Act    *)
(* that comes next, from a code frame, from a workflow dispatch or from    *)
(* the last tool call of the model, in this order.                         *)
(*                                                                         *)
(* Arguments: of tool.registered and tool.unregistered the tool's name; of *)
(* external.catalog-observed the set of its names; of model.tool-call the  *)
(* name and whether the call decodes (schema, arguments, workspace); of    *)
(* code.frame the sequence of tools it uses; of a dispatch the step  *)
(* and whether its Act is concrete: kind, schema and a map of parameters.  *)
(***************************************************************************)
EXTENDS RayPhotons

CONSTANT BuiltIns   \* the four tools of the catalog that no photon registers

\* The photons that define a tool, 0 standing for its built-in definition.  An
\* unregistration drops all of them and keeps external ones out until the next
\* registration.
Definitions(log, tool) ==
    LET Gone(i) == {j \in Positions(log, {"tool.unregistered"}) :
                        j > i /\ log[j].arg = tool}
        registered == {i \in Positions(log, {"tool.registered"}) :
                        log[i].arg = tool}
        observed == {i \in Positions(log, {"external.catalog-observed"}) :
                        /\ tool \in log[i].arg
                        /\ \A j \in Gone(0) :
                              j < i => \E k \in registered : j < k /\ k < i}
        builtIn == IF tool \in BuiltIns THEN {0} ELSE {}
    IN  {i \in builtIn \cup registered \cup observed : Gone(i) = {}}

\* A tool is called only when its name resolves to one definition.
Decodable(log, tool) == Cardinality(Definitions(log, tool)) = 1

CodeAct(frame, k, tool) == Act("tool", frame, [step |-> k, tool |-> tool])

\* The first instruction of the last code frame that has not completed, 0 if all have.
NextInstruction(log) ==
    LET c == Latest(log, {"code.frame"})
        Done(k) == \E i \in Positions(log, {"act.completed"}) :
                       log[i].act = CodeAct(c, k, log[c].arg[k])
        todo == IF c = 0 THEN {} ELSE {k \in DOMAIN log[c].arg : ~Done(k)}
    IN  IF todo = {} THEN 0 ELSE Min(todo)

\* An instruction that was started, whatever became of it, is not proposed again.
CodeProposal(log) ==
    LET c == Latest(log, {"code.frame"})
        k == NextInstruction(log)
        act == CodeAct(c, k, log[c].arg[k])
    IN  IF StartsOf(log, act) = {} /\ Decodable(log, log[c].arg[k])
          THEN act ELSE NoAct

Dispatches == {"workflow.step-dispatched", "workflow.compensation-dispatched"}

\* Mutant: any Act that starts after a dispatch is taken for its own.
WaitingDispatchOnce(log) ==
    LET d == Latest(log, Dispatches)
    IN  IF d > Latest(log, {"act.started"}) THEN d ELSE 0

\* The last dispatch of a workflow, until an Act that carries it has started.
WaitingDispatch(log) ==
    LET d == Latest(log, Dispatches)
        started == \E i \in Positions(log, {"act.started"}) :
                       log[i].act.kind = "dispatch" /\ log[i].act.of = d
    IN  IF started THEN 0 ELSE d

\* A dispatch without a kind, a schema or a map of parameters is told in a diagnostic
\* and nothing else.
DispatchProposal(log) ==
    LET d == WaitingDispatch(log)
    IN  IF d # 0 /\ log[d].arg.concrete
          THEN Act("dispatch", d, [node |-> log[d].arg.node,
                      compensation |->
                          log[d].kind = "workflow.compensation-dispatched"])
          ELSE NoAct

\* The last tool call of the model, of whichever turn, until some result follows it.
CallProposal(log) ==
    LET c == Latest(log, {"model.tool-call"})
    IN  IF /\ c # 0
           /\ Latest(log, ToolResults) < c
           /\ log[c].arg.valid
           /\ Decodable(log, log[c].arg.tool)
          THEN Act("tool", c, [step |-> 0, tool |-> log[c].arg.tool])
          ELSE NoAct

\* TechorLens::view: an unfinished code frame hides whatever comes after it, and so
\* does a dispatch that waits, even one that is not proposed.
TechorView(log) ==
    IF NextInstruction(log) # 0 THEN CodeProposal(log)
    ELSE IF WaitingDispatch(log) # 0 THEN DispatchProposal(log)
    ELSE CallProposal(log)
=============================================================================
