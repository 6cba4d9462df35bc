------------------------------ MODULE MCAgent ------------------------------
(***************************************************************************)
(* Small instances of Agent: a calculator that runs freely, and commands,  *)
(* whose risk may need approval.                                           *)
(***************************************************************************)
EXTENDS Agent

CONSTANTS calculate, run_command, alice, bob

Kinds == [t \in {calculate, run_command} |->
             IF t = run_command THEN "process.exec" ELSE "tool.calculate"]

Risks == [k \in {"model.call", "ray.terminate", "ray.cancel", "ray.steer", "approval.decide",
                 "tool.calculate", "process.exec"} |->
             IF k \in {"process.exec", "model.call"} THEN "external"
             ELSE IF k \in {"tool.calculate", "ray.terminate"} THEN "observe"
             ELSE "reversible"]

\* The policy when nothing is configured, and one that asks about commands.
Default == [rules |-> {}, default |-> "allow", approvals |-> {"external_irreversible"}]
Cautious == [Default EXCEPT !.rules = {[acts |-> {"process.exec"}, effect |-> "ask"]}]

\* The project would allow commands; it cannot widen what the user grants.
Widening == {[rules |-> {[acts |-> {"process.exec"}, effect |-> "allow"]},
              default |-> "allow", approvals |-> {}]}

Delta(id, index, name, piece, value) ==
    [id |-> id, index |-> index, name |-> name, piece |-> piece, value |-> value]

TextEvent == [kind |-> "text"]
CallEvent(items) == [kind |-> "call", items |-> items]
Partial(index, piece) == [kind |-> "partial", index |-> index, piece |-> piece]

\* Answers: two pieces of text; an OpenAI stream that names the id of a call in its
\* first delta only; a call with text in one body; an Anthropic stream with a call
\* whose arguments come in pieces and one whose arguments come at once.
Answers ==
    {[protocol |-> "gemini", events |-> <<TextEvent, TextEvent>>],
     [protocol |-> "openai", events |->
        <<CallEvent(<<Delta("id1", "0", calculate, Absent, Absent)>>),
          CallEvent(<<Delta(Absent, "0", Absent, 1, Absent)>>),
          CallEvent(<<Delta(Absent, "0", Absent, 2, Absent)>>)>>],
     [protocol |-> "gemini", events |->
        <<TextEvent, CallEvent(<<Delta(Absent, "0", calculate, Absent, Full)>>)>>],
     [protocol |-> "anthropic", events |->
        <<CallEvent(<<Delta("id1", "0", calculate, Absent, Empty)>>),
          Partial("0", 1), Partial("0", 2),
          CallEvent(<<Delta("id2", "1", run_command, Absent, Full)>>)>>]}

KeyOrder == <<"0", "1", "id1", "id2">>

\* Three attempts of which the second wait is cut, one attempt with each value outside
\* its limits, and two with a wait for the first byte above Janus' limit.
Schedule(attempts, backoff, first) ==
    [attempts |-> attempts, backoff |-> backoff, first |-> first]

OneSchedule == {Schedule(3, 2, 2)}
ThreeSchedules == OneSchedule \cup {Schedule(0, 9, 0), Schedule(2, 0, 9)}

Decision(approved, scope, approver, required) ==
    [approved |-> approved, scope |-> scope, approver |-> approver, required |-> required]

OneOrTwoApprovers == {Decision(TRUE, "one_shot", alice, {alice}),
                      Decision(TRUE, "one_shot", alice, {alice, bob}),
                      Decision(TRUE, "one_shot", bob, {alice, bob}),
                      Decision(TRUE, "session", alice, {alice}),
                      Decision(FALSE, "session", bob, {alice})}

TwoStepFrames == {<<calculate, run_command>>}
=============================================================================
