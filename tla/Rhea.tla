-------------------------------- MODULE Rhea --------------------------------
(***************************************************************************)
(* The model gateway (src/lenses/rhea): one model call, over providers and *)
(* attempts with retries and waits, and the photons that record it.        *)
(*                                                                         *)
(* An answer is the events of a stream, or a whole body as one event, in    *)
(* the form of three protocols.  A delta of a tool call has an id, an index, *)
(* a name, a piece of the arguments' text and the arguments as a value, each *)
(* of them or Absent.  Texts are counted in pieces; usage, reasoning, the   *)
(* photons of single chunks and credentials are left out.  Time is counted  *)
(* only where Janus' deadline must cover it.                               *)
(***************************************************************************)
EXTENDS Beat, SequencesExt

CONSTANTS
    Absent,         \* a field that an event does not have
    Keys,           \* ids and indices of tool calls, in the order of std::map
    Plans,          \* the provider and its fallbacks: how many.  Janus names no fallback
    Schedules,      \* the configured schedules: [attempts, backoff, first]
    MaxAttempts,    \* 10; attempts are limited to 1 .. MaxAttempts
    MaxWait,        \* 60 s, in units of time; a wait is limited to 0 .. MaxWait
    MinFirst, MaxFirst, \* 1 s and 300 s: Janus' limits to first_token_timeout_ms
    Margin,         \* scheduler_margin_ms, 15 s
    RetryAfters,    \* the Retry-After values a provider may answer with
    Responses       \* the answers of a provider: [protocol, events]

ASSUME KeysAssumption == IsFiniteSet(DOMAIN Keys)

-----------------------------------------------------------------------------
(* How an answer is read *)

\* The text of the arguments is whole when it has all its pieces in their order.
WholeText == <<1, 2>>

\* The values that arguments may have: none of a map, an empty map, all of it.
NoArguments == "null"
Empty == "{}"
Full == "{..}"

Unread == [text |-> 0, tools |-> <<>>]

NewTool == [name |-> Absent, text |-> <<>>, direct |-> NoArguments]

ToolAt(parsed, key) ==
    IF key \in DOMAIN parsed.tools THEN parsed.tools[key] ELSE NewTool

WithTool(parsed, key, tool) ==
    [parsed EXCEPT !.tools = [k \in DOMAIN @ \cup {key} |-> IF k = key THEN tool ELSE @[k]]]

\* append_tool_delta: a delta with an id goes by its id, one without by its index.
AppendToolDelta(parsed, item) ==
    LET key == IF item.id # Absent THEN item.id ELSE item.index
        tool == ToolAt(parsed, key)
    IN  WithTool(parsed, key,
            [name |-> IF item.name # Absent THEN item.name ELSE tool.name,
             text |-> IF item.piece # Absent THEN Append(tool.text, item.piece) ELSE tool.text,
             direct |-> IF item.value # Absent THEN item.value ELSE tool.direct])

Text(parsed) == [parsed EXCEPT !.text = @ + 1]

\* parse_event.  An error is told as text.  A partial_json of Anthropic goes by its
\* index, the content block that it belongs to by its id; a body that is not a
\* stream has neither.
ParseEvent(protocol, parsed, event) ==
    CASE event.kind \in {"error", "text"} -> Text(parsed)
      [] event.kind = "call" -> FoldLeft(AppendToolDelta, parsed, event.items)
      [] event.kind = "partial" /\ protocol = "anthropic" ->
            LET tool == ToolAt(parsed, event.index)
            IN  WithTool(parsed, event.index, [tool EXCEPT !.text = Append(@, event.piece)])
      [] OTHER -> parsed

\* parse_response, and what a stream is read into event by event.
Parsed(response) ==
    FoldLeft(LAMBDA parsed, event : ParseEvent(response.protocol, parsed, event),
             Unread, response.events)

\* The arguments of a tool call, or NoArguments when it is incomplete.
Arguments(tool) ==
    IF tool.name = Absent THEN NoArguments
    ELSE IF tool.text = <<>> THEN tool.direct
    ELSE IF tool.text = WholeText THEN Full ELSE NoArguments

\* The calls that are told: those that are complete, in the order of their keys.
Calls(parsed) ==
    LET told == {i \in DOMAIN Keys :
                    /\ Keys[i] \in DOMAIN parsed.tools
                    /\ Arguments(parsed.tools[Keys[i]]) # NoArguments}
        Nth(n) == parsed.tools[Keys[CHOOSE i \in told :
                                        Cardinality({j \in told : j <= i}) = n]]
    IN  [n \in 1 .. Cardinality(told) |->
            [tool |-> Nth(n).name, valid |-> Arguments(Nth(n)) = Full]]

\* An answer with neither text nor a tool call, whole or not, is an error.
HasContent(parsed) == parsed.text > 0 \/ parsed.tools # <<>>
-----------------------------------------------------------------------------
VARIABLE rhea       \* [plan, attempt, elapsed, stretched, schedule]

NoCall == [plan |-> 1, attempt |-> 0, elapsed |-> 0, stretched |-> FALSE,
           schedule |-> [attempts |-> 1, backoff |-> 0, first |-> 1]]

Clamp(x, low, high) == Max({low, Min({x, high})})

AttemptsOf(schedule) == Clamp(schedule.attempts, 1, MaxAttempts)

\* Mutant: the last wait is forgotten.
ModelCallDeadlineTooShort(schedule) ==
    LET attempts == AttemptsOf(schedule)
        wait[n \in 0 .. attempts] ==
            IF n = 0 THEN Clamp(schedule.backoff, 0, MaxWait)
                     ELSE Min({wait[n - 1] * 2, MaxWait})
    IN  attempts * Clamp(schedule.first, MinFirst, MaxFirst)
          + MapThenSumSet(LAMBDA n : wait[n], 0 .. attempts - 3) + Margin

\* Janus' model_call_deadline: every attempt for as long as Janus lets it wait for its
\* first byte, the waits between them, each twice the one before, and a margin.
ModelCallDeadline(schedule) ==
    LET attempts == AttemptsOf(schedule)
        wait[n \in 0 .. attempts] ==
            IF n = 0 THEN Clamp(schedule.backoff, 0, MaxWait)
                     ELSE Min({wait[n - 1] * 2, MaxWait})
    IN  attempts * Clamp(schedule.first, MinFirst, MaxFirst)
          + MapThenSumSet(LAMBDA n : wait[n], 0 .. attempts - 2) + Margin

\* How long Rhea lets an attempt wait for its first byte: Janus' limits are not its own,
\* the whole deadline is.
FirstToken(schedule) == Clamp(schedule.first, 1, ModelCallDeadline(schedule))

\* Rhea's own wait after attempt n (counted from 0).
ScheduledWait(schedule, n) ==
    Min({MaxWait, Clamp(schedule.backoff, 0, MaxWait) * 2^n})

Answer(calls, text) ==
    [k \in DOMAIN calls |-> Said("model.tool-call", calls[k])]
      \o (IF text THEN <<Said("assistant.message", 0)>> ELSE <<>>)
      \o <<Said("model.usage", 1), Said("model.completed", 0)>>

\* The local model: a sum in the prompt becomes a tool call, unless the
\* calculator has answered since the input.
LocalAnswer ==
    LET input == Latest(log, {"user.input"})
    IN  IF log[input].arg = "local-sum" /\ Latest(log, {"tool.result"}) < input
          THEN Answer(<<[tool |-> "calculate", valid |-> TRUE]>>, FALSE)
          ELSE Answer(<<>>, TRUE)

\* model.requested, then the local model at once or the providers.
Request ==
    /\ beat.pc = "run" /\ beat.act.kind = "model.call"
    /\ Appends(Said("model.requested", 0),
               IF log[Latest(log, {"user.input"})].arg = "remote"
                 THEN [beat EXCEPT !.pc = "model"]
                 ELSE [beat EXCEPT !.pc = "emit", !.todo = LocalAnswer,
                                   !.result = "completed"],
               Ends("error"))
    /\ \E schedule \in Schedules :
          rhea' = IF beat'.pc = "model" THEN [rhea EXCEPT !.schedule = schedule] ELSE rhea
    /\ UNCHANGED cancelled

Keep == UNCHANGED <<log, cancelled, disturbances>>

InTime == rhea.elapsed <= ModelCallDeadline(rhea.schedule)

NextPlan == [rhea EXCEPT !.plan = @ + 1, !.attempt = 0]

\* A configuration that gives no valid plan or request is an error.
Misconfigured ==
    /\ beat.pc = "model" /\ rhea.attempt = 0 /\ rhea.plan = 1
    /\ beat' = Ends("error")
    /\ rhea' = NoCall /\ Keep

\* A provider without a credential is skipped.
NoCredential ==
    /\ beat.pc = "model" /\ rhea.plan <= Plans /\ rhea.attempt = 0
    /\ rhea' = NextPlan
    /\ UNCHANGED beat /\ Keep

\* Every attempt first looks whether the Beam was stopped.
Stopped ==
    /\ beat.pc = "model" /\ rhea.plan <= Plans /\ cancelled
    /\ beat' = Ends("cancelled")
    /\ rhea' = NoCall /\ Keep

Responds ==
    /\ beat.pc = "model" /\ rhea.plan <= Plans /\ InTime
    /\ \E r \in Responses :
         LET parsed == Parsed(r)
         IN  HasContent(parsed) /\ Runs(Answer(Calls(parsed), parsed.text > 0), "completed")
    /\ rhea' = NoCall

\* A status that is not retryable ends the provider.
Refused ==
    /\ beat.pc = "model" /\ rhea.plan <= Plans /\ InTime
    /\ rhea' = NextPlan
    /\ UNCHANGED beat /\ Keep

\* Everything else is tried again after a wait, as long as attempts are left.
\* A stream that stalls after its first byte, and a Retry-After that exceeds the
\* schedule, stretch the call.
Retry ==
    /\ beat.pc = "model" /\ rhea.plan <= Plans /\ InTime
    /\ \E spent \in {0, FirstToken(rhea.schedule)}, after \in RetryAfters, stalled \in BOOLEAN :
          LET last == rhea.attempt + 1 >= AttemptsOf(rhea.schedule)
              scheduled == ScheduledWait(rhea.schedule, rhea.attempt)
              wait == IF last THEN 0 ELSE Max({scheduled, Clamp(after, 0, MaxWait)})
              longer == stalled \/ (~last /\ wait > scheduled)
              time == rhea.elapsed + spent + wait
          IN  IF last
                THEN rhea' = [NextPlan EXCEPT !.elapsed = time, !.stretched = @ \/ longer]
                ELSE rhea' = [rhea EXCEPT !.attempt = @ + 1, !.elapsed = time,
                                          !.stretched = @ \/ longer]
    /\ UNCHANGED beat /\ Keep

\* No provider is left.
GivesUp ==
    /\ beat.pc = "model" /\ rhea.plan > Plans /\ InTime
    /\ Appends(Said("model.failed", 0), Ends("failed"), Ends("error"))
    /\ rhea' = NoCall
    /\ UNCHANGED cancelled

\* Nothing is emitted after the deadline of the Beam.
Expired ==
    /\ beat.pc = "model" /\ ~InTime
    /\ beat' = Ends("error")
    /\ rhea' = NoCall /\ Keep

RheaStep == \/ Request \/ Misconfigured \/ NoCredential \/ Stopped
            \/ Responds \/ Refused \/ Retry \/ GivesUp \/ Expired
=============================================================================
