---------------------------- MODULE WorkerProxy ----------------------------
(***************************************************************************)
(* A Lens in a process of its own: the proxy that the path holds            *)
(* (src/nyxia/worker/worker_lens_proxy.cpp), the Worker that answers it      *)
(* (src/apps/tokmon-lens-worker/main.cpp and the adapters of the SDKs for    *)
(* TypeScript and Python), and the two pipes between them.                  *)
(*                                                                         *)
(* Several threads of the daemon call the proxy, each for a ray of its own;   *)
(* a mutex lets one request through at a time.  The author's Lens may fail,   *)
(* answer with something malformed, write text where frames are expected,    *)
(* hang, or crash.  What a frame carries is reduced to how many parts an      *)
(* answer has and whether the last of them is malformed.                     *)
(***************************************************************************)
EXTENDS Naturals, Sequences, FiniteSets

CONSTANTS
    Callers,        \* the threads that call view and refract
    Runtimes,       \* of "native_worker", "node", "cpython"
    Sizes,          \* of "small", "large": whether a request fits into the pipe
    Signals,        \* whether writing to a pipe that nobody reads is a signal
    MaxRequests,    \* bound: requests of the proxy
    MaxParts,       \* bound: parts of an answer
    MaxFaults       \* bound: what the Worker does wrong

ASSUME CallersAssumption == {"none", "launch", "stop"} \cap Callers = {}

VARIABLES
    runtime,
    daemon,         \* "up", or "killed" by a signal
    holder,         \* who has the mutex, or "none"
    stopping, next,
    handle,         \* whether the proxy has a process and its pipes
    worker,         \* [state, frame]
    input, output,  \* the pipes: frames, and frames or text
    pc, call,       \* of each thread: where it is, its request
    answer,         \* the response it has read
    outcome,        \* and what became of its last call
    taken,          \* the parts of each answer that were taken in
    faults

proxy == <<stopping, next, handle>>
pipes == <<worker, input, output>>
threads == <<pc, call, answer, outcome, taken>>
vars == <<runtime, daemon, holder, proxy, pipes, threads, faults>>

Threads == Callers \cup {"launch", "stop"}
Kinds == {"lens.view.request", "lens.refract.request"}
NoCall == [id |-> 0, type |-> "none", size |-> "small"]
NoAnswer == [id |-> 0, type |-> "none", ok |-> FALSE, parts |-> 0, whole |-> TRUE]
Text == [NoAnswer EXCEPT !.type = "text"]

Init == /\ runtime \in Runtimes /\ daemon = "up"
        /\ holder = "none" /\ stopping = FALSE /\ next = 1 /\ handle = "open"
        /\ worker = [state |-> "ready", frame |-> NoCall]
        /\ input = <<>> /\ output = <<>>
        /\ pc = [t \in Threads |-> IF t = "launch" THEN "waiting" ELSE "idle"]
        /\ call = [t \in Threads |->
              IF t = "launch" THEN [NoCall EXCEPT !.type = "worker.hello"] ELSE NoCall]
        /\ answer = [t \in Threads |-> NoAnswer]
        /\ outcome = [t \in Threads |-> "none"]
        /\ taken = [t \in Threads |-> 0]
        /\ faults = 0

Launched == outcome["launch"] = "ok"
-----------------------------------------------------------------------------
(* Ends *)

\* terminate: the process and its children are killed, the pipes are closed.
Terminated == /\ handle' = "shut"
              /\ worker' = [state |-> "dead", frame |-> NoCall]
              /\ input' = <<>> /\ output' = <<>>

\* The request of t ends without an answer and the mutex is free again.
Failed(t) ==
    /\ holder' = IF holder = t THEN "none" ELSE holder
    /\ pc' = [pc EXCEPT ![t] = IF t = "stop" THEN "terminating"
                               ELSE IF t = "launch" THEN "violated" ELSE "idle"]
    /\ outcome' = [outcome EXCEPT ![t] = "error"]
    /\ call' = [call EXCEPT ![t] = IF t = "stop" THEN @ ELSE NoCall]
    /\ UNCHANGED <<answer, taken>>

Finished(t, how) ==
    /\ pc' = [pc EXCEPT ![t] = "idle"]
    /\ outcome' = [outcome EXCEPT ![t] = how]
    /\ call' = [call EXCEPT ![t] = NoCall]
    /\ answer' = [answer EXCEPT ![t] = NoAnswer]

\* launch and view find that the Worker does not keep to the protocol.
Violates(t) ==
    /\ pc' = [pc EXCEPT ![t] = "violated"]
    /\ UNCHANGED <<call, answer, outcome>>
-----------------------------------------------------------------------------
(* Requests *)

\* A view or a refraction is asked of the proxy, and waits for the mutex.
Ask(t) ==
    /\ daemon = "up" /\ t \in Callers /\ pc[t] = "idle" /\ Launched
    /\ next + Cardinality({u \in Callers : pc[u] = "waiting"}) <= MaxRequests
    /\ \E type \in Kinds, size \in Sizes :
          call' = [call EXCEPT ![t] = [id |-> 0, type |-> type, size |-> size]]
    /\ pc' = [pc EXCEPT ![t] = "waiting"]
    /\ outcome' = [outcome EXCEPT ![t] = "none"]
    /\ taken' = [taken EXCEPT ![t] = 0]
    /\ UNCHANGED <<runtime, daemon, holder, proxy, pipes, answer, faults>>

\* Mutant: what was asked before the stop is sent, however long it waited.
EnterUnchecked(t) ==
    /\ daemon = "up" /\ pc[t] = "waiting" /\ holder = "none"
    /\ holder' = t
    /\ call' = [call EXCEPT ![t].id = next] /\ next' = next + 1
    /\ pc' = [pc EXCEPT ![t] = "sending"]
    /\ UNCHANGED <<outcome, runtime, daemon, stopping, handle, pipes, answer, taken, faults>>

Enter(t) ==
    /\ daemon = "up" /\ pc[t] = "waiting" /\ holder = "none"
    /\ IF stopping /\ t # "stop"
         THEN Finished(t, "error") /\ UNCHANGED <<holder, next>>
         ELSE /\ holder' = t
              /\ call' = [call EXCEPT ![t].id = next] /\ next' = next + 1
              /\ pc' = [pc EXCEPT ![t] = "sending"]
              /\ UNCHANGED <<answer, outcome>>
    /\ UNCHANGED <<runtime, daemon, stopping, handle, pipes, taken, faults>>

\* write_bytes, of a pipe that the Worker still has open or has not yet emptied.
Send(t) ==
    /\ daemon = "up" /\ pc[t] = "sending" /\ handle = "open" /\ worker.state # "dead"
    /\ call[t].size = "small" \/ (input = <<>> /\ worker.frame # call[t])
    /\ input' = Append(input, call[t])
    /\ pc' = [pc EXCEPT ![t] = IF call[t].size = "small" THEN "reading" ELSE @]
    /\ UNCHANGED <<runtime, daemon, holder, proxy, worker, output, call, answer, outcome,
                   taken, faults>>

\* A large request has been written once the Worker has read it.
Sent(t) ==
    /\ daemon = "up" /\ pc[t] = "sending" /\ worker.frame = call[t]
    /\ pc' = [pc EXCEPT ![t] = "reading"]
    /\ UNCHANGED <<runtime, daemon, holder, proxy, pipes, call, answer, outcome, taken, faults>>

\* The pipe is closed: an error, or a signal that nothing in the daemon handles.
SendFails(t) ==
    /\ daemon = "up" /\ pc[t] = "sending" /\ (handle = "shut" \/ worker.state = "dead")
    /\ IF Signals /\ handle = "open"
         THEN daemon' = "killed" /\ UNCHANGED <<holder, threads>>
         ELSE Failed(t) /\ UNCHANGED daemon
    /\ UNCHANGED <<runtime, proxy, pipes, faults>>

\* Mutant: the answer is not compared with the request.
ReadUnmatched(t) ==
    /\ daemon = "up" /\ pc[t] = "reading" /\ output # <<>>
    /\ \/ /\ Head(output) = Text
          /\ output' \in {output, Tail(output)}
          /\ Failed(t)
       \/ /\ Head(output) # Text
          /\ output' = Tail(output)
          /\ answer' = [answer EXCEPT ![t] = Head(output)]
          /\ holder' = "none"
          /\ pc' = [pc EXCEPT ![t] = IF t = "stop" THEN "terminating" ELSE "handling"]
          /\ UNCHANGED <<call, outcome, taken>>
    /\ UNCHANGED <<runtime, daemon, proxy, worker, input, faults>>

\* read_bytes.  Text has no valid length: it goes four bytes at a time, and an answer
\* behind it stays for a later request to read.
Read(t) ==
    /\ daemon = "up" /\ pc[t] = "reading" /\ output # <<>>
    /\ \/ /\ Head(output) = Text
          /\ output' \in {output, Tail(output)}
          /\ Failed(t)
       \/ /\ Head(output) # Text /\ Head(output).id # call[t].id
          /\ output' = Tail(output)
          /\ Failed(t)
       \/ /\ Head(output) # Text /\ Head(output).id = call[t].id
          /\ output' = Tail(output)
          /\ answer' = [answer EXCEPT ![t] = Head(output)]
          /\ holder' = "none"
          /\ pc' = [pc EXCEPT ![t] = IF t = "stop" THEN "terminating" ELSE "handling"]
          /\ UNCHANGED <<call, outcome, taken>>
    /\ UNCHANGED <<runtime, daemon, proxy, worker, input, faults>>

\* The pipe has been closed at the other end and is empty.
ReadFails(t) ==
    /\ daemon = "up" /\ pc[t] = "reading" /\ output = <<>>
    /\ handle = "open" /\ worker.state = "dead"
    /\ Failed(t)
    /\ UNCHANGED <<runtime, daemon, proxy, pipes, faults>>

\* Mutant: the deadline is looked at only when the pipe is ready.
ExpireWhenReady(t) ==
    /\ daemon = "up" /\ pc[t] = "reading" /\ output # <<>>
    /\ Terminated
    /\ Failed(t)
    /\ UNCHANGED <<runtime, daemon, stopping, next, faults>>

\* The deadline passes, or the beam is cancelled, and no whole answer has been read.
Expire(t) ==
    /\ daemon = "up" /\ pc[t] = "reading"
    /\ Terminated
    /\ Failed(t)
    /\ UNCHANGED <<runtime, daemon, stopping, next, faults>>
-----------------------------------------------------------------------------
(* What is made of an answer, after the mutex has been given back *)

Type(t) == answer[t].type

\* launch, view and refract look at the answer.
Handle(t) ==
    /\ daemon = "up" /\ pc[t] = "handling"
    /\ \/ /\ t = "launch"
          /\ IF Type(t) = "worker.ready" /\ answer[t].whole THEN Finished(t, "ok") ELSE Violates(t)
       \/ /\ call[t].type = "lens.view.request"
          /\ IF Type(t) # "lens.view.result" THEN Violates(t)
             ELSE IF ~answer[t].ok THEN Finished(t, "error")
             ELSE IF ~answer[t].whole THEN Violates(t)
             ELSE Finished(t, "ok")
       \/ /\ call[t].type = "lens.refract.request"
          /\ IF Type(t) # "lens.refract.result" \/ ~answer[t].ok THEN Finished(t, "error")
             ELSE pc' = [pc EXCEPT ![t] = "taking"] /\ UNCHANGED <<call, answer, outcome>>
    /\ UNCHANGED <<runtime, daemon, holder, proxy, pipes, taken, faults>>

\* An answer that breaks the protocol of a view, or of the launch: the Worker is
\* terminated, whatever another thread is waiting for.
Violated(t) ==
    /\ daemon = "up" /\ pc[t] = "violated"
    /\ Terminated
    /\ Finished(t, "error")
    /\ UNCHANGED <<runtime, daemon, holder, stopping, next, taken, faults>>

\* The drafts of a refraction become photons one by one.  The beam may be cancelled
\* or expire between them, and a draft may be incomplete.
Take(t) ==
    /\ daemon = "up" /\ pc[t] = "taking"
    /\ \/ /\ taken[t] < answer[t].parts
          /\ taken' = [taken EXCEPT ![t] = @ + 1]
          /\ UNCHANGED <<pc, call, answer, outcome>>
       \/ /\ taken[t] = answer[t].parts
          /\ Finished(t, IF answer[t].whole THEN "ok" ELSE "error")
          /\ UNCHANGED taken
       \/ /\ taken[t] < answer[t].parts
          /\ Finished(t, "error")
          /\ UNCHANGED taken
    /\ UNCHANGED <<runtime, daemon, holder, proxy, pipes, faults>>
-----------------------------------------------------------------------------
(* request_stop: a call that has begun is waited for; then the Worker is asked to     *)
(* end, and is killed.                                                       *)

Stop ==
    /\ daemon = "up" /\ ~stopping /\ Launched /\ pc["stop"] = "idle"
    /\ stopping' = TRUE
    /\ call' = [call EXCEPT !["stop"].type = "worker.shutdown"]
    /\ pc' = [pc EXCEPT !["stop"] = "waiting"]
    /\ UNCHANGED <<runtime, daemon, holder, next, handle, pipes, answer, outcome, taken, faults>>

Kill ==
    /\ daemon = "up" /\ pc["stop"] = "terminating"
    /\ pc' = [pc EXCEPT !["stop"] = "done"]
    /\ Terminated
    /\ UNCHANGED <<runtime, daemon, holder, stopping, next, call, answer, outcome, taken, faults>>
-----------------------------------------------------------------------------
(* The Worker *)

Reply(frame, type, ok, parts, whole) ==
    [id |-> frame.id, type |-> type, ok |-> ok, parts |-> parts, whole |-> whole]

\* What the adapters of the languages answer; an exception becomes a failure, of a
\* view or else of a refraction.
LanguageReplies(frame) ==
    IF frame.type = "worker.hello"
      THEN {Reply(frame, "worker.ready", TRUE, 0, TRUE),
            Reply(frame, "lens.refract.result", FALSE, 0, TRUE)}
    ELSE LET type == IF frame.type = "lens.view.request" THEN "lens.view.result"
                     ELSE "lens.refract.result"
         IN  {Reply(frame, type, FALSE, 0, TRUE)}
                \cup {Reply(frame, type, TRUE, n, whole) : n \in 0 .. MaxParts, whole \in BOOLEAN}

\* What the native server answers; it names no version, so that a manifest which
\* names one is not matched, and its own builder makes no malformed cell or draft.
NativeReplies(frame) ==
    IF frame.type = "worker.hello"
      THEN {Reply(frame, "worker.ready", TRUE, 0, whole) : whole \in BOOLEAN}
      ELSE {r \in LanguageReplies(frame) : r.whole}

Replies(frame) == IF runtime = "native_worker" THEN NativeReplies(frame) ELSE LanguageReplies(frame)

Receive ==
    /\ worker.state = "ready" /\ input # <<>>
    /\ worker' = [state |-> "serving", frame |-> Head(input)]
    /\ input' = Tail(input)
    /\ UNCHANGED <<runtime, daemon, holder, proxy, output, threads, faults>>

Respond ==
    /\ worker.state = "serving"
    /\ IF worker.frame.type = "worker.shutdown"
         THEN /\ output' = Append(output, Reply(worker.frame, "worker.stopped", TRUE, 0, TRUE))
              /\ worker' = [worker EXCEPT !.state = "dead"]
         ELSE /\ \E r \in Replies(worker.frame) : output' = Append(output, r)
              /\ worker' = [worker EXCEPT !.state = "ready"]
    /\ UNCHANGED <<runtime, daemon, holder, proxy, input, threads, faults>>

\* The author's code writes a line, hangs, or takes the process down.
Misbehave ==
    /\ faults < MaxFaults /\ worker.state # "dead"
    /\ faults' = faults + 1
    /\ \/ /\ worker.state = "serving"
          /\ output' = Append(output, Text)
          /\ UNCHANGED worker
       \/ /\ worker' = [worker EXCEPT !.state = "hung"]
          /\ UNCHANGED output
       \/ /\ worker' = [worker EXCEPT !.state = "dead"]
          /\ UNCHANGED output
    /\ UNCHANGED <<runtime, daemon, holder, proxy, input, threads>>
-----------------------------------------------------------------------------
Step(t) == Enter(t) \/ Send(t) \/ Sent(t) \/ SendFails(t) \/ Read(t) \/ ReadFails(t) \/ Expire(t)
             \/ Handle(t) \/ Violated(t) \/ Take(t)

Next == (\E t \in Threads : Ask(t) \/ Step(t)) \/ Stop \/ Kill \/ Receive \/ Respond \/ Misbehave

\* Threads run and deadlines pass, and a Worker that does not hang reads and answers.  That
\* is enough for a thread that waits for the mutex, as the requests are bounded.
Fairness ==
    /\ \A t \in Threads : WF_vars(Step(t))
    /\ WF_vars(Kill) /\ WF_vars(Receive) /\ WF_vars(Respond)

Spec == Init /\ [][Next]_vars /\ Fairness
-----------------------------------------------------------------------------
(* An answer that a caller makes something of is the answer to its request,   *)
(* although text, failures and deadlines leave the answers to others behind.  *)
AnswersAreOwn ==
    \A t \in Threads : pc[t] \in {"handling", "violated", "taking"} =>
        answer[t].id \in {call[t].id, 0}

(* Once request_stop has returned there is no process, no pipe and no request *)
(* on its way: the generation may be unloaded.                               *)
StoppedMeansGone ==
    pc["stop"] = "done" =>
        /\ worker.state = "dead" /\ handle = "shut"
        /\ \A t \in Callers : pc[t] \notin {"sending", "reading"}

(* After it has been asked to end, the Worker is given nothing to do, however   *)
(* long a request had been waiting for the mutex.                            *)
ShutdownIsLast ==
    call["stop"].id # 0 => \A t \in Callers : call[t].id < call["stop"].id

(* Every call and every stop returns, whatever the Worker does: unless it reads *)
(* no more while a request is written that does not fit into the pipe.        *)
Blocked == worker.state = "hung" /\ \E t \in Threads : pc[t] = "sending"

CallsReturn ==
    /\ \A t \in Callers : pc[t] = "waiting" ~> pc[t] = "idle" \/ Blocked
    /\ pc["stop"] = "waiting" ~> pc["stop"] = "done" \/ Blocked
=============================================================================
