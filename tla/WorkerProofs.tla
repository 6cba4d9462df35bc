---------------------------- MODULE WorkerProofs ----------------------------
(***************************************************************************)
(* What TLAPS proves of the proxy of a Worker, for any number of threads,  *)
(* requests and faults: answers go to their requests, the shutdown is the  *)
(* last request, and nothing is left when the stop has returned.           *)
(***************************************************************************)
EXTENDS WorkerProxy, TLAPS

Places == {"idle", "waiting", "sending", "reading", "handling", "violated", "taking",
           "terminating", "done"}

Types == Kinds \cup {"none", "worker.hello", "worker.shutdown"}

Requests == [id : Nat, type : Types, size : Sizes \cup {"small"}]

TypeOK ==
    /\ pc \in [Threads -> Places]
    /\ call \in [Threads -> Requests]
    /\ answer = [t \in Threads |-> answer[t]]
    /\ next \in Nat /\ next > 0
    /\ stopping \in BOOLEAN

\* Until its answer is read a thread has none.
NotAnswered == \A t \in Threads :
    t # "stop" /\ pc[t] \in {"idle", "waiting", "sending", "reading"} => answer[t].id = 0

\* Requests are numbered in the order in which they get the mutex.
Numbered == /\ \A t \in Threads : call[t].id < next
            /\ pc["stop"] # "idle" \/ call["stop"].id # 0 => stopping

\* Who sends or reads has the mutex.
Exclusive == \A t \in Threads : pc[t] \in {"sending", "reading"} => holder = t

\* From the shutdown on nobody else sends or reads.
Alone == pc["stop"] \in {"sending", "reading", "terminating", "done"} =>
            \A t \in Callers : pc[t] \notin {"sending", "reading"}

Gone == pc["stop"] = "done" => worker.state = "dead" /\ handle = "shut"

\* The answer to the shutdown is looked at by nobody.
StopNeverHandles == pc["stop"] \notin {"handling", "violated", "taking"}

Inv == /\ TypeOK /\ NotAnswered /\ Numbered /\ Exclusive /\ Alone /\ Gone
       /\ StopNeverHandles /\ AnswersAreOwn /\ ShutdownIsLast

LEMMA ThreadsAre == /\ Callers \subseteq Threads /\ "launch" \in Threads /\ "stop" \in Threads
                    /\ "launch" \notin Callers /\ "stop" \notin Callers
                    /\ "none" \notin Threads
BY CallersAssumption DEF Threads

LEMMA CallTyped ==
    ASSUME call = [t \in Threads |->
               IF t = "launch" THEN [NoCall EXCEPT !.type = "worker.hello"] ELSE NoCall]
    PROVE  call \in [Threads -> Requests]
<1> DEFINE hello == [NoCall EXCEPT !.type = "worker.hello"]
<1>1. NoCall \in Requests /\ hello \in Requests
  BY DEF NoCall, Types, Requests
<1>2. call = [t \in Threads |-> IF t = "launch" THEN hello ELSE NoCall]
  OBVIOUS
<1> DEFINE first(t) == IF t = "launch" THEN hello ELSE NoCall
<1>3. \A t \in Threads : first(t) \in Requests
  <2> HIDE DEF hello
  <2> QED
    BY <1>1
<1>4. call = [t \in Threads |-> first(t)]
  BY <1>2
<1> HIDE DEF first
<1> QED
  BY <1>3, <1>4

LEMMA Initially == Init => Inv
<1> SUFFICES ASSUME Init PROVE Inv
  OBVIOUS
<1> USE ThreadsAre DEF Init
<1>1. TypeOK
  <2>1. pc \in [Threads -> Places] /\ answer = [t \in Threads |-> answer[t]]
    BY DEF Places
  <2>2. call \in [Threads -> Requests]
    BY CallTyped
  <2>3. next = 1 /\ stopping = FALSE
    OBVIOUS
  <2> QED
    <3>1. next \in Nat /\ next > 0
      BY <2>3
    <3>2. stopping \in BOOLEAN
      BY ONLY <2>3
    <3> QED
      BY ONLY <2>1, <2>2, <3>1, <3>2, Zenon DEF TypeOK
<1>2. \A t \in Threads : call[t].id = 0 /\ answer[t].id = 0 /\ pc[t] \in {"idle", "waiting"}
  BY DEF NoCall, NoAnswer
<1>3. pc["stop"] = "idle" /\ next = 1
  OBVIOUS
<1>4. Numbered /\ ShutdownIsLast
  BY <1>2, <1>3 DEF Numbered, ShutdownIsLast
<1>5. NotAnswered /\ Exclusive /\ Alone /\ Gone /\ StopNeverHandles /\ AnswersAreOwn
  BY <1>2, <1>3 DEF NotAnswered, Exclusive, Alone, Gone, StopNeverHandles, AnswersAreOwn
<1> QED
  BY <1>1, <1>4, <1>5 DEF Inv

(***************************************************************************)
(* The ends of a request.                                                  *)
(***************************************************************************)
\* A thread goes on without a new request, and gives back only its own mutex.
LEMMA Elsewhere ==
    ASSUME Inv, NEW t \in Threads, NEW place \in Places, NEW c,
           c \in Requests,
           pc' = [pc EXCEPT ![t] = place], call' = [call EXCEPT ![t] = c],
           c.id \in {0, call[t].id},
           answer' = [s \in Threads |-> answer'[s]],
           \A s \in Threads : s # t => answer'[s] = answer[s],
           t # "stop" /\ place \in {"idle", "waiting", "sending", "reading"} =>
               answer'[t].id = 0,
           place \in {"handling", "violated", "taking"} => answer'[t].id \in {c.id, 0},
           place \in {"sending", "reading"} =>
               pc[t] \in {"sending", "reading"} /\ holder' = holder,
           holder' = holder \/ (holder = t /\ place \notin {"sending", "reading"}),
           t = "stop" => pc[t] # "idle" /\ place \notin {"handling", "violated", "taking"}
                           /\ (place = "terminating" =>
                                   pc[t] \in {"sending", "reading", "terminating"}),
           t = "stop" /\ place = "done" =>
               worker'.state = "dead" /\ handle' = "shut" /\ pc[t] = "terminating",
           worker.state = "dead" => worker'.state = "dead",
           handle = "shut" => handle' = "shut",
           UNCHANGED <<stopping, next>>
    PROVE  Inv'
<1> USE ThreadsAre
<1>1. /\ TypeOK /\ NotAnswered /\ Numbered /\ Exclusive /\ Alone /\ Gone
      /\ StopNeverHandles /\ AnswersAreOwn /\ ShutdownIsLast
  BY DEF Inv
<1>2. \A s \in Threads : pc'[s] = IF s = t THEN place ELSE pc[s]
  BY <1>1 DEF TypeOK
<1>3. \A s \in Threads : call'[s] = IF s = t THEN c ELSE call[s]
  BY <1>1 DEF TypeOK
<1>4. TypeOK'
  BY <1>1 DEF TypeOK
<1>5. NotAnswered' /\ AnswersAreOwn'
  BY <1>1, <1>2, <1>3 DEF NotAnswered, AnswersAreOwn
<1>6. Numbered'
  BY <1>1, <1>2, <1>3 DEF Numbered, TypeOK, Requests
<1>7. Exclusive'
  BY <1>1, <1>2 DEF Exclusive
<1>8. Alone'
  BY <1>1, <1>2 DEF Alone
<1>9. Gone'
  BY <1>1, <1>2 DEF Gone
<1>10. ShutdownIsLast'
  BY <1>1, <1>3 DEF ShutdownIsLast, TypeOK, Requests
<1>11. StopNeverHandles'
  BY <1>1, <1>2 DEF StopNeverHandles
<1> QED
  BY <1>4, <1>5, <1>6, <1>7, <1>8, <1>9, <1>10, <1>11 DEF Inv

\* A step that leaves the threads and the mutex alone.
LEMMA NothingStep ==
    ASSUME Inv, UNCHANGED <<pc, call, answer, holder, stopping, next>>,
           worker.state = "dead" => worker'.state = "dead",
           handle = "shut" => handle' = "shut"
    PROVE  Inv'
BY DEF Inv, TypeOK, NotAnswered, Numbered, Exclusive, Alone, Gone, StopNeverHandles,
       AnswersAreOwn, ShutdownIsLast

LEMMA CallsAre ==
    ASSUME Inv, NEW t \in Threads
    PROVE  /\ call[t] \in Requests /\ call = [call EXCEPT ![t] = call[t]]
           /\ NoCall \in Requests /\ NoCall.id = 0 /\ NoAnswer.id = 0
           /\ answer = [s \in Threads |-> answer[s]]
           /\ pc = [pc EXCEPT ![t] = pc[t]] /\ pc[t] \in Places
BY DEF Inv, TypeOK, Requests, NoCall, NoAnswer, Types

\* The request of t ends without an answer.
LEMMA FailedStep ==
    ASSUME Inv, NEW t \in Threads, pc[t] \in {"sending", "reading"}, Failed(t),
           UNCHANGED <<stopping, next>>, worker.state = "dead" => worker'.state = "dead",
           handle = "shut" => handle' = "shut"
    PROVE  Inv'
<1> DEFINE place == IF t = "stop" THEN "terminating"
                    ELSE IF t = "launch" THEN "violated" ELSE "idle"
           c == IF t = "stop" THEN call[t] ELSE NoCall
<1>1. place \in Places /\ place \notin {"sending", "reading", "handling", "taking", "done"}
  BY DEF Places
<1>2. c \in Requests /\ c.id \in {0, call[t].id}
  BY CallsAre
<1>3. /\ pc' = [pc EXCEPT ![t] = place] /\ call' = [call EXCEPT ![t] = c]
      /\ UNCHANGED answer /\ holder' \in {"none", holder}
      /\ (holder' = holder \/ holder = t)
  BY DEF Failed
<1>4. t # "stop" => answer[t].id = 0
  BY DEF Inv, NotAnswered
<1>5. answer' = [s \in Threads |-> answer'[s]]
  BY <1>3, CallsAre
<1>6. t = "stop" => place = "terminating"
  OBVIOUS
<1> HIDE DEF place, c
<1> QED
  BY <1>1, <1>2, <1>3, <1>4, <1>5, <1>6, Elsewhere

\* The call of t returns.
LEMMA FinishedStep ==
    ASSUME Inv, NEW t \in Threads, t # "stop", NEW how, Finished(t, how),
           UNCHANGED <<holder, stopping, next>>,
           worker.state = "dead" => worker'.state = "dead",
           handle = "shut" => handle' = "shut"
    PROVE  Inv'
<1>1. /\ pc' = [pc EXCEPT ![t] = "idle"] /\ call' = [call EXCEPT ![t] = NoCall]
      /\ answer' = [answer EXCEPT ![t] = NoAnswer]
  BY DEF Finished
<1>2. /\ answer' = [s \in Threads |-> answer'[s]] /\ answer'[t].id = 0
      /\ \A s \in Threads : s # t => answer'[s] = answer[s]
  BY <1>1, CallsAre
<1>3. "idle" \in Places
  BY DEF Places
<1> QED
  BY <1>1, <1>2, <1>3, CallsAre, Elsewhere

\* t goes on within its request.
LEMMA GoesOn ==
    ASSUME Inv, NEW t \in Threads, NEW place \in Places, pc' = [pc EXCEPT ![t] = place],
           UNCHANGED <<call, answer, holder, stopping, next, worker, handle>>,
           \/ pc[t] = "sending" /\ place = "reading"
           \/ t # "stop" /\ pc[t] = "handling" /\ place \in {"violated", "taking"}
    PROVE  Inv'
<1>1. /\ answer' = [s \in Threads |-> answer'[s]] /\ call' = [call EXCEPT ![t] = call[t]]
  BY CallsAre
<1>2. t # "stop" /\ place = "reading" => answer'[t].id = 0
  BY DEF Inv, NotAnswered
<1>3. place \in {"violated", "taking"} => answer'[t].id \in {call[t].id, 0}
  BY DEF Inv, AnswersAreOwn
<1> QED
  BY <1>1, <1>2, <1>3, CallsAre, Elsewhere, ZenonT(40)

(***************************************************************************)
(* The steps.                                                              *)
(***************************************************************************)
LEMMA AskStep == ASSUME Inv, NEW t \in Threads, Ask(t) PROVE Inv'
<1> USE ThreadsAre
<1>1. PICK type \in Kinds, size \in Sizes :
        call' = [call EXCEPT ![t] = [id |-> 0, type |-> type, size |-> size]]
  BY DEF Ask
<1> DEFINE c == [id |-> 0, type |-> type, size |-> size]
<1>2. c \in Requests /\ c.id = 0
  BY DEF Requests, Types
<1>3. /\ t # "stop" /\ pc' = [pc EXCEPT ![t] = "waiting"] /\ "waiting" \in Places
      /\ pc[t] = "idle"
      /\ UNCHANGED <<answer, holder, stopping, next, worker, handle>>
  BY DEF Ask, Places, proxy, pipes
<1>4. answer' = [s \in Threads |-> answer'[s]] /\ answer'[t].id = 0
  BY <1>3, CallsAre DEF Inv, NotAnswered
<1> HIDE DEF c
<1> QED
  BY <1>1, <1>2, <1>3, <1>4, Elsewhere DEF c

LEMMA EnterStep == ASSUME Inv, NEW t \in Threads, Enter(t) PROVE Inv'
<1> USE ThreadsAre
<1>1. CASE stopping /\ t # "stop"
  BY <1>1, FinishedStep DEF Enter, pipes
<1>2. CASE ~(stopping /\ t # "stop")
  <2> DEFINE c == [call[t] EXCEPT !.id = next]
  <2>1. /\ pc[t] = "waiting" /\ holder = "none" /\ holder' = t /\ next' = next + 1
        /\ call' = [call EXCEPT ![t] = c] /\ pc' = [pc EXCEPT ![t] = "sending"]
        /\ UNCHANGED <<stopping, handle, worker, answer>>
    BY <1>2 DEF Enter, pipes
  <2>2. /\ TypeOK /\ NotAnswered /\ Numbered /\ Exclusive /\ Alone /\ Gone
        /\ StopNeverHandles /\ AnswersAreOwn /\ ShutdownIsLast
    BY DEF Inv
  <2>3. c \in Requests /\ c.id = next /\ next \in Nat /\ next > 0
    BY <2>2 DEF TypeOK, Requests
  <2> HIDE DEF c
  <2>p. \A s \in Threads : pc'[s] = IF s = t THEN "sending" ELSE pc[s]
    BY <2>1, <2>2 DEF TypeOK
  <2>c. \A s \in Threads : call'[s] = IF s = t THEN c ELSE call[s]
    BY <2>1, <2>2 DEF TypeOK
  <2>i. \A s \in Threads : call[s].id \in Nat /\ call[s].id < next
    BY <2>2 DEF TypeOK, Numbered, Requests
  <2>4. \A s \in Threads : call'[s].id = IF s = t THEN next ELSE call[s].id
    BY <2>c, <2>3
  <2>5. \A s \in Threads : pc[s] \notin {"sending", "reading"}
    BY <2>1, <2>2 DEF Exclusive
  <2>6. TypeOK'
    BY <2>1, <2>2, <2>3 DEF TypeOK, Places
  <2>7. NotAnswered' /\ AnswersAreOwn'
    BY <2>1, <2>2, <2>p, <2>4 DEF NotAnswered, AnswersAreOwn
  <2>8. Numbered'
    <3>1. t = "stop" => stopping
      BY <2>1, <2>2 DEF Numbered
    <3>2. \A s \in Threads : call'[s].id < next'
      BY <2>1, <2>3, <2>4, <2>i
    <3>3. pc'["stop"] # "idle" \/ call'["stop"].id # 0 => stopping'
      BY <2>1, <2>2, <2>p, <2>4, <3>1 DEF Numbered
    <3> QED
      BY <3>2, <3>3 DEF Numbered
  <2>9. Exclusive'
    BY <2>1, <2>p, <2>5 DEF Exclusive
  <2>10. Alone'
    <3>1. CASE t = "stop"
      BY <3>1, <2>p, <2>5 DEF Alone
    <3>2. CASE t # "stop"
      BY <3>2, <1>2, <2>1, <2>2, <2>p DEF Alone, Numbered
    <3> QED
      BY <3>1, <3>2
  <2>11. Gone'
    BY <2>1, <2>2, <2>p DEF Gone
  <2>12. ShutdownIsLast'
    <3>1. CASE t = "stop"
      BY <3>1, <2>3, <2>4, <2>i DEF ShutdownIsLast
    <3>2. CASE t # "stop"
      BY <3>2, <1>2, <2>2, <2>4, <2>i DEF ShutdownIsLast, Numbered
    <3> QED
      BY <3>1, <3>2
  <2>13. StopNeverHandles'
    BY <2>2, <2>p DEF StopNeverHandles
  <2> QED
    BY <2>6, <2>7, <2>8, <2>9, <2>10, <2>11, <2>12, <2>13 DEF Inv
<1> QED
  BY <1>1, <1>2

\* An answer is read by the thread whose request it names.
LEMMA ReadStep == ASSUME Inv, NEW t \in Threads, Read(t) PROVE Inv'
<1> USE ThreadsAre
<1>1. CASE Failed(t)
  BY <1>1, FailedStep DEF Read, proxy
<1>2. CASE ~Failed(t)
  <2> DEFINE place == IF t = "stop" THEN "terminating" ELSE "handling"
  <2>1. /\ pc[t] = "reading" /\ pc' = [pc EXCEPT ![t] = place]
        /\ Head(output).id = call[t].id /\ answer' = [answer EXCEPT ![t] = Head(output)]
        /\ holder' = "none"
        /\ UNCHANGED <<call, stopping, next, handle, worker>>
    BY <1>2 DEF Read, proxy
  <2>2. place \in Places /\ place \notin {"idle", "waiting", "sending", "reading", "done"}
        /\ (t = "stop" => place = "terminating")
    BY DEF Places
  <2>3. holder = t /\ call' = [call EXCEPT ![t] = call[t]] /\ call[t] \in Requests
    BY <2>1, CallsAre DEF Inv, Exclusive
  <2>4. /\ answer' = [s \in Threads |-> answer'[s]] /\ answer'[t].id = call[t].id
        /\ \A s \in Threads : s # t => answer'[s] = answer[s]
    BY <2>1, CallsAre
  <2> HIDE DEF place
  <2> QED
    BY <2>1, <2>2, <2>3, <2>4, Elsewhere, ZenonT(40)
<1> QED
  BY <1>1, <1>2

LEMMA HandleStep == ASSUME Inv, NEW t \in Threads, Handle(t) PROVE Inv'
<1> USE ThreadsAre
<1>1. /\ pc[t] = "handling" /\ UNCHANGED <<holder, stopping, next, handle, worker>>
  BY DEF Handle, proxy, pipes
<1>2. t # "stop"
  BY <1>1 DEF Inv, StopNeverHandles
<1>3. CASE Violates(t) \/ (pc' = [pc EXCEPT ![t] = "taking"] /\ UNCHANGED <<call, answer, outcome>>)
  BY <1>1, <1>2, <1>3, GoesOn DEF Violates, Places
<1>4. ASSUME NEW how, Finished(t, how) PROVE Inv'
  BY <1>1, <1>2, <1>4, FinishedStep
<1> QED
  BY <1>3, <1>4 DEF Handle

LEMMA OwnStep ==
    ASSUME Inv, NEW t \in Threads, Send(t) \/ Sent(t) \/ SendFails(t) \/ ReadFails(t) \/ Expire(t)
                                    \/ Violated(t) \/ Take(t)
    PROVE  Inv'
<1> USE ThreadsAre
<1>1. CASE Send(t)
  <2>1. CASE call[t].size = "small"
    BY <1>1, <2>1, GoesOn DEF Send, Places, proxy
  <2>2. CASE call[t].size # "small"
    <3>1. pc' = [pc EXCEPT ![t] = pc[t]] /\ UNCHANGED <<call, answer, holder, proxy, worker>>
      BY <1>1, <2>2 DEF Send
    <3>2. pc' = pc
      BY <3>1, CallsAre
    <3> QED
      BY <3>1, <3>2, NothingStep DEF proxy
  <2> QED
    BY <2>1, <2>2
<1>2. CASE Sent(t)
  BY <1>2, GoesOn DEF Sent, Places, proxy, pipes
<1>3. CASE SendFails(t)
  <2>1. CASE Failed(t)
    BY <1>3, <2>1, FailedStep DEF SendFails, proxy, pipes
  <2>2. CASE ~Failed(t)
    BY <1>3, <2>2, NothingStep DEF SendFails, proxy, pipes, threads
  <2> QED
    BY <2>1, <2>2
<1>4. CASE ReadFails(t)
  BY <1>4, FailedStep DEF ReadFails, proxy, pipes
<1>5. CASE Expire(t)
  BY <1>5, FailedStep DEF Expire, Terminated
<1>6. CASE Violated(t)
  <2>1. t # "stop"
    BY <1>6 DEF Violated, Inv, StopNeverHandles
  <2> QED
    BY <1>6, <2>1, FinishedStep DEF Violated, Terminated
<1>7. CASE Take(t)
  <2>1. t # "stop"
    BY <1>7 DEF Take, Inv, StopNeverHandles
  <2>2. ASSUME NEW how, Finished(t, how) PROVE Inv'
    BY <1>7, <2>1, <2>2, FinishedStep DEF Take, proxy, pipes
  <2>3. CASE UNCHANGED <<pc, call, answer, outcome>>
    BY <1>7, <2>3, NothingStep DEF Take, proxy, pipes
  <2> QED
    BY <1>7, <2>2, <2>3 DEF Take
<1> QED
  BY <1>1, <1>2, <1>3, <1>4, <1>5, <1>6, <1>7

LEMMA InvStep == Inv /\ [Next]_vars => Inv'
<1> SUFFICES ASSUME Inv, [Next]_vars PROVE Inv'
  OBVIOUS
<1> USE ThreadsAre
<1>1. ASSUME NEW t \in Threads, Ask(t) \/ Step(t) PROVE Inv'
  BY <1>1, AskStep, EnterStep, ReadStep, HandleStep, OwnStep DEF Step
<1>2. CASE Stop
  <2> DEFINE c == [call["stop"] EXCEPT !.type = "worker.shutdown"]
  <2>1. /\ pc["stop"] = "idle" /\ ~stopping /\ stopping' = TRUE
        /\ call' = [call EXCEPT !["stop"] = c] /\ pc' = [pc EXCEPT !["stop"] = "waiting"]
        /\ UNCHANGED <<holder, next, handle, worker, answer>>
    BY <1>2 DEF Stop, pipes
  <2>2. c \in Requests /\ c.id = call["stop"].id
    BY DEF Inv, TypeOK, Requests, Types
  <2> HIDE DEF c
  <2>3. \A s \in Threads : pc'[s] = IF s = "stop" THEN "waiting" ELSE pc[s]
    BY <2>1 DEF Inv, TypeOK
  <2>4. \A s \in Threads : call'[s].id = call[s].id
    BY <2>1, <2>2 DEF Inv, TypeOK
  <2>5. TypeOK'
    BY <2>1, <2>2 DEF Inv, TypeOK, Places
  <2>6. Numbered' /\ ShutdownIsLast'
    BY <2>1, <2>4 DEF Inv, Numbered, ShutdownIsLast
  <2> QED
    BY <2>1, <2>3, <2>4, <2>5, <2>6
    DEF Inv, NotAnswered, Exclusive, Alone, Gone, AnswersAreOwn, StopNeverHandles
<1>3. CASE Kill
  <2>1. /\ pc["stop"] = "terminating" /\ pc' = [pc EXCEPT !["stop"] = "done"]
        /\ worker'.state = "dead" /\ handle' = "shut"
        /\ UNCHANGED <<holder, stopping, next, call, answer>>
    BY <1>3 DEF Kill, Terminated
  <2>2. /\ answer' = [s \in Threads |-> answer'[s]] /\ call["stop"] \in Requests
        /\ call' = [call EXCEPT !["stop"] = call["stop"]] /\ "done" \in Places
    BY <2>1, CallsAre DEF Places
  <2> QED
    BY <2>1, <2>2, Elsewhere
<1>4. CASE Receive \/ Respond \/ Misbehave \/ UNCHANGED vars
  BY <1>4, NothingStep DEF Receive, Respond, Misbehave, vars, proxy, threads, pipes
<1> QED
  BY <1>1, <1>2, <1>3, <1>4 DEF Next

\* An answer that a caller makes something of names its request: Read compares the
\* numbers before the mutex is given back (worker_lens_proxy.cpp:236).
THEOREM OwnAnswers == Spec => []AnswersAreOwn
<1>1. Inv => AnswersAreOwn
  BY DEF Inv
<1> QED
  BY Initially, InvStep, <1>1, PTL DEF Spec

\* After the shutdown no thread gets a request through, however long it waited for
\* the mutex: the flag is read again under it (worker_lens_proxy.cpp:205).
THEOREM NothingAfterShutdown == Spec => []ShutdownIsLast
<1>1. Inv => ShutdownIsLast
  BY DEF Inv
<1> QED
  BY Initially, InvStep, <1>1, PTL DEF Spec

\* When request_stop has returned the process is dead, the pipes are shut and no
\* thread is on them.
THEOREM NothingIsLeft == Spec => []StoppedMeansGone
<1>1. Inv => StoppedMeansGone
  BY DEF Inv, Gone, Alone, StoppedMeansGone
<1> QED
  BY Initially, InvStep, <1>1, PTL DEF Spec
=============================================================================
