----------------------------- MODULE RpcClient -----------------------------
(***************************************************************************)
(* One server process and the client that talks to it over its pipes       *)
(* (deltachat-jsonrpc/src/client.rs and events.rs).  Callers on several    *)
(* threads register a request and queue its line; a writer task writes the *)
(* lines, a reader task matches the answers, in whatever order they come,  *)
(* to the waiters, and wakes those left at end of file.  One caller is the *)
(* event loop, which polls without a timeout and restarts after answers    *)
(* that are no batch; the end of its stream is how the shim learns that    *)
(* the server is gone.                                                     *)
(*                                                                         *)
(* Abstracted: methods, parameters and results (a request is its id and    *)
(* who made it), bytes of a line, the time between steps (a timeout   *)
(* or a backoff may be over at any time), stderr, and a pipe that is full. *)
(***************************************************************************)
EXTENDS Integers, Sequences, FiniteSets, SequencesExt

CONSTANTS
    Calls,      \* timed calls, each made at most once
    EventLoop,  \* the caller that polls
    NoAnswer,   \* the channel of a waiter is empty
    Budgets     \* subset of [BudgetKinds -> Nat]: bounds on what the environment does

Callers == Calls \cup {EventLoop}

\* What the environment may do, each at most so often in a behaviour as its budget says.
BudgetKinds == {"call", "event", "die", "shutdown", "cancel", "stop",
                "error", "misfit", "garbage"}

ASSUME RpcClientAssumption ==
    /\ EventLoop \notin Calls
    /\ Budgets \subseteq [BudgetKinds -> Nat]

VARIABLES
    \* the client
    nextId,     \* next_id
    pending,    \* ids with a waiter
    requests,   \* lines queued for the writer (stdin_tx)
    writer,     \* "running" or "ended"
    reader,     \* "reading", "matched" (holds an answer to send) or "ended"
    matched,    \* the answer taken for a waiter, not yet sent
    \* its callers
    call,       \* [Callers -> request]: phase, id, and the answer sent to it
    eventLoop,  \* "polling", "backoff", "ended" or "stopped"
    forwarded,  \* events put into the channel, in order
    \* the server process
    server,     \* "up", "dead" or "shutdown"
    serving,    \* requests it has read and not answered
    stdout,     \* lines it has written, not yet read
    emitted,    \* number of events emitted
    handed,     \* number of events put into an answer
    spoiled,    \* events put into an answer that no caller can use
    budget

clientVars == <<nextId, pending, requests, writer, reader, matched>>
loopVars   == <<eventLoop, forwarded>>
serverVars == <<server, serving, stdout>>
eventVars  == <<emitted, handed, spoiled>>
vars == <<clientVars, call, loopVars, serverVars, eventVars, budget>>

-----------------------------------------------------------------------------
(* Data *)

Request == [id : Nat, caller : Callers]

\* An answer: the batch of a poll, an error object, a result of another shape
\* than asked, a line that is no answer at all; or what the client says itself.
Line    == [request : Request, kind : {"result", "error", "misfit", "garbage"},
            batch : Seq(Nat)]
Outcome == [request : Request, kind : {"result", "error", "misfit", "closed", "timeout"},
            batch : Seq(Nat)]
ASSUME NoAnswerAssumption == NoAnswer \notin Line \cup Outcome

Answer(request, kind, batch) == [request |-> request, kind |-> kind, batch |-> batch]

RequestOf(c) == [id |-> call[c].id, caller |-> c]
Closed(c)    == Answer(RequestOf(c), "closed", <<>>)
Timeout(c)   == Answer(RequestOf(c), "timeout", <<>>)

Open(c) == call[c].phase \in {"registered", "waiting"}

Spend(kind) ==
    /\ budget[kind] > 0
    /\ budget' = [budget EXCEPT ![kind] = @ - 1]

\* An answer sent to the waiters ids reaches c; others have dropped their end.
Hears(ids, c) == Open(c) /\ call[c].id \in ids

-----------------------------------------------------------------------------
(* The event loop: what it does with the outcome of a poll *)

\* Mutants: any error ends the stream; only the first event of a batch is taken.
LoopTakesErrorsAsEnd(answer) ==
    /\ eventLoop' = IF answer.kind = "result" THEN "polling" ELSE "ended"
    /\ forwarded' = forwarded \o answer.batch
LoopTakesOneEvent(answer) ==
    /\ eventLoop' = CASE answer.kind = "result" -> "polling"
                      [] answer.kind = "closed" -> "ended"
                      [] OTHER -> "backoff"
    /\ forwarded' = IF answer.kind = "result"
                    THEN Append(forwarded, Head(answer.batch)) ELSE forwarded

LoopTakes(answer) ==
    \/ /\ answer.kind = "result"
       /\ eventLoop' = "polling"
       /\ forwarded' = forwarded \o answer.batch
    \/ /\ answer.kind = "closed"
       /\ eventLoop' = "ended"
       /\ UNCHANGED forwarded
    \/ /\ answer.kind \notin {"result", "closed"}
       /\ eventLoop' = "backoff"
       /\ UNCHANGED forwarded

BackoffOver ==
    /\ eventLoop = "backoff"
    /\ eventLoop' = "polling"
    /\ UNCHANGED <<clientVars, call, forwarded, serverVars, eventVars, budget>>

\* EventLoopHandle: stop, or drop; takes effect where the task awaits.
Stop ==
    /\ Spend("stop")
    /\ eventLoop \in {"polling", "backoff"}
    /\ call[EventLoop].phase # "registered"
    /\ eventLoop' = "stopped"
    /\ call' = [call EXCEPT ![EventLoop].phase = "cancelled"]
    /\ UNCHANGED <<clientVars, forwarded, serverVars, eventVars>>

-----------------------------------------------------------------------------
(* A call: registered, its line queued, answered *)

\* Mutant: the waiter under the id after its own.
RegisterAhead(c) ==
    /\ call[c].phase = "idle"
    /\ IF c = EventLoop THEN eventLoop = "polling" /\ UNCHANGED budget
                        ELSE Spend("call")
    /\ call' = [call EXCEPT ![c] = [phase |-> "registered", id |-> nextId,
                                    answer |-> NoAnswer]]
    /\ nextId' = nextId + 1
    /\ pending' = pending \cup {nextId'}
    /\ UNCHANGED <<requests, writer, reader, matched, loopVars, serverVars, eventVars>>

\* Takes an id and a place among the waiters.
Register(c) ==
    /\ call[c].phase = "idle"
    /\ IF c = EventLoop THEN eventLoop = "polling" /\ UNCHANGED budget
                        ELSE Spend("call")
    /\ call' = [call EXCEPT ![c] = [phase |-> "registered", id |-> nextId,
                                    answer |-> NoAnswer]]
    /\ pending' = pending \cup {nextId}
    /\ nextId' = nextId + 1
    /\ UNCHANGED <<requests, writer, reader, matched, loopVars, serverVars, eventVars>>

\* A call is over: the poll's outcome goes to the event loop.
Return(c, answer) ==
    IF c = EventLoop
    THEN /\ call' = [call EXCEPT ![c].phase = "idle", ![c].answer = answer]
         /\ LoopTakes(answer)
    ELSE /\ call' = [call EXCEPT ![c].phase = "returned", ![c].answer = answer]
         /\ UNCHANGED loopVars

\* Queues the line; a writer that has ended refuses it.
Queue(c) ==
    /\ call[c].phase = "registered"
    /\ \/ /\ writer = "running"
          /\ requests' = Append(requests, RequestOf(c))
          /\ call' = [call EXCEPT ![c].phase = "waiting"]
          /\ UNCHANGED <<pending, loopVars>>
       \/ /\ writer = "ended"
          /\ pending' = pending \ {call[c].id}
          /\ Return(c, Closed(c))
          /\ UNCHANGED requests
    /\ UNCHANGED <<nextId, writer, reader, matched, serverVars, eventVars, budget>>

Answered(c) ==
    /\ call[c].phase = "waiting"
    /\ call[c].answer # NoAnswer
    /\ Return(c, call[c].answer)
    /\ UNCHANGED <<clientVars, serverVars, eventVars, budget>>

\* Mutants: a waiter left behind; a timer that trusts the waiters to be woken.
TimesOutForgetting(c) ==
    /\ call[c].phase = "waiting" /\ call[c].answer = NoAnswer
    /\ Return(c, Timeout(c))
    /\ UNCHANGED <<clientVars, serverVars, eventVars, budget>>
TimesOutWhileReading(c) ==
    /\ call[c].phase = "waiting" /\ call[c].answer = NoAnswer
    /\ reader # "ended"
    /\ pending' = pending \ {call[c].id}
    /\ Return(c, Timeout(c))
    /\ UNCHANGED <<nextId, requests, writer, reader, matched, serverVars, eventVars, budget>>

\* A timed call's 60 s are over; an answer already there is taken instead.
TimesOut(c) ==
    /\ call[c].phase = "waiting"
    /\ call[c].answer = NoAnswer
    /\ pending' = pending \ {call[c].id}
    /\ Return(c, Timeout(c))
    /\ UNCHANGED <<nextId, requests, writer, reader, matched, serverVars, eventVars, budget>>

\* The caller's task is dropped while it waits: its place among the waiters stays.
Cancel(c) ==
    /\ Spend("cancel")
    /\ call[c].phase = "waiting"
    /\ call' = [call EXCEPT ![c].phase = "cancelled"]
    /\ UNCHANGED <<clientVars, loopVars, serverVars, eventVars>>

-----------------------------------------------------------------------------
(* The writer and the reader task *)

\* write_requests: a line reaches the server, or the pipe is broken.
Write ==
    /\ writer = "running" /\ requests # <<>>
    /\ \/ /\ server = "up"
          /\ serving' = serving \cup {Head(requests)}
          /\ requests' = Tail(requests)
          /\ UNCHANGED writer
       \/ /\ server # "up"
          /\ writer' = "ended"
          /\ requests' = <<>>
          /\ UNCHANGED serving
    /\ UNCHANGED <<nextId, pending, reader, matched, call, loopVars, server, stdout,
                   eventVars, budget>>

\* Mutant: answers matched by age.
OldestWaiter(line) ==
    LET oldest == CHOOSE id \in pending : \A other \in pending : id <= other
    IN  IF line.kind = "garbage" \/ pending = {} THEN {} ELSE {oldest}

\* The waiter of a line, if the line is an answer and someone waits for it.
Waiter(line) == IF line.kind = "garbage" THEN {} ELSE pending \cap {line.request.id}

\* read_responses: the next line, skipped, dropped or matched to its waiter.
TakeLine ==
    /\ reader = "reading" /\ stdout # <<>>
    /\ LET line == Head(stdout) IN
          /\ stdout' = Tail(stdout)
          /\ pending' = pending \ Waiter(line)
          /\ IF Waiter(line) = {}
             THEN UNCHANGED <<reader, matched>>
             ELSE /\ reader' = "matched"
                  /\ matched' = [waiter |-> Waiter(line), line |-> line]
    /\ UNCHANGED <<nextId, requests, writer, call, loopVars, server, serving,
                   eventVars, budget>>

\* The map unlocked, the answer is sent; a caller that timed out has dropped its end.
SendAnswer ==
    /\ reader = "matched"
    /\ reader' = "reading"
    /\ call' = [c \in Callers |-> IF Hears(matched.waiter, c)
                                 THEN [call[c] EXCEPT !.answer = matched.line]
                                 ELSE call[c]]
    /\ UNCHANGED <<nextId, pending, requests, writer, matched, loopVars, serverVars,
                   eventVars, budget>>

\* Nothing left to read and nobody to write it: the waiters are woken.
EndOfFile ==
    /\ reader = "reading" /\ stdout = <<>> /\ server # "up"
    /\ reader' = "ended"
    /\ pending' = {}
    /\ call' = [c \in Callers |-> IF Hears(pending, c)
                                 THEN [call[c] EXCEPT !.answer = Closed(c)]
                                 ELSE call[c]]
    /\ UNCHANGED <<nextId, requests, writer, matched, loopVars, serverVars,
                   eventVars, budget>>

-----------------------------------------------------------------------------
(* The server process *)

CoreEmits ==
    /\ Spend("event")
    /\ server = "up"
    /\ emitted' = emitted + 1
    /\ UNCHANGED <<clientVars, call, loopVars, serverVars, handed, spoiled>>

\* A request answered, in whatever order; a poll only once there are events.
ServerAnswers(request, kind) ==
    /\ server = "up"
    /\ request \in serving
    /\ IF kind = "result" THEN UNCHANGED budget ELSE Spend(kind)
    /\ serving' = serving \ {request}
    /\ LET batch == IF request.caller = EventLoop /\ kind # "error"
                    THEN [i \in 1 .. (emitted - handed) |-> handed + i] ELSE <<>>
       IN /\ request.caller = EventLoop /\ kind # "error" => batch # <<>>
          /\ handed' = handed + Len(batch)
          /\ spoiled' = IF kind = "result" THEN spoiled ELSE spoiled \cup ToSet(batch)
          /\ stdout' = Append(stdout, Answer(request, kind, batch))
    /\ UNCHANGED <<clientVars, call, loopVars, server, emitted>>

\* The process is gone; what it wrote can still be read.
ServerDies ==
    /\ Spend("die")
    /\ server = "up"
    /\ server' = "dead"
    /\ serving' = {}
    /\ UNCHANGED <<clientVars, call, loopVars, stdout, eventVars>>

\* shutdown: the child, dead or not, is killed and waited for.
Shutdown ==
    /\ Spend("shutdown")
    /\ server # "shutdown"
    /\ server' = "shutdown"
    /\ serving' = {}
    /\ UNCHANGED <<clientVars, call, loopVars, stdout, eventVars>>

\* The rest of shutdown: after the reader the writer.
ShutdownWriter ==
    /\ server = "shutdown" /\ reader = "ended" /\ writer = "running"
    /\ writer' = "ended"
    /\ requests' = <<>>
    /\ UNCHANGED <<nextId, pending, reader, matched, call, loopVars, serverVars,
                   eventVars, budget>>

-----------------------------------------------------------------------------

Init ==
    /\ nextId = 1 /\ pending = {} /\ requests = <<>>
    /\ writer = "running" /\ reader = "reading"
    /\ matched = [waiter |-> {}, line |-> Answer([id |-> 0, caller |-> EventLoop], "garbage", <<>>)]
    /\ call = [c \in Callers |-> [phase |-> "idle", id |-> 0, answer |-> NoAnswer]]
    /\ eventLoop = "polling" /\ forwarded = <<>>
    /\ server = "up" /\ serving = {} /\ stdout = <<>>
    /\ emitted = 0 /\ handed = 0 /\ spoiled = {}
    /\ budget \in Budgets

Caller(c) == Register(c) \/ Queue(c) \/ Answered(c)
Writer    == Write
Reader    == TakeLine \/ SendAnswer \/ EndOfFile
Server    == \/ CoreEmits \/ ServerDies \/ Shutdown
             \/ \E request \in serving, kind \in {"result", "error", "misfit", "garbage"} :
                   ServerAnswers(request, kind)

Next ==
    \/ \E c \in Callers : Caller(c)
    \/ \E c \in Calls : TimesOut(c) \/ Cancel(c)
    \/ BackoffOver \/ Stop
    \/ Writer \/ Reader \/ ShutdownWriter
    \/ Server

Spec == Init /\ [][Next]_vars

\* The runtime polls its tasks, timers fire, and the core answers a poll once
\* it has events; calls it need not answer.
Fairness ==
    /\ \A c \in Callers : WF_vars(Queue(c) \/ Answered(c))
    /\ WF_vars(Register(EventLoop))
    /\ \A c \in Calls : WF_vars(TimesOut(c))
    /\ WF_vars(BackoffOver)
    /\ WF_vars(Writer)
    /\ WF_vars(Reader)
    /\ WF_vars(ShutdownWriter)
    /\ WF_vars(\E request \in serving : request.caller = EventLoop /\ ServerAnswers(request, "result"))

FairSpec == Spec /\ Fairness

-----------------------------------------------------------------------------
(* Properties *)

\* Every part of the client, its callers and the server is of its type.
TypeOK ==
    /\ nextId \in Nat \ {0}
    /\ pending \subseteq 1 .. (nextId - 1)
    /\ requests \in Seq(Request)
    /\ writer \in {"running", "ended"}
    /\ reader \in {"reading", "matched", "ended"}
    /\ matched \in [waiter : SUBSET Nat, line : Line]
    /\ call \in [Callers -> [phase : {"idle", "registered", "waiting", "returned",
                                      "cancelled"},
                             id : 0 .. (nextId - 1),
                             answer : {NoAnswer} \cup Outcome]]
    /\ eventLoop \in {"polling", "backoff", "ended", "stopped"}
    /\ forwarded \in Seq(Nat)
    /\ server \in {"up", "dead", "shutdown"}
    /\ serving \subseteq Request
    /\ stdout \in Seq(Line)
    /\ emitted \in Nat /\ handed \in 0 .. emitted /\ spoiled \subseteq 1 .. handed
    /\ budget \in [BudgetKinds -> Nat]

\* A call gets the answer to its own request (call_raw, read_responses), however
\* answers, timeouts and cancelled calls cross.
OwnAnswer ==
    \A c \in Callers : call[c].answer # NoAnswer => call[c].answer.request = RequestOf(c)

WaiterReachable ==
    \A c \in Callers :
        (Open(c) /\ call[c].answer = NoAnswer /\ reader # "ended") =>
            \/ call[c].id \in pending
            \/ reader = "matched" /\ call[c].id \in matched.waiter

NoWaiterLeft ==
    \A id \in pending :
        \E c \in Callers : call[c].id = id /\ (Open(c) \/ call[c].phase = "cancelled")

\* The callers and the map of waiters (client.rs, PendingMap) agree.  As long as the
\* reader runs it can reach every open call without an answer: its id is among the
\* waiters, or its answer is in the reader's hands.  And the map holds nobody but open
\* calls and those dropped while they waited: an answer, a refusal and a timeout each
\* take their call out.
WaitersAgree == WaiterReachable /\ NoWaiterLeft

\* The stream of events the loop hands to the shim: each event once, in order, but
\* for those in answers nobody could use; ended only once the server is gone
\* (events.rs, spawn_event_loop).
Stream == INSTANCE EventStream WITH
              alive  <- server = "up",
              stream <- IF eventLoop \in {"polling", "backoff"} THEN "open" ELSE eventLoop
EventsInOrder == Stream!Spec

\* A call the server answered with a line the reader skipped waits for nothing that
\* is queued, at the server, written or matched.
AnswerWritten(c) ==
    \E i \in DOMAIN stdout : stdout[i].request = RequestOf(c) /\ stdout[i].kind # "garbage"
Underway(c) ==
    \/ \E i \in DOMAIN requests : requests[i] = RequestOf(c)
    \/ RequestOf(c) \in serving
    \/ AnswerWritten(c)
    \/ reader = "matched" /\ call[c].id \in matched.waiter
    \/ call[c].answer # NoAnswer
Skipped(c) == call[c].phase = "waiting" /\ server = "up" /\ ~Underway(c)

\* Every event the core has emitted reaches the shim, unless it was put into an
\* unusable answer, the answer to a poll was skipped, the server is gone or the loop
\* stopped; refused and misshapen answers only delay it (events.rs:79).
EventsArrive ==
    \A b \in Budgets : \A e \in 1 .. b["event"] :
        emitted >= e ~> \/ e \in ToSet(forwarded) \cup spoiled
                        \/ server # "up"
                        \/ eventLoop = "stopped"
                        \/ Skipped(EventLoop)

\* A timed call always returns or is dropped by its caller, whether the server
\* answers, stays silent or dies, and whenever it was registered (CALL_TIMEOUT).  The
\* poll has no timeout: one that waits, unanswered, when the server is gone ends the
\* stream, if the reader has not drained the waiters before it came (client.rs:99).
CallsReturn ==
    /\ \A c \in Calls : Open(c) ~> call[c].phase \in {"returned", "cancelled"}
    /\ (/\ server # "up" /\ call[EventLoop].id \in pending /\ reader # "ended"
           /\ ~AnswerWritten(EventLoop))
         ~> eventLoop \in {"ended", "stopped"}

\* "Only close ends stream: shim restarts server on it" (events.rs:57): the server
\* gone, the stream ends.
ServerGoneEndsStream ==
    server # "up" ~> eventLoop \in {"ended", "stopped"}
=============================================================================
