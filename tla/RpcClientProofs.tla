--------------------------- MODULE RpcClientProofs ---------------------------
(***************************************************************************)
(* Proofs about the client of the server, for every set of calls and every *)
(* budget of what the callers, the server and its owner do.                *)
(***************************************************************************)
EXTENDS RpcClient, SequenceTheorems, TLAPS

Phases == {"idle", "registered", "waiting", "returned", "cancelled"}
CallType == [phase : Phases, id : 0 .. (nextId - 1), answer : {NoAnswer} \cup Outcome]

-----------------------------------------------------------------------------
(* Types *)

LEMMA SpendType ==
    ASSUME budget \in [BudgetKinds -> Nat], NEW kind \in BudgetKinds, Spend(kind)
    PROVE  budget' \in [BudgetKinds -> Nat]
  <1>1. budget[kind] - 1 \in Nat
    BY DEF Spend
  <1>q. QED BY <1>1 DEF Spend

\* A call put into another phase, with or without an answer.
LEMMA SetCall ==
    ASSUME NEW f \in [Callers -> CallType], NEW c \in Callers, NEW p \in Phases,
           NEW a \in {NoAnswer} \cup Outcome
    PROVE  /\ [f[c] EXCEPT !.phase = p] \in CallType
           /\ [f EXCEPT ![c].phase = p] \in [Callers -> CallType]
           /\ [f EXCEPT ![c].phase = p, ![c].answer = a] \in [Callers -> CallType]
  <1>1. [f[c] EXCEPT !.phase = p] \in CallType
    BY DEF CallType
  <1>2. [f EXCEPT ![c].phase = p] \in [Callers -> CallType]
    BY <1>1
  <1>3. [[f[c] EXCEPT !.phase = p] EXCEPT !.answer = a] \in CallType
    BY <1>1 DEF CallType
  <1>4. [f EXCEPT ![c].phase = p, ![c].answer = a]
          = [f EXCEPT ![c] = [[f[c] EXCEPT !.phase = p] EXCEPT !.answer = a]]
    OBVIOUS
  <1>q. QED BY <1>1, <1>2, <1>3, <1>4

LEMMA SetAnswer ==
    ASSUME NEW r \in CallType, NEW a \in {NoAnswer} \cup Outcome
    PROVE  [r EXCEPT !.answer = a] \in CallType
  BY DEF CallType

\* What Return does to its call and to the loop.
LEMMA ReturnType ==
    ASSUME TypeOK, NEW c \in Callers, NEW a \in Outcome, Return(c, a)
    PROVE  /\ call' \in [Callers -> CallType]
           /\ eventLoop' \in {"polling", "backoff", "ended", "stopped"}
           /\ forwarded' \in Seq(Nat)
  <1>1. PICK p \in {"idle", "returned"} :
           call' = [call EXCEPT ![c].phase = p, ![c].answer = a]
    BY DEF Return
  <1>2. call \in [Callers -> CallType] /\ p \in Phases
    BY <1>1 DEF TypeOK, CallType, Phases
  <1>3. call' \in [Callers -> CallType]
    BY <1>1, <1>2, SetCall
  <1>4. a.batch \in Seq(Nat) /\ forwarded \o a.batch \in Seq(Nat)
    BY DEF Outcome, TypeOK
  <1>5. LoopTakes(a) \/ UNCHANGED <<eventLoop, forwarded>>
    BY DEF Return, loopVars
  <1>6. forwarded' = forwarded \/ forwarded' = forwarded \o a.batch
    BY <1>5 DEF LoopTakes
  <1>7. eventLoop' = eventLoop \/ eventLoop' \in {"polling", "backoff", "ended"}
    BY <1>5 DEF LoopTakes
  <1>q. QED BY <1>3, <1>4, <1>6, <1>7 DEF TypeOK

LEMMA OwnOutcome ==
    ASSUME TypeOK, NEW c \in Callers
    PROVE  /\ RequestOf(c) \in Request
           /\ Closed(c) \in Outcome /\ Timeout(c) \in Outcome
  BY DEF TypeOK, RequestOf, Request, Closed, Timeout, Outcome, Answer

\* A call made, refused, returned or dropped.
LEMMA TypeCallers ==
    ASSUME TypeOK, NEW c \in Callers,
           Register(c) \/ Queue(c) \/ Answered(c) \/ TimesOut(c) \/ Cancel(c)
    PROVE  TypeOK'
  <1>a. USE DEF clientVars, loopVars, serverVars, eventVars
  <1>1. CASE Register(c)
    <2>1. budget' \in [BudgetKinds -> Nat]
      BY <1>1, SpendType DEF Register, TypeOK, BudgetKinds
    <2>2. call' \in [Callers -> CallType']
      BY <1>1 DEF Register, TypeOK, CallType, Phases
    <2>q. QED BY <1>1, <2>1, <2>2 DEF Register, TypeOK, CallType, Phases
  <1>2. CASE Queue(c)
    <2>1. CASE writer = "running"
      <3>1. /\ requests' = Append(requests, RequestOf(c))
            /\ call' = [call EXCEPT ![c].phase = "waiting"] /\ UNCHANGED <<pending, loopVars>>
        BY <1>2, <2>1 DEF Queue
      <3>2. call' \in [Callers -> CallType]
        BY <3>1 DEF TypeOK, CallType, Phases
      <3>3. requests' \in Seq(Request)
        BY <3>1, OwnOutcome DEF TypeOK
      <3>q. QED BY <1>2, <3>1, <3>2, <3>3 DEF Queue, TypeOK, CallType, Phases
    <2>2. CASE writer = "ended"
      <3>1. Return(c, Closed(c)) /\ pending' \subseteq pending
        BY <1>2, <2>2 DEF Queue
      <3>q. QED BY <1>2, <2>2, <3>1, OwnOutcome, ReturnType DEF Queue, TypeOK, CallType, Phases
    <2>q. QED BY <2>1, <2>2 DEF TypeOK
  <1>3. CASE Answered(c)
    <2>1. call[c].answer \in Outcome /\ Return(c, call[c].answer)
      BY <1>3 DEF Answered, TypeOK
    <2>q. QED BY <1>3, <2>1, ReturnType DEF Answered, TypeOK, CallType, Phases
  <1>4. CASE TimesOut(c)
    <2>1. Return(c, Timeout(c)) /\ pending' \subseteq pending
      BY <1>4 DEF TimesOut
    <2>q. QED BY <1>4, <2>1, OwnOutcome, ReturnType DEF TimesOut, TypeOK, CallType, Phases
  <1>5. CASE Cancel(c)
    <2>1. budget' \in [BudgetKinds -> Nat]
      BY <1>5, SpendType DEF Cancel, TypeOK, BudgetKinds
    <2>2. call' \in [Callers -> CallType]
      BY <1>5 DEF Cancel, TypeOK, CallType, Phases
    <2>q. QED BY <1>5, <2>1, <2>2 DEF Cancel, TypeOK, CallType, Phases
  <1>q. QED BY <1>1, <1>2, <1>3, <1>4, <1>5

\* An answer the reader can put into a call.
Takeable == reader = "matched" /\ matched.waiter # {} => matched.line.kind # "garbage"

LEMMA TypeTasks ==
    ASSUME TypeOK, Takeable,
           Write \/ TakeLine \/ SendAnswer \/ EndOfFile \/ ShutdownWriter \/ BackoffOver \/ Stop
    PROVE  TypeOK'
  <1>a. USE DEF clientVars, loopVars, serverVars, eventVars
  <1>1. CASE Write
    <2>1. Head(requests) \in Request /\ Tail(requests) \in Seq(Request)
      BY <1>1 DEF Write, TypeOK
    <2>2. <<>> \in Seq(Request)
      OBVIOUS
    <2>3. requests' \in Seq(Request) /\ serving' \subseteq Request
          /\ writer' \in {"running", "ended"}
      BY <1>1, <2>1, <2>2 DEF Write, TypeOK
    <2>q. QED BY <1>1, <2>3 DEF Write, TypeOK
  <1>2. CASE TakeLine
    <2>1. Head(stdout) \in Line /\ Tail(stdout) \in Seq(Line)
      BY <1>2 DEF TakeLine, TypeOK
    <2>2. Waiter(Head(stdout)) \subseteq pending
      BY DEF Waiter
    <2>3. matched' \in [waiter : SUBSET Nat, line : Line]
      <3>1. Waiter(Head(stdout)) \in SUBSET Nat
        <4>1. 1 .. (nextId - 1) \subseteq Nat /\ pending \subseteq 1 .. (nextId - 1)
          BY DEF TypeOK
        <4>q. QED BY <2>2, <4>1
      <3>q. QED BY <1>2, <2>1, <3>1 DEF TakeLine, TypeOK
    <2>4. /\ stdout' \in Seq(Line) /\ pending' \subseteq pending
          /\ reader' \in {"reading", "matched", "ended"}
      BY <1>2, <2>1 DEF TakeLine, TypeOK
    <2>q. QED BY <1>2, <2>3, <2>4 DEF TakeLine, TypeOK
  <1>3. CASE SendAnswer
    <2>1. ASSUME NEW c \in Callers PROVE call'[c] \in CallType
      <3>1. CASE Hears(matched.waiter, c)
        <4>1. matched.line \in Outcome
          BY <1>3, <3>1 DEF SendAnswer, Takeable, Hears, TypeOK, Line, Outcome
        <4>2. call'[c] = [call[c] EXCEPT !.answer = matched.line]
          BY <1>3, <3>1 DEF SendAnswer
        <4>3. call \in [Callers -> CallType]
          BY DEF TypeOK, CallType, Phases
        <4>q. QED BY <4>1, <4>2, <4>3, SetAnswer
      <3>2. CASE ~Hears(matched.waiter, c)
        BY <1>3, <3>2 DEF SendAnswer, TypeOK, CallType, Phases
      <3>q. QED BY <3>1, <3>2
    <2>2. call' \in [Callers -> CallType]
      BY <1>3, <2>1 DEF SendAnswer
    <2>q. QED BY <1>3, <2>2 DEF SendAnswer, TypeOK, CallType, Phases
  <1>4. CASE EndOfFile
    <2>1. ASSUME NEW c \in Callers PROVE call'[c] \in CallType
      <3>1. CASE Hears(pending, c)
        <4>1. call'[c] = [call[c] EXCEPT !.answer = Closed(c)]
          BY <1>4, <3>1 DEF EndOfFile
        <4>2. call \in [Callers -> CallType]
          BY DEF TypeOK, CallType, Phases
        <4>q. QED BY <4>1, <4>2, OwnOutcome, SetAnswer
      <3>2. CASE ~Hears(pending, c)
        BY <1>4, <3>2 DEF EndOfFile, TypeOK, CallType, Phases
      <3>q. QED BY <3>1, <3>2
    <2>2. call' \in [Callers -> CallType]
      BY <1>4, <2>1 DEF EndOfFile
    <2>q. QED BY <1>4, <2>2 DEF EndOfFile, TypeOK, CallType, Phases
  <1>5. CASE ShutdownWriter
    BY <1>5 DEF ShutdownWriter, TypeOK
  <1>6. CASE BackoffOver
    BY <1>6 DEF BackoffOver, TypeOK
  <1>7. CASE Stop
    <2>1. budget' \in [BudgetKinds -> Nat]
      BY <1>7, SpendType DEF Stop, TypeOK, BudgetKinds
    <2>2. call' \in [Callers -> CallType]
      BY <1>7 DEF Stop, TypeOK, CallType, Phases, Callers
    <2>q. QED BY <1>7, <2>1, <2>2 DEF Stop, TypeOK, CallType, Phases
  <1>q. QED BY <1>1, <1>2, <1>3, <1>4, <1>5, <1>6, <1>7

LEMMA TypeServer ==
    ASSUME TypeOK, Server
    PROVE  TypeOK'
  <1>a. USE DEF clientVars, loopVars, serverVars, eventVars
  <1>1. CASE CoreEmits
    <2>1. budget' \in [BudgetKinds -> Nat]
      BY <1>1, SpendType DEF CoreEmits, TypeOK, BudgetKinds
    <2>q. QED BY <1>1, <2>1 DEF CoreEmits, TypeOK
  <1>2. CASE ServerDies \/ Shutdown
    <2>1. budget' \in [BudgetKinds -> Nat]
      BY <1>2, SpendType DEF ServerDies, Shutdown, TypeOK, BudgetKinds
    <2>q. QED BY <1>2, <2>1 DEF ServerDies, Shutdown, TypeOK
  <1>3. ASSUME NEW r \in serving, NEW kind \in {"result", "error", "misfit", "garbage"},
               ServerAnswers(r, kind)
        PROVE  TypeOK'
    <2>1. budget' \in [BudgetKinds -> Nat]
      BY <1>3, SpendType DEF ServerAnswers, TypeOK, BudgetKinds
    <2>2. PICK batch :
            /\ batch = IF r.caller = EventLoop /\ kind # "error"
                       THEN [i \in 1 .. (emitted - handed) |-> handed + i] ELSE <<>>
            /\ handed' = handed + Len(batch)
            /\ spoiled' = IF kind = "result" THEN spoiled ELSE spoiled \cup ToSet(batch)
            /\ stdout' = Append(stdout, Answer(r, kind, batch))
      BY <1>3 DEF ServerAnswers
    <2>3. /\ batch \in Seq(Nat) /\ handed + Len(batch) \in handed .. emitted
          /\ \A i \in DOMAIN batch : batch[i] = handed + i /\ i \in 1 .. Len(batch)
      BY <2>2 DEF TypeOK
    <2>4. handed' \in 0 .. emitted /\ spoiled' \subseteq 1 .. handed'
      <3>1. ToSet(batch) \subseteq 1 .. handed'
        BY <2>2, <2>3 DEF TypeOK, ToSet
      <3>2. handed \in Nat /\ handed' \in Nat /\ handed <= handed' /\ handed' <= emitted
        BY <2>2, <2>3 DEF TypeOK
      <3>3. 1 .. handed \subseteq 1 .. handed' /\ spoiled \subseteq 1 .. handed
        BY <3>2 DEF TypeOK
      <3>4. spoiled' \subseteq 1 .. handed'
        BY <2>2, <3>1, <3>3
      <3>5. emitted \in Nat
        BY DEF TypeOK
      <3>q. QED BY <3>2, <3>4, <3>5
    <2>5. Answer(r, kind, batch) \in Line
      BY <2>3 DEF Answer, Line, TypeOK
    <2>6. stdout' \in Seq(Line)
      BY <2>2, <2>5 DEF TypeOK
    <2>q. QED BY <1>3, <2>1, <2>4, <2>6 DEF ServerAnswers, TypeOK
  <1>q. QED BY <1>1, <1>2, <1>3 DEF Server

-----------------------------------------------------------------------------
(* Ids and waiters *)

\* The request of the call with its id, if there is one.
Known(r) ==
    /\ r.id \in 1 .. (nextId - 1)
    /\ \A c \in Callers : call[c].id = r.id => r.caller = c

OwnIds ==
    \A c \in Callers :
        /\ Open(c) => call[c].id # 0
        /\ \A d \in Callers : call[c].id = call[d].id /\ call[c].id # 0 => c = d

RequestsKnown ==
    /\ \A i \in DOMAIN requests : Known(requests[i])
    /\ \A r \in serving : Known(r)
    /\ \A i \in DOMAIN stdout : Known(stdout[i].request)
    /\ reader = "matched" => Known(matched.line.request)

\* What the reader holds belongs to nobody who is still in the map.
Taken ==
    reader = "matched" =>
        /\ matched.waiter = {matched.line.request.id}
        /\ matched.line.kind # "garbage"
        /\ matched.line.request.id \notin pending

AnsweredGone == \A c \in Callers : call[c].answer # NoAnswer => call[c].id \notin pending

Waiters == Taken /\ AnsweredGone /\ OwnAnswer /\ WaitersAgree
Ids     == OwnIds /\ RequestsKnown
Inv     == TypeOK /\ Ids /\ Waiters

\* Every step but Register leaves the ids alone.
SameIds == nextId' = nextId /\ \A c \in Callers : call'[c].id = call[c].id

LEMMA IdsKept ==
    ASSUME SameIds, NEW r, Known(r)
    PROVE  Known(r)'
  BY DEF SameIds, Known

\* One call changed, the others not.
LEMMA ReturnFacts ==
    ASSUME TypeOK, NEW c \in Callers, NEW a, Return(c, a)
    PROVE  /\ \A d \in Callers \ {c} : call'[d] = call[d]
           /\ call'[c].id = call[c].id /\ call'[c].answer = a
           /\ call'[c].phase \in {"idle", "returned"}
  <1>1. PICK p \in {"idle", "returned"} :
           call' = [call EXCEPT ![c].phase = p, ![c].answer = a]
    BY DEF Return
  <1>2. call \in [Callers -> CallType]
    BY DEF TypeOK, CallType, Phases
  <1>3. call'[c] = [[call[c] EXCEPT !.phase = p] EXCEPT !.answer = a]
    BY <1>1, <1>2
  <1>4. \A d \in Callers \ {c} : call'[d] = call[d]
    BY <1>1, <1>2
  <1>5. call[c] \in CallType
    BY <1>2
  <1>q. QED BY <1>3, <1>4, <1>5 DEF CallType

LEMMA PhaseFacts ==
    ASSUME TypeOK, NEW c \in Callers, NEW p, call' = [call EXCEPT ![c].phase = p]
    PROVE  /\ \A d \in Callers \ {c} : call'[d] = call[d]
           /\ call'[c].id = call[c].id /\ call'[c].answer = call[c].answer
           /\ call'[c].phase = p
  <1>1. call \in [Callers -> CallType]
    BY DEF TypeOK, CallType, Phases
  <1>2. call[c] \in CallType
    BY <1>1
  <1>q. QED BY <1>1, <1>2 DEF CallType

\* A new id is nobody's.
LEMMA WaitRegister ==
    ASSUME Inv, NEW c \in Callers, Register(c)
    PROVE  Ids' /\ Waiters'
  <1>1. /\ \A d \in Callers \ {c} : call'[d] = call[d]
        /\ call'[c] = [phase |-> "registered", id |-> nextId, answer |-> NoAnswer]
        /\ pending' = pending \cup {nextId} /\ nextId' = nextId + 1
        /\ UNCHANGED <<requests, reader, matched, serving, stdout>>
        /\ call[c].phase = "idle"
    BY DEF Register, Inv, TypeOK, serverVars
  <1>2. /\ nextId \in Nat \ {0} /\ pending \subseteq 1 .. (nextId - 1)
        /\ \A d \in Callers : call[d].id \in 0 .. (nextId - 1)
    BY DEF Inv, TypeOK
  <1>3. ASSUME NEW r, Known(r) PROVE Known(r)' /\ r.id # nextId
    BY <1>1, <1>2, <1>3 DEF Known
  <1>4. RequestsKnown'
    BY <1>1, <1>3 DEF RequestsKnown, Inv, Ids
  <1>5. OwnIds'
    BY <1>1, <1>2 DEF OwnIds, Inv, Ids, Open
  <1>6. Taken'
    BY <1>1, <1>3 DEF Taken, Inv, Ids, Waiters, RequestsKnown
  <1>7. AnsweredGone' /\ OwnAnswer'
    BY <1>1, <1>2 DEF AnsweredGone, OwnAnswer, Inv, Waiters, RequestOf
  <1>8. WaiterReachable'
    BY <1>1 DEF WaiterReachable, Inv, Waiters, WaitersAgree, Open
  <1>9. NoWaiterLeft'
    BY <1>1, <1>2 DEF NoWaiterLeft, Inv, Waiters, WaitersAgree, Open
  <1>q. QED BY <1>4, <1>5, <1>6, <1>7, <1>8, <1>9 DEF Ids, Waiters, WaitersAgree

\* A call that is over: with its answer, and nowhere in the map.
LEMMA WaitReturn ==
    ASSUME Inv, NEW c \in Callers, NEW a, Return(c, a), Open(c), a.request = RequestOf(c),
           pending' = pending \ {call[c].id},
           UNCHANGED <<nextId, requests, writer, reader, matched, serving, stdout>>
    PROVE  Ids' /\ Waiters'
  <1>1. /\ \A d \in Callers \ {c} : call'[d] = call[d]
        /\ call'[c].id = call[c].id /\ call'[c].answer = a
        /\ call'[c].phase \in {"idle", "returned"}
    BY ReturnFacts DEF Inv
  <1>2. SameIds
    BY <1>1 DEF SameIds
  <1>3. RequestsKnown'
    BY <1>2, IdsKept DEF RequestsKnown, Inv, Ids
  <1>4. OwnIds'
    BY <1>1 DEF OwnIds, Inv, Ids, Open
  <1>5. Taken'
    BY DEF Taken, Inv, Waiters
  <1>6. AnsweredGone' /\ OwnAnswer'
    BY <1>1 DEF AnsweredGone, OwnAnswer, Inv, Waiters, RequestOf
  <1>7. WaiterReachable'
    <2>1. ASSUME NEW d \in Callers, Open(d)', call'[d].answer = NoAnswer, reader # "ended"
          PROVE  call'[d].id \in pending' \/ (reader = "matched" /\ call'[d].id \in matched.waiter)
      <3>1. d # c /\ call'[d] = call[d]
        BY <1>1, <2>1 DEF Open
      <3>2. call[d].id # call[c].id
        BY <3>1 DEF Inv, Ids, OwnIds
      <3>q. QED BY <2>1, <3>1, <3>2 DEF WaiterReachable, Inv, Waiters, WaitersAgree, Open
    <2>q. QED BY <2>1 DEF WaiterReachable
  <1>8. NoWaiterLeft'
    BY <1>1 DEF NoWaiterLeft, Inv, Waiters, WaitersAgree, Open
  <1>q. QED BY <1>3, <1>4, <1>5, <1>6, <1>7, <1>8 DEF Ids, Waiters, WaitersAgree

\* The rest of a call's steps.
LEMMA WaitCall ==
    ASSUME Inv, NEW c \in Callers, Queue(c) \/ Answered(c) \/ TimesOut(c)
    PROVE  Ids' /\ Waiters'
  <1>1. CASE Answered(c)
    <2>1. /\ Return(c, call[c].answer) /\ Open(c)
          /\ UNCHANGED <<nextId, pending, requests, writer, reader, matched, serving, stdout>>
          /\ call[c].answer # NoAnswer
      BY <1>1 DEF Answered, Open, clientVars, serverVars
    <2>2. pending' = pending \ {call[c].id} /\ call[c].answer.request = RequestOf(c)
      BY <2>1 DEF Inv, Waiters, AnsweredGone, OwnAnswer
    <2>q. QED BY <2>1, <2>2, WaitReturn
  <1>2. CASE TimesOut(c)
    <2>1. /\ Return(c, Timeout(c)) /\ Open(c) /\ pending' = pending \ {call[c].id}
          /\ UNCHANGED <<nextId, requests, writer, reader, matched, serving, stdout>>
      BY <1>2 DEF TimesOut, Open, serverVars
    <2>2. Timeout(c).request = RequestOf(c)
      BY DEF Timeout, Answer
    <2>q. QED BY <2>1, <2>2, WaitReturn
  <1>3. CASE Queue(c) /\ writer = "ended"
    <2>1. /\ Return(c, Closed(c)) /\ Open(c) /\ pending' = pending \ {call[c].id}
          /\ UNCHANGED <<nextId, requests, writer, reader, matched, serving, stdout>>
      BY <1>3 DEF Queue, Open, serverVars
    <2>2. Closed(c).request = RequestOf(c)
      BY DEF Closed, Answer
    <2>q. QED BY <2>1, <2>2, WaitReturn
  <1>4. CASE Queue(c) /\ writer # "ended"
    <2>1. /\ requests' = Append(requests, RequestOf(c))
          /\ call' = [call EXCEPT ![c].phase = "waiting"] /\ call[c].phase = "registered"
          /\ UNCHANGED <<nextId, pending, reader, matched, serving, stdout>>
      BY <1>4 DEF Queue, serverVars
    <2>2. /\ \A d \in Callers \ {c} : call'[d] = call[d]
          /\ call'[c].id = call[c].id /\ call'[c].answer = call[c].answer
          /\ call'[c].phase = "waiting"
      BY <2>1, PhaseFacts DEF Inv
    <2>3. SameIds /\ \A d \in Callers : Open(d)' <=> Open(d)
      BY <2>1, <2>2 DEF SameIds, Open
    <2>4. Known(RequestOf(c))
      BY <2>1 DEF Known, RequestOf, Inv, Ids, OwnIds, Open, TypeOK
    <2>5. RequestsKnown'
      <3>1. \A i \in DOMAIN requests' : Known(requests'[i])
        BY <2>1, <2>4 DEF Inv, Ids, RequestsKnown, TypeOK
      <3>q. QED BY <2>1, <2>3, <3>1, IdsKept DEF RequestsKnown, Inv, Ids
    <2>6. OwnIds'
      BY <2>2, <2>3 DEF OwnIds, Inv, Ids, SameIds
    <2>7. Taken' /\ AnsweredGone' /\ OwnAnswer'
      BY <2>1, <2>2 DEF Taken, AnsweredGone, OwnAnswer, Inv, Waiters, RequestOf
    <2>8. WaitersAgree'
      BY <2>1, <2>2, <2>3 DEF WaitersAgree, WaiterReachable, NoWaiterLeft, Inv, Waiters
    <2>q. QED BY <2>5, <2>6, <2>7, <2>8 DEF Ids, Waiters
  <1>q. QED BY <1>1, <1>2, <1>3, <1>4

\* A caller gone: nobody waits behind its id, which stays in the map or not.
LEMMA WaitCancel ==
    ASSUME Inv, NEW c \in Callers, call' = [call EXCEPT ![c].phase = "cancelled"],
           UNCHANGED <<nextId, pending, requests, reader, matched, serving, stdout>>
    PROVE  Ids' /\ Waiters'
  <1>1. /\ \A d \in Callers \ {c} : call'[d] = call[d]
        /\ call'[c].id = call[c].id /\ call'[c].answer = call[c].answer
        /\ call'[c].phase = "cancelled"
    BY PhaseFacts DEF Inv
  <1>2. SameIds
    BY <1>1 DEF SameIds
  <1>3. RequestsKnown' /\ OwnIds'
    BY <1>1, <1>2, IdsKept DEF RequestsKnown, OwnIds, Inv, Ids, Open
  <1>4. Taken' /\ AnsweredGone' /\ OwnAnswer'
    BY <1>1 DEF Taken, AnsweredGone, OwnAnswer, Inv, Waiters, RequestOf
  <1>5. WaitersAgree'
    BY <1>1 DEF WaitersAgree, WaiterReachable, NoWaiterLeft, Inv, Waiters, Open
  <1>q. QED BY <1>3, <1>4, <1>5 DEF Ids, Waiters

\* Callers as they are, their ids and the answers they have.
LEMMA CallersSame ==
    ASSUME Inv, UNCHANGED <<call, nextId>>,
           \A i \in DOMAIN requests' : requests'[i] \in ToSet(requests),
           \A i \in DOMAIN stdout' :
              stdout'[i].request \in serving \cup {stdout[j].request : j \in DOMAIN stdout},
           serving' \subseteq serving \cup ToSet(requests),
           reader' = "matched" =>
              \/ UNCHANGED <<reader, matched>>
              \/ matched'.line.request \in {stdout[j].request : j \in DOMAIN stdout}
    PROVE  Ids'
  <1>1. SameIds
    BY DEF SameIds
  <1>2. OwnIds'
    BY DEF OwnIds, Inv, Ids, Open
  <1>3. /\ \A r \in ToSet(requests) \cup serving : Known(r)
        /\ \A r \in {stdout[j].request : j \in DOMAIN stdout} : Known(r)
    BY DEF Inv, Ids, RequestsKnown, ToSet
  <1>4. \A r \in ToSet(requests) \cup serving \cup {stdout[j].request : j \in DOMAIN stdout} :
           Known(r)'
    BY <1>1, <1>3, IdsKept
  <1>5. (reader = "matched" => Known(matched.line.request))'
    <2>1. CASE UNCHANGED <<reader, matched>>
      BY <1>1, <2>1, IdsKept DEF Inv, Ids, RequestsKnown
    <2>2. CASE matched'.line.request \in {stdout[j].request : j \in DOMAIN stdout}
      BY <1>4, <2>2
    <2>q. QED BY <2>1, <2>2
  <1>6. (\A i \in DOMAIN requests : Known(requests[i]))'
    BY <1>4
  <1>7. (\A r \in serving : Known(r))'
    BY <1>4
  <1>8. (\A i \in DOMAIN stdout : Known(stdout[i].request))'
    BY <1>4
  <1>q. QED BY <1>2, <1>5, <1>6, <1>7, <1>8 DEF Ids, RequestsKnown

LEMMA WaitTakeLine ==
    ASSUME Inv, TakeLine
    PROVE  Ids' /\ Waiters'
  <1> DEFINE line == Head(stdout)
  <1>1. /\ reader = "reading" /\ stdout # <<>> /\ stdout' = Tail(stdout)
        /\ pending' = pending \ Waiter(line)
        /\ UNCHANGED <<nextId, requests, call, serving>>
        /\ \/ Waiter(line) = {} /\ UNCHANGED <<reader, matched>>
           \/ /\ Waiter(line) # {} /\ reader' = "matched"
              /\ matched' = [waiter |-> Waiter(line), line |-> line]
    BY DEF TakeLine
  <1>2. /\ stdout \in Seq(Line) /\ line = stdout[1] /\ 1 \in DOMAIN stdout
        /\ \A i \in DOMAIN Tail(stdout) : Tail(stdout)[i] = stdout[i + 1] /\ i + 1 \in DOMAIN stdout
    BY <1>1 DEF Inv, TypeOK
  <1>3. Waiter(line) # {} => /\ Waiter(line) = {line.request.id} /\ line.kind # "garbage"
    BY DEF Waiter
  <1> HIDE DEF line
  <1>4. Ids'
    <2>1. \A i \in DOMAIN stdout' :
             stdout'[i].request \in serving \cup {stdout[j].request : j \in DOMAIN stdout}
      BY <1>1, <1>2
    <2>2. reader' = "matched" => matched'.line.request \in {stdout[j].request : j \in DOMAIN stdout}
      BY <1>1, <1>2
    <2>q. QED BY <1>1, <2>1, <2>2, CallersSame DEF ToSet
  <1>5. Taken'
    BY <1>1, <1>3 DEF Taken
  <1>6. AnsweredGone' /\ OwnAnswer'
    BY <1>1 DEF AnsweredGone, OwnAnswer, Inv, Waiters, RequestOf
  <1>7. WaitersAgree'
    BY <1>1 DEF WaitersAgree, WaiterReachable, NoWaiterLeft, Inv, Waiters, Open
  <1>q. QED BY <1>4, <1>5, <1>6, <1>7 DEF Waiters

\* Calls that hear of their ids get the answers A.
Answers(ids, A) ==
    \A c \in Callers :
        /\ call'[c].id = call[c].id /\ call'[c].phase = call[c].phase
        /\ Hears(ids, c) => /\ call'[c].answer = A[c]
                            /\ A[c] # NoAnswer /\ A[c].request = RequestOf(c)
        /\ ~Hears(ids, c) => call'[c].answer = call[c].answer

LEMMA AnswersPut ==
    ASSUME TypeOK, NEW ids, NEW A,
           call' = [c \in Callers |-> IF Hears(ids, c)
                                     THEN [call[c] EXCEPT !.answer = A[c]] ELSE call[c]],
           \A c \in Callers : Hears(ids, c) => A[c] # NoAnswer /\ A[c].request = RequestOf(c)
    PROVE  Answers(ids, A)
  <1>1. SUFFICES ASSUME NEW c \in Callers
                 PROVE  /\ call'[c].id = call[c].id /\ call'[c].phase = call[c].phase
                        /\ Hears(ids, c) => call'[c].answer = A[c]
                        /\ ~Hears(ids, c) => call'[c].answer = call[c].answer
    BY DEF Answers
  <1>2. call[c] \in CallType
    BY DEF TypeOK, CallType, Phases
  <1>3. CASE Hears(ids, c)
    <2>1. call'[c] = [call[c] EXCEPT !.answer = A[c]]
      BY <1>3
    <2>q. QED BY <1>2, <1>3, <2>1 DEF CallType
  <1>4. CASE ~Hears(ids, c)
    BY <1>4
  <1>q. QED BY <1>3, <1>4

\* Answers put into calls whose ids left the map.
LEMMA WaitAnswers ==
    ASSUME Inv, NEW ids, NEW A, Answers(ids, A),
           pending' = pending \ ids, ids \cap pending' = {},
           reader # "ended", reader' # "matched",
           reader' = "ended" \/ (reader = "matched" => matched.waiter \subseteq ids),
           UNCHANGED <<nextId, requests, matched, serving, stdout>>
    PROVE  Ids' /\ Waiters'
  <1>1. SameIds /\ \A c \in Callers : Open(c)' <=> Open(c)
    BY DEF SameIds, Open, Answers
  <1>2. RequestsKnown'
    BY <1>1, IdsKept DEF RequestsKnown, Inv, Ids
  <1>3. OwnIds'
    BY <1>1 DEF OwnIds, Inv, Ids, SameIds
  <1>4. Taken'
    BY DEF Taken
  <1>5. AnsweredGone' /\ OwnAnswer'
    BY DEF AnsweredGone, OwnAnswer, Inv, Waiters, RequestOf, Hears, Answers
  <1>6. WaiterReachable'
    <2>1. ASSUME NEW c \in Callers, Open(c), call'[c].answer = NoAnswer, reader' # "ended"
          PROVE  call[c].id \in pending'
      <3>1. call[c].id \notin ids /\ call[c].answer = NoAnswer
        BY <2>1 DEF Hears, Answers
      <3>2. reader # "ended" => \/ call[c].id \in pending
                                \/ reader = "matched" /\ call[c].id \in matched.waiter
        BY <2>1, <3>1 DEF Inv, Waiters, WaitersAgree, WaiterReachable
      <3>q. QED BY <2>1, <3>1, <3>2
    <2>q. QED BY <1>1, <2>1 DEF WaiterReachable, Answers
  <1>7. NoWaiterLeft'
    BY <1>1 DEF NoWaiterLeft, Inv, Waiters, WaitersAgree, Answers
  <1>q. QED BY <1>2, <1>3, <1>4, <1>5, <1>6, <1>7 DEF Ids, Waiters, WaitersAgree

LEMMA WaitReader ==
    ASSUME Inv, SendAnswer \/ EndOfFile
    PROVE  Ids' /\ Waiters'
  <1>1. CASE SendAnswer
    <2>1. /\ reader = "matched" /\ reader' = "reading"
          /\ UNCHANGED <<nextId, pending, requests, matched, serving, stdout>>
          /\ call' = [c \in Callers |-> IF Hears(matched.waiter, c)
                                        THEN [call[c] EXCEPT !.answer = matched.line] ELSE call[c]]
      BY <1>1 DEF SendAnswer, serverVars
    <2>2. /\ matched.waiter = {matched.line.request.id} /\ matched.line.kind # "garbage"
          /\ matched.waiter \cap pending = {} /\ Known(matched.line.request)
      BY <2>1 DEF Inv, Ids, Waiters, Taken, RequestsKnown
    <2>3. matched.line \in Line
      BY DEF Inv, TypeOK
    <2>4. ASSUME NEW c \in Callers, Hears(matched.waiter, c)
          PROVE  matched.line # NoAnswer /\ matched.line.request = RequestOf(c)
      <3>1. call[c].id = matched.line.request.id /\ matched.line.request.caller = c
        BY <2>2, <2>4 DEF Hears, Known
      <3>q. QED BY <2>3, <3>1, NoAnswerAssumption DEF Line, Request, RequestOf
    <2>5. PICK A : A = [c \in Callers |-> matched.line]
      OBVIOUS
    <2>6. \A c \in Callers : A[c] = matched.line
      BY <2>5
    <2>7. Answers(matched.waiter, A)
      BY <2>1, <2>4, <2>6, AnswersPut DEF Inv
    <2>q. QED BY <2>1, <2>2, <2>7, WaitAnswers
  <1>2. CASE EndOfFile
    <2>1. /\ reader = "reading" /\ reader' = "ended" /\ pending' = {}
          /\ UNCHANGED <<nextId, requests, matched, serving, stdout>>
          /\ call' = [c \in Callers |-> IF Hears(pending, c)
                                        THEN [call[c] EXCEPT !.answer = Closed(c)] ELSE call[c]]
      BY <1>2 DEF EndOfFile, serverVars
    <2>2. \A c \in Callers : Closed(c) # NoAnswer /\ Closed(c).request = RequestOf(c)
      BY OwnOutcome, NoAnswerAssumption DEF Closed, Answer, Inv
    <2>3. PICK A : A = [c \in Callers |-> Closed(c)]
      OBVIOUS
    <2>4. \A c \in Callers : A[c] = Closed(c)
      BY <2>3
    <2>5. Answers(pending, A)
      BY <2>1, <2>2, <2>4, AnswersPut DEF Inv
    <2>q. QED BY <2>1, <2>5, WaitAnswers
  <1>q. QED BY <1>1, <1>2

\* Steps that touch neither a call nor the map.
LEMMA WaitOthers ==
    ASSUME Inv, Write \/ ShutdownWriter \/ BackoffOver \/ Server
    PROVE  Ids' /\ Waiters'
  <1>1. UNCHANGED <<call, nextId, pending, reader, matched>>
    BY DEF Write, ShutdownWriter, BackoffOver, Server, CoreEmits, ServerDies, Shutdown,
           ServerAnswers, clientVars
  <1>2. Waiters'
    BY <1>1 DEF Waiters, Taken, AnsweredGone, OwnAnswer, WaitersAgree, WaiterReachable,
                NoWaiterLeft, Inv, Open, RequestOf
  <1>3. requests \in Seq(Request) /\ stdout \in Seq(Line)
    BY DEF Inv, TypeOK
  <1>4. CASE Write
    <2>1. \/ /\ requests # <<>> /\ requests' = Tail(requests)
             /\ serving' = serving \cup {Head(requests)}
          \/ requests' = <<>> /\ serving' = serving
      BY <1>4 DEF Write
    <2>2. requests # <<>> => /\ Head(requests) \in ToSet(requests)
                             /\ \A i \in DOMAIN Tail(requests) : Tail(requests)[i] \in ToSet(requests)
      BY <1>3 DEF ToSet
    <2>3. /\ \A i \in DOMAIN requests' : requests'[i] \in ToSet(requests)
          /\ serving' \subseteq serving \cup ToSet(requests)
      BY <2>1, <2>2
    <2>4. UNCHANGED stdout
      BY <1>4 DEF Write
    <2>q. QED BY <1>1, <1>2, <2>3, <2>4, CallersSame
  <1>5. CASE ShutdownWriter \/ BackoffOver \/ CoreEmits \/ ServerDies \/ Shutdown
    <2>1. /\ requests' = requests \/ requests' = <<>>
          /\ serving' \subseteq serving /\ UNCHANGED stdout
      BY <1>5 DEF ShutdownWriter, BackoffOver, CoreEmits, ServerDies, Shutdown, clientVars, serverVars
    <2>2. \A i \in DOMAIN requests' : requests'[i] \in ToSet(requests)
      BY <1>3, <2>1 DEF ToSet
    <2>q. QED BY <1>1, <1>2, <2>1, <2>2, CallersSame
  <1>6. ASSUME NEW r \in serving, NEW kind \in {"result", "error", "misfit", "garbage"},
               ServerAnswers(r, kind)
        PROVE  Ids'
    <2>1. PICK batch : stdout' = Append(stdout, Answer(r, kind, batch))
      BY <1>6 DEF ServerAnswers
    <2>2. serving' \subseteq serving /\ UNCHANGED requests
      BY <1>6 DEF ServerAnswers, clientVars
    <2>3. \A i \in DOMAIN stdout' :
             stdout'[i].request \in serving \cup {stdout[j].request : j \in DOMAIN stdout}
      BY <1>3, <2>1 DEF Answer
    <2>4. \A i \in DOMAIN requests' : requests'[i] \in ToSet(requests)
      BY <1>3, <2>2 DEF ToSet
    <2>q. QED BY <1>1, <2>2, <2>3, <2>4, CallersSame
  <1>q. QED BY <1>2, <1>4, <1>5, <1>6 DEF Server

LEMMA InvInit == Init => Inv
  <1> SUFFICES ASSUME Init PROVE Inv
    OBVIOUS
  <1>1. /\ \A c \in Callers : call[c] = [phase |-> "idle", id |-> 0, answer |-> NoAnswer]
        /\ requests = <<>> /\ stdout = <<>> /\ serving = {} /\ pending = {}
        /\ reader = "reading"
    BY DEF Init
  <1>2. TypeOK
    <2>1. budget \in [BudgetKinds -> Nat]
      BY RpcClientAssumption DEF Init
    <2>2. matched \in [waiter : SUBSET Nat, line : Line]
      BY DEF Init, Line, Answer, Request, Callers
    <2>q. QED BY <1>1, <2>1, <2>2 DEF Init, TypeOK
  <1>3. Ids
    BY <1>1 DEF Ids, OwnIds, RequestsKnown, Open
  <1>4. Waiters
    BY <1>1 DEF Waiters, Taken, AnsweredGone, OwnAnswer, WaitersAgree, WaiterReachable,
                NoWaiterLeft, Open
  <1>q. QED BY <1>2, <1>3, <1>4 DEF Inv

LEMMA InvStep == Inv /\ [Next]_vars => Inv'
  <1> SUFFICES ASSUME Inv, [Next]_vars PROVE Inv'
    OBVIOUS
  <1>1. TypeOK /\ Takeable
    BY DEF Inv, Waiters, Taken, Takeable
  <1>2. CASE UNCHANGED vars
    <2>1. UNCHANGED <<nextId, pending, requests, writer, reader, matched, call, eventLoop,
                      forwarded, server, serving, stdout, emitted, handed, spoiled, budget>>
      BY <1>2 DEF vars, clientVars, loopVars, serverVars, eventVars
    <2>q. QED BY <2>1 DEF Inv, TypeOK, Ids, OwnIds, RequestsKnown, Known, Waiters, Taken,
                          AnsweredGone, OwnAnswer, WaitersAgree, WaiterReachable,
                          NoWaiterLeft, Open, RequestOf
  <1>3. CASE \E c \in Callers : Register(c)
    BY <1>1, <1>3, TypeCallers, WaitRegister DEF Inv
  <1>4. CASE \E c \in Callers : Queue(c) \/ Answered(c)
    BY <1>1, <1>4, TypeCallers, WaitCall DEF Inv
  <1>5. CASE \E c \in Calls : TimesOut(c)
    <2>1. PICK c \in Calls : TimesOut(c)
      BY <1>5
    <2>2. c \in Callers
      BY DEF Callers
    <2>q. QED BY <1>1, <2>1, <2>2, TypeCallers, WaitCall DEF Inv
  <1>6. CASE \E c \in Calls : Cancel(c)
    <2>1. PICK c \in Calls : Cancel(c)
      BY <1>6
    <2>2. /\ c \in Callers /\ call' = [call EXCEPT ![c].phase = "cancelled"]
          /\ UNCHANGED <<nextId, pending, requests, reader, matched, serving, stdout>>
      BY <2>1 DEF Callers, Cancel, clientVars, serverVars
    <2>q. QED BY <1>1, <2>1, <2>2, TypeCallers, WaitCancel DEF Inv
  <1>7. CASE Stop
    <2>1. /\ EventLoop \in Callers /\ call' = [call EXCEPT ![EventLoop].phase = "cancelled"]
          /\ UNCHANGED <<nextId, pending, requests, reader, matched, serving, stdout>>
      BY <1>7 DEF Callers, Stop, clientVars, serverVars
    <2>q. QED BY <1>1, <1>7, <2>1, TypeTasks, WaitCancel DEF Inv
  <1>8. CASE TakeLine
    BY <1>1, <1>8, TypeTasks, WaitTakeLine DEF Inv
  <1>9. CASE SendAnswer \/ EndOfFile
    BY <1>1, <1>9, TypeTasks, WaitReader DEF Inv
  <1>10. CASE Write \/ ShutdownWriter \/ BackoffOver
    BY <1>1, <1>10, TypeTasks, WaitOthers DEF Inv
  <1>11. CASE Server
    BY <1>1, <1>11, TypeServer, WaitOthers DEF Inv
  <1>q. QED BY <1>2, <1>3, <1>4, <1>5, <1>6, <1>7, <1>8, <1>9, <1>10, <1>11
           DEF Next, Caller, Writer, Reader

\* The client's state, its callers' and the server's are of their types, and the answer
\* in the reader's hands is one a waiter can take.
THEOREM TypeCorrect == Spec => []TypeOK
  <1>1. Spec => []Inv
    BY InvInit, InvStep, PTL DEF Spec
  <1>2. Inv => TypeOK
    BY DEF Inv
  <1>q. QED BY <1>1, <1>2, PTL

\* However answers, timeouts, dropped calls and the server's end cross, a call that has an
\* answer has the one to its own request (call_raw, read_responses).
THEOREM AnswersMatch == Spec => []OwnAnswer
  <1>1. Spec => []Inv
    BY InvInit, InvStep, PTL DEF Spec
  <1>2. Inv => OwnAnswer
    BY DEF Inv, Waiters
  <1>q. QED BY <1>1, <1>2, PTL

\* Nobody who waits is missing from the map of waiters while the reader runs, and nobody
\* is left in it who has an answer, was refused or timed out (PendingMap).
THEOREM WaitersFound == Spec => []WaitersAgree
  <1>1. Spec => []Inv
    BY InvInit, InvStep, PTL DEF Spec
  <1>2. Inv => WaitersAgree
    BY DEF Inv, Waiters
  <1>q. QED BY <1>1, <1>2, PTL

-----------------------------------------------------------------------------
(* The stream of events *)

\* The end of the stream, and whatever leads to it, means that the server is gone.
StreamEndsGone == eventLoop = "ended" => server # "up"

Gone ==
    /\ StreamEndsGone
    /\ writer = "ended" \/ reader = "ended" => server # "up"
    /\ \A c \in Callers : call[c].answer # NoAnswer /\ call[c].answer.kind = "closed"
                          => server # "up"

LEMMA GoneReturn ==
    ASSUME Inv, Gone, NEW c \in Callers, NEW a \in Outcome, Return(c, a), UNCHANGED <<server, writer, reader>>,
           a.kind = "closed" => server # "up"
    PROVE  Gone'
  <1>1. /\ \A d \in Callers \ {c} : call'[d] = call[d]
        /\ call'[c].answer = a
    BY ReturnFacts DEF Inv
  <1>2. LoopTakes(a) \/ UNCHANGED eventLoop
    BY DEF Return, loopVars
  <1>3. StreamEndsGone'
    BY <1>2 DEF LoopTakes, Gone, StreamEndsGone
  <1>q. QED BY <1>1, <1>3 DEF Gone

LEMMA GoneStep == Inv /\ Gone /\ [Next]_vars => Gone'
  <1> SUFFICES ASSUME Inv, Gone, [Next]_vars PROVE Gone'
    OBVIOUS
  <1>1. TypeOK
    BY DEF Inv
  <1>2. CASE UNCHANGED vars
    BY <1>2 DEF Gone, StreamEndsGone, vars, clientVars, loopVars, serverVars
  <1>3. ASSUME NEW c \in Callers, Register(c) PROVE Gone'
    <2>1. /\ call' = [call EXCEPT ![c] = [phase |-> "registered", id |-> nextId,
                                          answer |-> NoAnswer]]
          /\ UNCHANGED <<server, writer, reader, eventLoop>>
      BY <1>3 DEF Register, loopVars, serverVars
    <2>q. QED BY <1>1, <2>1 DEF Gone, StreamEndsGone, TypeOK
  <1>4. ASSUME NEW c \in Callers, Queue(c) PROVE Gone'
    <2>1. CASE writer = "ended"
      BY <1>1, <1>4, <2>1, GoneReturn, OwnOutcome DEF Queue, Gone, serverVars
    <2>2. CASE writer # "ended"
      <3>1. /\ call' = [call EXCEPT ![c].phase = "waiting"]
            /\ UNCHANGED <<server, writer, reader, eventLoop>>
        BY <1>4, <2>2 DEF Queue, loopVars, serverVars
      <3>q. QED BY <1>1, <3>1, PhaseFacts DEF Gone, StreamEndsGone
    <2>q. QED BY <2>1, <2>2
  <1>5. ASSUME NEW c \in Callers, Answered(c) PROVE Gone'
    <2>1. /\ Return(c, call[c].answer) /\ call[c].answer # NoAnswer
          /\ UNCHANGED <<server, writer, reader>>
      BY <1>5 DEF Answered, clientVars, serverVars
    <2>2. call[c].answer \in Outcome
      BY <1>1, <2>1 DEF TypeOK
    <2>q. QED BY <2>1, <2>2, GoneReturn DEF Gone
  <1>6. ASSUME NEW c \in Calls, TimesOut(c) PROVE Gone'
    <2>1. c \in Callers /\ Timeout(c).kind = "timeout"
      BY DEF Callers, Timeout, Answer
    <2>2. Return(c, Timeout(c)) /\ UNCHANGED <<server, writer, reader>>
      BY <1>6 DEF TimesOut, serverVars
    <2>q. QED BY <1>1, <2>1, <2>2, GoneReturn, OwnOutcome
  <1>7. ASSUME NEW c \in Calls, Cancel(c) PROVE Gone'
    <2>1. /\ c \in Callers /\ call' = [call EXCEPT ![c].phase = "cancelled"]
          /\ UNCHANGED <<server, writer, reader, eventLoop>>
      BY <1>7 DEF Callers, Cancel, clientVars, loopVars, serverVars
    <2>q. QED BY <1>1, <2>1, PhaseFacts DEF Gone, StreamEndsGone
  <1>8. CASE Stop
    <2>1. /\ EventLoop \in Callers /\ call' = [call EXCEPT ![EventLoop].phase = "cancelled"]
          /\ UNCHANGED <<server, writer, reader>> /\ eventLoop' = "stopped"
      BY <1>8 DEF Callers, Stop, clientVars, serverVars
    <2>q. QED BY <1>1, <2>1, PhaseFacts DEF Gone, StreamEndsGone
  <1>9. CASE SendAnswer
    <2>1. /\ UNCHANGED <<server, writer, eventLoop>> /\ reader' = "reading"
          /\ call' = [c \in Callers |-> IF Hears(matched.waiter, c)
                                        THEN [call[c] EXCEPT !.answer = matched.line] ELSE call[c]]
      BY <1>9 DEF SendAnswer, loopVars, serverVars
    <2>2. matched.line.kind # "closed"
      BY <1>1 DEF TypeOK, Line
    <2>3. \A c \in Callers : call'[c].answer \in {call[c].answer, matched.line}
      BY <1>1, <2>1 DEF TypeOK
    <2>q. QED BY <2>1, <2>2, <2>3 DEF Gone, StreamEndsGone
  <1>10. CASE EndOfFile
    <2>1. server # "up" /\ UNCHANGED server
      BY <1>10 DEF EndOfFile, serverVars
    <2>q. QED BY <2>1 DEF Gone, StreamEndsGone
  <1>11. CASE Write \/ TakeLine \/ ShutdownWriter \/ BackoffOver
    <2>1. /\ UNCHANGED <<call, server>>
          /\ writer' = writer \/ server # "up"
          /\ reader' = reader \/ reader' = "matched"
          /\ eventLoop' = eventLoop \/ eventLoop' = "polling"
      BY <1>11 DEF Write, TakeLine, ShutdownWriter, BackoffOver, clientVars, loopVars, serverVars
    <2>q. QED BY <2>1 DEF Gone, StreamEndsGone
  <1>12. CASE Server
    <2>1. UNCHANGED <<call, writer, reader, eventLoop>> /\ (server # "up" => server' # "up")
      BY <1>12 DEF Server, CoreEmits, ServerDies, Shutdown, ServerAnswers, clientVars, loopVars,
                   serverVars
    <2>q. QED BY <2>1 DEF Gone, StreamEndsGone
  <1>q. QED BY <1>2, <1>3, <1>4, <1>5, <1>6, <1>7, <1>8, <1>9, <1>10, <1>11, <1>12
           DEF Next, Caller, Writer, Reader

\* The event loop ends its stream only once the server is gone: the shim, which starts
\* another server then, never has two ("Only close ends stream", spawn_event_loop).
THEOREM EndMeansGone == Spec => []StreamEndsGone
  <1>1. Init => Gone
    BY DEF Init, Gone, StreamEndsGone
  <1>2. Spec => []Inv
    BY InvInit, InvStep, PTL DEF Spec
  <1>3. Gone => StreamEndsGone
    BY DEF Gone
  <1>q. QED BY <1>1, <1>2, <1>3, GoneStep, PTL DEF Spec

Rising(s) == \A i, j \in DOMAIN s : i < j => s[i] < s[j]
Given(s)  == \A i \in DOMAIN s : s[i] \in 1 .. handed
Later(s)  == \A i \in DOMAIN s, j \in DOMAIN forwarded : forwarded[j] < s[i]

\* No event reaches the shim twice or before an older one.
EachOnceInOrder == Rising(forwarded)

\* The events of an answer are in order; those of the poll in flight come next.
Batch(l) ==
    /\ Rising(l.batch) /\ Given(l.batch)
    /\ Open(EventLoop) /\ l.request = RequestOf(EventLoop) => Later(l.batch)

Ordered ==
    /\ EachOnceInOrder /\ Given(forwarded)
    /\ \A i \in DOMAIN stdout : Batch(stdout[i])
    /\ reader = "matched" => Batch(matched.line)
    /\ call[EventLoop].answer # NoAnswer => Batch(call[EventLoop].answer)

\* Nothing forwarded and no new poll: an answer stays as good as it was.
LEMMA BatchKept ==
    ASSUME TypeOK, TypeOK', UNCHANGED forwarded, handed <= handed',
           Open(EventLoop)' => Open(EventLoop), call'[EventLoop].id = call[EventLoop].id
    PROVE  /\ \A l : Batch(l) => Batch(l)'
           /\ Given(forwarded) => Given(forwarded)'
  <1>1. 1 .. handed \subseteq 1 .. handed'
    BY DEF TypeOK
  <1>2. \A s : Given(s) => Given(s)'
    BY <1>1 DEF Given
  <1>3. RequestOf(EventLoop)' = RequestOf(EventLoop)
    BY DEF RequestOf
  <1>q. QED BY <1>2, <1>3 DEF Batch, Rising, Later, Given

\* A poll over, its batch forwarded if it has one.
LEMMA OrderReturn ==
    ASSUME Inv, Inv', Ordered, NEW c \in Callers, NEW a \in Outcome, Return(c, a), Open(c),
           c = EventLoop => a.batch = <<>> \/ (Batch(a) /\ a.request = RequestOf(c)),
           UNCHANGED <<handed, stdout, reader, matched>>
    PROVE  Ordered'
  <1>1. /\ \A d \in Callers \ {c} : call'[d] = call[d]
        /\ call'[c].id = call[c].id /\ call'[c].answer = a
        /\ call'[c].phase \in {"idle", "returned"}
    BY ReturnFacts DEF Inv
  <1>2. EventLoop \in Callers
    BY DEF Callers
  <1>3. CASE c # EventLoop
    <2>1. UNCHANGED forwarded /\ call'[EventLoop] = call[EventLoop]
      BY <1>1, <1>2, <1>3 DEF Return, loopVars
    <2>2. TypeOK /\ TypeOK'
      BY DEF Inv
    <2>3. handed <= handed'
      BY <2>2 DEF TypeOK
    <2>4. /\ \A l : Batch(l) => Batch(l)'
          /\ Given(forwarded) => Given(forwarded)'
      BY <2>1, <2>2, <2>3, BatchKept DEF Open
    <2>q. QED BY <2>1, <2>4 DEF Ordered, EachOnceInOrder
  <1>4. CASE c = EventLoop
    <2>1. ~Open(EventLoop)'
      BY <1>1, <1>4 DEF Open
    <2>2. a.batch \in Seq(Nat) /\ forwarded \in Seq(Nat)
      BY DEF Inv, TypeOK, Outcome
    <2>3. Rising(a.batch) /\ Given(a.batch) /\ Later(a.batch)
      <3>1. CASE a.batch = <<>>
        BY <3>1 DEF Rising, Given, Later
      <3>2. CASE Batch(a) /\ a.request = RequestOf(c)
        BY <1>4, <3>2 DEF Batch
      <3>q. QED BY <1>4, <3>1, <3>2
    <2>4. Rising(forwarded \o a.batch) /\ Given(forwarded \o a.batch)
      <3>1. Rising(forwarded) /\ Given(forwarded)
        BY DEF Ordered, EachOnceInOrder
      <3>2. \A i \in DOMAIN (forwarded \o a.batch) :
               \/ i \in DOMAIN forwarded /\ (forwarded \o a.batch)[i] = forwarded[i]
               \/ /\ i - Len(forwarded) \in DOMAIN a.batch /\ i > Len(forwarded)
                  /\ (forwarded \o a.batch)[i] = a.batch[i - Len(forwarded)]
        BY <2>2
      <3>3. DOMAIN (forwarded \o a.batch) \subseteq Int /\ \A i \in DOMAIN forwarded : i <= Len(forwarded)
        BY <2>2
      <3>4. Given(forwarded \o a.batch)
        BY <2>3, <3>1, <3>2 DEF Given
      <3>5. Rising(forwarded \o a.batch)
        <4>1. SUFFICES ASSUME NEW i \in DOMAIN (forwarded \o a.batch),
                              NEW j \in DOMAIN (forwarded \o a.batch), i < j
                       PROVE  (forwarded \o a.batch)[i] < (forwarded \o a.batch)[j]
          BY DEF Rising
        <4>2. i \in Int /\ j \in Int /\ Len(forwarded) \in Int
          BY <2>2, <3>3
        <4>3. CASE j \in DOMAIN forwarded /\ (forwarded \o a.batch)[j] = forwarded[j]
          <5>1. i \in DOMAIN forwarded /\ (forwarded \o a.batch)[i] = forwarded[i]
            BY <3>2, <3>3, <4>1, <4>2, <4>3
          <5>q. QED BY <3>1, <4>1, <4>3, <5>1 DEF Rising
        <4>4. CASE j - Len(forwarded) \in DOMAIN a.batch /\ (forwarded \o a.batch)[j] = a.batch[j - Len(forwarded)]
          <5>1. CASE i \in DOMAIN forwarded /\ (forwarded \o a.batch)[i] = forwarded[i]
            BY <2>3, <4>4, <5>1 DEF Later
          <5>2. CASE i - Len(forwarded) \in DOMAIN a.batch /\ (forwarded \o a.batch)[i] = a.batch[i - Len(forwarded)]
            <6>1. i - Len(forwarded) < j - Len(forwarded)
              BY <4>1, <4>2
            <6>q. QED BY <2>3, <4>4, <5>2, <6>1 DEF Rising
          <5>q. QED BY <3>2, <5>1, <5>2
        <4>q. QED BY <3>2, <4>3, <4>4
      <3>q. QED BY <3>4, <3>5
    <2>5. forwarded' \in {forwarded, forwarded \o a.batch}
      BY <1>4 DEF Return, LoopTakes
    <2>6. EachOnceInOrder' /\ Given(forwarded)'
      BY <2>4, <2>5 DEF Ordered, EachOnceInOrder, Given, Rising
    <2>7. \A l : Batch(l) => Batch(l)'
      BY <2>1 DEF Batch, Given, Rising
    <2>8. Batch(a)'
      BY <2>1, <2>3 DEF Batch, Given, Rising
    <2>q. QED BY <1>1, <1>4, <2>6, <2>7, <2>8 DEF Ordered
  <1>q. QED BY <1>3, <1>4

LEMMA OrderStep == Inv /\ Inv' /\ Ordered /\ [Next]_vars => Ordered'
  <1> SUFFICES ASSUME Inv, Inv', Ordered, [Next]_vars PROVE Ordered'
    OBVIOUS
  <1>1. TypeOK /\ TypeOK' /\ EventLoop \in Callers
    BY DEF Inv, Callers
  <1>2. ASSUME UNCHANGED <<forwarded, handed, stdout, reader, matched>>,
               call'[EventLoop].answer \in {NoAnswer, call[EventLoop].answer},
               Open(EventLoop)' => Open(EventLoop), call'[EventLoop].id = call[EventLoop].id
        PROVE  Ordered'
    <2>1. handed <= handed'
      BY <1>1, <1>2 DEF TypeOK
    <2>2. /\ \A l : Batch(l) => Batch(l)'
          /\ Given(forwarded) => Given(forwarded)'
      BY <1>1, <1>2, <2>1, BatchKept
    <2>q. QED BY <1>2, <2>2 DEF Ordered, EachOnceInOrder
  <1>3. CASE UNCHANGED vars
    BY <1>2, <1>3 DEF Open, vars, clientVars, loopVars, serverVars, eventVars
  <1>4. ASSUME NEW c \in Callers, Register(c) PROVE Ordered'
    <2>1. /\ call' = [call EXCEPT ![c] = [phase |-> "registered", id |-> nextId,
                                          answer |-> NoAnswer]]
          /\ UNCHANGED <<forwarded, handed, stdout, reader, matched>>
      BY <1>4 DEF Register, loopVars, serverVars, eventVars
    <2>2. CASE c # EventLoop
      BY <1>1, <1>2, <2>1, <2>2 DEF Open, TypeOK
    <2>3. CASE c = EventLoop
      <3>1. call'[EventLoop].id = nextId /\ call'[EventLoop].answer = NoAnswer
        BY <1>1, <2>1, <2>3 DEF TypeOK
      <3>2. \A l : Batch(l) /\ Known(l.request) => Batch(l)'
        BY <1>1, <2>1, <3>1 DEF Batch, Known, RequestOf, Given, Rising, TypeOK
      <3>3. Given(forwarded)' /\ EachOnceInOrder'
        BY <2>1 DEF Ordered, Given, EachOnceInOrder
      <3>q. QED BY <2>1, <3>1, <3>2, <3>3 DEF Ordered, Inv, Ids, RequestsKnown
    <2>q. QED BY <2>2, <2>3
  <1>5. ASSUME NEW c \in Callers, Queue(c) PROVE Ordered'
    <2>1. CASE writer = "ended"
      <3>1. /\ Return(c, Closed(c)) /\ Open(c)
            /\ UNCHANGED <<handed, stdout, reader, matched>>
        BY <1>5, <2>1 DEF Queue, Open, serverVars, eventVars
      <3>2. Closed(c).batch = <<>> /\ Closed(c) \in Outcome
        BY <1>1, OwnOutcome DEF Closed, Answer
      <3>q. QED BY <3>1, <3>2, OrderReturn
    <2>2. CASE writer # "ended"
      <3>1. /\ call' = [call EXCEPT ![c].phase = "waiting"] /\ Open(c)
            /\ UNCHANGED <<forwarded, handed, stdout, reader, matched>>
        BY <1>5, <2>2 DEF Queue, Open, loopVars, serverVars, eventVars
      <3>2. /\ \A d \in Callers \ {c} : call'[d] = call[d]
            /\ call'[c].id = call[c].id /\ call'[c].answer = call[c].answer
        BY <1>1, <3>1, PhaseFacts
      <3>q. QED BY <1>1, <1>2, <3>1, <3>2 DEF Open
    <2>q. QED BY <2>1, <2>2
  <1>6. ASSUME NEW c \in Callers, Answered(c) PROVE Ordered'
    <2>1. /\ Return(c, call[c].answer) /\ Open(c) /\ call[c].answer # NoAnswer
          /\ UNCHANGED <<handed, stdout, reader, matched>>
      BY <1>6 DEF Answered, Open, clientVars, serverVars, eventVars
    <2>2. call[c].answer \in Outcome /\ call[c].answer.request = RequestOf(c)
      BY <1>1, <2>1 DEF TypeOK, Inv, Waiters, OwnAnswer
    <2>q. QED BY <2>1, <2>2, OrderReturn DEF Ordered
  <1>7. ASSUME NEW c \in Calls, TimesOut(c) PROVE Ordered'
    <2>1. /\ Return(c, Timeout(c)) /\ Open(c) /\ c \in Callers
          /\ UNCHANGED <<handed, stdout, reader, matched>>
      BY <1>7 DEF TimesOut, Open, Callers, serverVars, eventVars
    <2>2. Timeout(c) \in Outcome /\ c # EventLoop
      BY <1>1, <2>1, OwnOutcome, RpcClientAssumption
    <2>q. QED BY <2>1, <2>2, OrderReturn
  <1>8. ASSUME NEW c \in Callers, call' = [call EXCEPT ![c].phase = "cancelled"],
               UNCHANGED <<forwarded, handed, stdout, reader, matched>>
        PROVE  Ordered'
    BY <1>1, <1>2, <1>8, PhaseFacts DEF Open
  <1>9. ASSUME NEW c \in Calls, Cancel(c) PROVE Ordered'
    BY <1>8, <1>9 DEF Cancel, Callers, clientVars, loopVars, serverVars, eventVars
  <1>10. CASE Stop
    BY <1>1, <1>8, <1>10 DEF Stop, clientVars, serverVars, eventVars
  <1>11. CASE TakeLine
    <2>1. /\ stdout # <<>> /\ stdout' = Tail(stdout)
          /\ UNCHANGED <<forwarded, handed, call>>
          /\ \/ UNCHANGED <<reader, matched>>
             \/ matched'.line = Head(stdout)
      BY <1>11 DEF TakeLine, loopVars, eventVars
    <2>2. \A l : Batch(l) => Batch(l)'
      BY <2>1 DEF Batch, Given, Rising, Later, Open, RequestOf
    <2>3. /\ Head(stdout) = stdout[1] /\ 1 \in DOMAIN stdout
          /\ \A i \in DOMAIN Tail(stdout) : Tail(stdout)[i] = stdout[i + 1] /\ i + 1 \in DOMAIN stdout
      BY <1>1, <2>1 DEF TypeOK
    <2>4. (\A i \in DOMAIN stdout : Batch(stdout[i]))'
      BY <2>1, <2>2, <2>3 DEF Ordered
    <2>5. (reader = "matched" => Batch(matched.line))'
      BY <2>1, <2>2, <2>3 DEF Ordered
    <2>q. QED BY <2>1, <2>2, <2>4, <2>5 DEF Ordered, EachOnceInOrder, Given
  <1>12. CASE SendAnswer
    <2>1. /\ reader = "matched" /\ reader' = "reading"
          /\ UNCHANGED <<forwarded, handed, stdout>>
          /\ call' = [c \in Callers |-> IF Hears(matched.waiter, c)
                                        THEN [call[c] EXCEPT !.answer = matched.line] ELSE call[c]]
      BY <1>12 DEF SendAnswer, loopVars, serverVars, eventVars
    <2>2. /\ call'[EventLoop].answer \in {call[EventLoop].answer, matched.line}
          /\ call'[EventLoop].id = call[EventLoop].id
          /\ call'[EventLoop].phase = call[EventLoop].phase
      BY <1>1, <2>1 DEF TypeOK
    <2>3. \A l : Batch(l) => Batch(l)'
      BY <2>1, <2>2 DEF Batch, Given, Rising, Later, Open, RequestOf
    <2>q. QED BY <2>1, <2>2, <2>3 DEF Ordered, EachOnceInOrder, Given
  <1>13. CASE EndOfFile
    <2>1. /\ reader' = "ended"
          /\ UNCHANGED <<forwarded, handed, stdout>>
          /\ call' = [c \in Callers |-> IF Hears(pending, c)
                                        THEN [call[c] EXCEPT !.answer = Closed(c)] ELSE call[c]]
      BY <1>13 DEF EndOfFile, loopVars, serverVars, eventVars
    <2>2. /\ call'[EventLoop].answer \in {call[EventLoop].answer, Closed(EventLoop)}
          /\ call'[EventLoop].id = call[EventLoop].id
          /\ call'[EventLoop].phase = call[EventLoop].phase
      BY <1>1, <2>1 DEF TypeOK
    <2>3. \A l : Batch(l) => Batch(l)'
      BY <2>1, <2>2 DEF Batch, Given, Rising, Later, Open, RequestOf
    <2>4. Batch(Closed(EventLoop))
      BY DEF Batch, Closed, Answer, Given, Rising, Later
    <2>q. QED BY <2>1, <2>2, <2>3, <2>4 DEF Ordered, EachOnceInOrder, Given
  <1>14. CASE Write \/ ShutdownWriter \/ BackoffOver \/ CoreEmits \/ ServerDies \/ Shutdown
    BY <1>2, <1>14 DEF Write, ShutdownWriter, BackoffOver, CoreEmits, ServerDies, Shutdown, Open,
                       clientVars, loopVars, serverVars, eventVars
  <1>15. ASSUME NEW r \in serving, NEW kind \in {"result", "error", "misfit", "garbage"},
                ServerAnswers(r, kind)
         PROVE  Ordered'
    <2>1. PICK batch :
            /\ batch = IF r.caller = EventLoop /\ kind # "error"
                       THEN [i \in 1 .. (emitted - handed) |-> handed + i] ELSE <<>>
            /\ handed' = handed + Len(batch)
            /\ stdout' = Append(stdout, Answer(r, kind, batch))
      BY <1>15 DEF ServerAnswers
    <2>2. UNCHANGED <<forwarded, call, reader, matched>>
      BY <1>15 DEF ServerAnswers, clientVars, loopVars
    <2>3. /\ batch \in Seq(Nat) /\ handed' >= handed /\ handed' \in Nat /\ handed \in Nat
          /\ \A i \in DOMAIN batch : batch[i] = handed + i /\ i \in 1 .. Len(batch)
      BY <1>1, <2>1 DEF TypeOK
    <2>4. /\ \A l : Batch(l) => Batch(l)'
          /\ Given(forwarded) => Given(forwarded)'
      BY <1>1, <2>2, <2>3, BatchKept DEF Open
    <2>5. Rising(batch) /\ Given(batch)' /\ Later(batch)
      <3>1. Rising(batch)
        BY <2>3 DEF Rising
      <3>2. Given(batch)'
        <4>1. SUFFICES ASSUME NEW i \in DOMAIN batch PROVE batch[i] \in 1 .. handed'
          BY DEF Given
        <4>2. batch[i] = handed + i /\ i \in 1 .. Len(batch) /\ Len(batch) \in Nat
          BY <2>3
        <4>3. handed' = handed + Len(batch) /\ handed \in Nat
          BY <2>1, <2>3
        <4>4. handed + i \in 1 .. (handed + Len(batch))
          BY <4>2, <4>3
        <4>q. QED BY <4>2, <4>3, <4>4
      <3>3. \A j \in DOMAIN forwarded : forwarded[j] \in 1 .. handed
        BY DEF Ordered, Given
      <3>4. Later(batch)
        BY <2>3, <3>3 DEF Later
      <3>q. QED BY <3>1, <3>2, <3>4
    <2>6. \A l : l = Answer(r, kind, batch) => Batch(l)'
      BY <2>2, <2>5 DEF Batch, Answer, Given, Later
    <2>7. stdout \in Seq(Line)
      BY <1>1 DEF TypeOK
    <2>8. (\A i \in DOMAIN stdout : Batch(stdout[i]))'
      BY <2>1, <2>4, <2>6, <2>7 DEF Ordered
    <2>q. QED BY <2>2, <2>4, <2>8 DEF Ordered, EachOnceInOrder
  <1>q. QED BY <1>3, <1>4, <1>5, <1>6, <1>7, <1>9, <1>10, <1>11, <1>12, <1>13, <1>14, <1>15
           DEF Next, Caller, Writer, Reader, Server

\* Whatever polls are refused, misread, dropped or answered late, the events handed to the
\* shim rise: none comes twice or before an older one (spawn_event_loop).
THEOREM EventsRise == Spec => []EachOnceInOrder
  <1>1. Init => Ordered
    BY DEF Init, Ordered, EachOnceInOrder, Rising, Given, Callers
  <1>2. Spec => []Inv
    BY InvInit, InvStep, PTL DEF Spec
  <1>3. Ordered => EachOnceInOrder
    BY DEF Ordered
  <1>q. QED BY <1>1, <1>2, <1>3, OrderStep, PTL DEF Spec

-----------------------------------------------------------------------------
(* That the client implements EventStream *)

Streaming == eventLoop \in {"polling", "backoff"}

\* An answer the event loop can take: to one of its polls, and read as an answer.
ToLoop(l) == l.request.caller = EventLoop /\ l.kind \notin {"garbage", "closed"}

\* The poll under way.
Poll(r) == call[EventLoop].phase = "waiting" /\ r = RequestOf(EventLoop)

Asked   == \E i \in DOMAIN requests : requests[i].caller = EventLoop
Served  == \E r \in serving : r.caller = EventLoop
Written == \E i \in DOMAIN stdout : ToLoop(stdout[i])
InHand  == reader = "matched" /\ ToLoop(matched.line)
Got     == Open(EventLoop) /\ call[EventLoop].answer # NoAnswer /\ ToLoop(call[EventLoop].answer)

\* What is under way for the loop is of its poll under way,
OfPoll ==
    /\ \A i \in DOMAIN requests : requests[i].caller = EventLoop => Poll(requests[i])
    /\ \A r \in serving : r.caller = EventLoop => Poll(r)
    /\ \A i \in DOMAIN stdout : ToLoop(stdout[i]) => Poll(stdout[i].request)
    /\ InHand => Poll(matched.line.request)
    /\ Got => call[EventLoop].phase = "waiting"

\* and in one place only.
Once ==
    /\ \A i, j \in DOMAIN requests :
          requests[i].caller = EventLoop /\ requests[j].caller = EventLoop => i = j
    /\ \A i, j \in DOMAIN stdout : ToLoop(stdout[i]) /\ ToLoop(stdout[j]) => i = j
    /\ Asked   => ~Served /\ ~Written /\ ~InHand /\ ~Got
    /\ Served  => ~Written /\ ~InHand /\ ~Got
    /\ Written => ~InHand /\ ~Got
    /\ InHand  => ~Got

OnePoll == Streaming => OfPoll /\ Once

\* Event e is in an answer the loop is going to take.
Brought(l, e) == ToLoop(l) /\ l.kind = "result" /\ \E k \in DOMAIN l.batch : l.batch[k] = e
Coming(e) == \/ \E i \in DOMAIN stdout : Brought(stdout[i], e)
             \/ reader = "matched" /\ Brought(matched.line, e)
             \/ Got /\ Brought(call[EventLoop].answer, e)
Passed(e) == \E j \in DOMAIN forwarded : forwarded[j] = e

\* No event is lost: what the core has given is forwarded, spoiled, or to come.
Covered == Streaming => \A e \in 1 .. handed : e \in spoiled \/ Passed(e) \/ Coming(e)

\* What is spoiled is in no batch.
Good(l) == l.kind = "result" => \A k \in DOMAIN l.batch : l.batch[k] \notin spoiled
Unspoiled ==
    /\ \A j \in DOMAIN forwarded : forwarded[j] \notin spoiled
    /\ \A i \in DOMAIN stdout : Good(stdout[i])
    /\ reader = "matched" => Good(matched.line)
    /\ call[EventLoop].answer # NoAnswer => Good(call[EventLoop].answer)

\* A poll is of a loop that polls; one that is answered otherwise was woken by the end.
Polling == Open(EventLoop) =>
    /\ eventLoop = "polling"
    /\ call[EventLoop].answer # NoAnswer => Got \/ reader = "ended"

StreamInv == Polling /\ OnePoll /\ Covered /\ Unspoiled

LEMMA LoopFacts ==
    ASSUME Inv
    PROVE  /\ TypeOK /\ EventLoop \in Callers /\ EventLoop \notin Calls
           /\ call[EventLoop].answer # NoAnswer =>
                 /\ call[EventLoop].answer.request = RequestOf(EventLoop)
                 /\ call[EventLoop].answer.request.caller = EventLoop
                 /\ call[EventLoop].answer \in Outcome
                 /\ call[EventLoop].answer.kind # "garbage"
  <1>1. TypeOK /\ OwnAnswer /\ EventLoop \in Callers /\ EventLoop \notin Calls
    BY RpcClientAssumption DEF Inv, Waiters, Callers
  <1>2. ASSUME call[EventLoop].answer # NoAnswer
        PROVE  /\ call[EventLoop].answer.request = RequestOf(EventLoop)
               /\ call[EventLoop].answer \in Outcome
    BY <1>1, <1>2 DEF OwnAnswer, TypeOK
  <1>q. QED BY <1>1, <1>2 DEF RequestOf, Outcome

\* Nothing of the loop's moves.
LEMMA LoopSame ==
    ASSUME StreamInv, call'[EventLoop] = call[EventLoop], Streaming' => Streaming,
           eventLoop' = eventLoop \/ ~Open(EventLoop),
           UNCHANGED <<requests, serving, stdout, reader, matched, forwarded, handed, spoiled>>
    PROVE  StreamInv'
  <1>1. Got' <=> Got
    BY DEF Got, Open, ToLoop
  <1>2. Polling'
    BY <1>1 DEF StreamInv, Polling, Open
  <1>3. /\ Asked' <=> Asked
        /\ Served' <=> Served
        /\ Written' <=> Written
        /\ InHand' <=> InHand
    BY DEF Asked, Served, Written, InHand, ToLoop
  <1>4. \A r : Poll(r)' <=> Poll(r)
    BY DEF Poll, RequestOf
  <1>5. OfPoll => OfPoll'
    BY <1>1, <1>3, <1>4 DEF OfPoll, ToLoop
  <1>6. Once => Once'
    BY <1>1, <1>3 DEF Once, ToLoop
  <1>7. OnePoll'
    BY <1>5, <1>6 DEF StreamInv, OnePoll
  <1>8. \A e : (Coming(e)' <=> Coming(e)) /\ (Passed(e)' <=> Passed(e))
    BY <1>1 DEF Coming, Passed, Brought, ToLoop
  <1>9. Covered'
    BY <1>8 DEF StreamInv, Covered
  <1>10. Unspoiled'
    BY DEF StreamInv, Unspoiled, Good
  <1>q. QED BY <1>2, <1>7, <1>9, <1>10 DEF StreamInv

\* A call that is not the loop's returns, waits or goes.
LEMMA OtherSame ==
    ASSUME Inv, StreamInv, NEW c \in Callers \ {EventLoop}, call' = [call EXCEPT ![c] = call'[c]],
           UNCHANGED <<requests, serving, stdout, reader, matched, loopVars, handed, spoiled>>
    PROVE  StreamInv'
  <1>1. call'[EventLoop] = call[EventLoop]
    BY LoopFacts DEF TypeOK
  <1>q. QED BY <1>1, LoopSame DEF loopVars, Streaming

\* What is not under way for the loop leaves it nothing to wait for.
LEMMA NoneOfPoll ==
    ASSUME Streaming, OnePoll, call[EventLoop].phase # "waiting"
    PROVE  /\ ~Asked /\ ~Served /\ ~Written /\ ~InHand /\ ~Got
           /\ \A e : ~Coming(e)
  <1>1. ~Asked /\ ~Served /\ ~Written /\ ~InHand /\ ~Got
    BY DEF OnePoll, OfPoll, Poll, Asked, Served, Written, InHand
  <1>q. QED BY <1>1 DEF Coming, Brought, Written, InHand

LEMMA RegisterStream ==
    ASSUME Inv, StreamInv, NEW c \in Callers, Register(c)
    PROVE  StreamInv'
  <1>1. /\ call' = [call EXCEPT ![c] = [phase |-> "registered", id |-> nextId, answer |-> NoAnswer]]
        /\ UNCHANGED <<requests, serving, stdout, reader, matched, loopVars, handed, spoiled>>
        /\ call[c].phase = "idle"
        /\ c = EventLoop => eventLoop = "polling"
    BY DEF Register, serverVars, eventVars
  <1>2. call'[c] = [phase |-> "registered", id |-> nextId, answer |-> NoAnswer]
    BY <1>1, LoopFacts DEF TypeOK
  <1>3. CASE c # EventLoop
    BY <1>1, <1>2, <1>3, OtherSame
  <1>4. CASE c = EventLoop
    <2>1. Streaming /\ ~Asked /\ ~Served /\ ~Written /\ ~InHand /\ (\A e : ~Coming(e))
      BY <1>1, <1>4, NoneOfPoll DEF Streaming, StreamInv
    <2>2. ~Asked' /\ ~Served' /\ ~Written' /\ ~InHand' /\ ~Got'
      BY <1>1, <1>2, <1>4, <2>1 DEF Asked, Served, Written, InHand, Got, ToLoop
    <2>3. OnePoll'
      BY <2>2 DEF OnePoll, OfPoll, Once, Asked, Served, Written, InHand
    <2>4. Polling'
      BY <1>1, <1>2, <1>4 DEF Polling, loopVars
    <2>5. Covered'
      BY <1>1, <2>1 DEF StreamInv, Covered, Passed, loopVars
    <2>6. Unspoiled'
      BY <1>1, <1>2, <1>4 DEF StreamInv, Unspoiled, Good, loopVars
    <2>q. QED BY <2>3, <2>4, <2>5, <2>6 DEF StreamInv
  <1>q. QED BY <1>3, <1>4

\* The loop has come to the end of its stream, or of its life.
LEMMA EndedStream ==
    ASSUME Inv, StreamInv, ~Streaming', ~Open(EventLoop)',
           call'[EventLoop].answer # NoAnswer =>
              \/ call'[EventLoop].answer = call[EventLoop].answer
              \/ call'[EventLoop].answer.kind # "result",
           UNCHANGED <<stdout, reader, matched, forwarded, handed, spoiled>>
    PROVE  StreamInv'
  <1>1. Polling' /\ OnePoll' /\ Covered'
    BY DEF Polling, OnePoll, Covered
  <1>2. Unspoiled'
    BY DEF StreamInv, Unspoiled, Good
  <1>q. QED BY <1>1, <1>2 DEF StreamInv

LEMMA QueueStream ==
    ASSUME Inv, StreamInv, NEW c \in Callers, Queue(c)
    PROVE  StreamInv'
  <1>1. /\ call[c].phase = "registered"
        /\ UNCHANGED <<serving, stdout, reader, matched, handed, spoiled>>
    BY DEF Queue, serverVars, eventVars
  <1>2. CASE writer = "ended"
    <2>1. Return(c, Closed(c)) /\ requests' = requests
      BY <1>2 DEF Queue
    <2>2. CASE c # EventLoop
      <3>1. loopVars' = loopVars /\ call' = [call EXCEPT ![c].phase = "returned", ![c].answer = Closed(c)]
        BY <2>1, <2>2 DEF Return
      <3>2. call' = [call EXCEPT ![c] = call'[c]]
        BY <3>1 DEF Inv, TypeOK
      <3>q. QED BY <1>1, <2>1, <2>2, <3>1, <3>2, OtherSame
    <2>3. CASE c = EventLoop
      <3>1. LoopTakes(Closed(c))
        BY <2>1, <2>3 DEF Return
      <3>2. eventLoop' = "ended" /\ forwarded' = forwarded /\ Closed(c).kind = "closed"
        BY <3>1 DEF LoopTakes, Closed, Answer
      <3>3. call'[c].answer = Closed(c) /\ call'[c].phase \in {"idle", "returned"}
        BY <2>1, ReturnFacts, LoopFacts
      <3>q. QED BY <1>1, <2>3, <3>2, <3>3, EndedStream DEF Streaming, Open
    <2>q. QED BY <2>2, <2>3
  <1>3. CASE writer # "ended"
    <2>1. /\ requests' = Append(requests, RequestOf(c))
          /\ call' = [call EXCEPT ![c].phase = "waiting"]
          /\ UNCHANGED loopVars
      BY <1>3 DEF Queue
    <2>2. /\ \A d \in Callers \ {c} : call'[d] = call[d]
          /\ call'[c].id = call[c].id /\ call'[c].answer = call[c].answer
          /\ call'[c].phase = "waiting"
      BY <2>1, LoopFacts, PhaseFacts
    <2>3. /\ requests \in Seq(Request) /\ RequestOf(c) = [id |-> call[c].id, caller |-> c]
          /\ EventLoop \in Callers
      BY LoopFacts DEF TypeOK, RequestOf
    <2>4. \A i \in DOMAIN requests' :
             \/ i \in DOMAIN requests /\ requests'[i] = requests[i]
             \/ i = Len(requests) + 1 /\ requests'[i] = RequestOf(c)
      BY <2>1, <2>3
    <2>5. Open(EventLoop)' <=> Open(EventLoop)
      BY <1>1, <2>2, <2>3 DEF Open
    <2>6. call'[EventLoop].answer = call[EventLoop].answer /\ RequestOf(EventLoop)' = RequestOf(EventLoop)
      BY <2>2, <2>3 DEF RequestOf
    <2>7. Got' <=> Got
      BY <2>5, <2>6 DEF Got, ToLoop
    <2>8. Polling'
      BY <1>1, <2>1, <2>5, <2>6, <2>7 DEF StreamInv, Polling, loopVars
    <2>9. \A e : (Coming(e)' <=> Coming(e)) /\ (Passed(e)' <=> Passed(e))
      BY <1>1, <2>1, <2>6, <2>7 DEF Coming, Passed, Brought, ToLoop, loopVars
    <2>10. Covered'
      BY <1>1, <2>1, <2>9 DEF StreamInv, Covered, Streaming, loopVars
    <2>11. Unspoiled'
      BY <1>1, <2>1, <2>6 DEF StreamInv, Unspoiled, Good, loopVars
    <2>12. /\ Served' <=> Served
           /\ Written' <=> Written
           /\ InHand' <=> InHand
      BY <1>1 DEF Served, Written, InHand, ToLoop
    <2>13. ASSUME Streaming' PROVE OfPoll' /\ Once'
      <3>1. OfPoll /\ Once
        BY <2>1, <2>13 DEF StreamInv, OnePoll, Streaming, loopVars
      <3>2. CASE c # EventLoop
        <4>1. \A r : Poll(r)' <=> Poll(r)
          BY <2>2, <2>3, <3>2 DEF Poll, RequestOf
        <4>2. \A i \in DOMAIN requests' : requests'[i].caller = EventLoop =>
                 i \in DOMAIN requests /\ requests'[i] = requests[i]
          BY <2>3, <2>4, <3>2
        <4>3. Asked' => Asked
          BY <4>2 DEF Asked
        <4>4. OfPoll'
          BY <1>1, <2>2, <2>3, <2>7, <2>12, <3>1, <3>2, <4>1, <4>2 DEF OfPoll, ToLoop
        <4>5. Once'
          BY <1>1, <2>7, <2>12, <3>1, <4>2, <4>3 DEF Once, ToLoop
        <4>q. QED BY <4>4, <4>5
      <3>3. CASE c = EventLoop
        <4>1. ~Asked /\ ~Served /\ ~Written /\ ~InHand /\ ~Got
          BY <1>1, <2>1, <2>13, <3>3, NoneOfPoll DEF StreamInv, Streaming, loopVars
        <4>2. ~Served' /\ ~Written' /\ ~InHand' /\ ~Got'
          BY <2>7, <2>12, <4>1
        <4>3. \A i \in DOMAIN requests' : requests'[i].caller = EventLoop =>
                 i = Len(requests) + 1 /\ requests'[i] = RequestOf(EventLoop)
          BY <2>4, <3>3, <4>1 DEF Asked
        <4>4. OfPoll'
          BY <2>2, <2>6, <3>3, <4>2, <4>3 DEF OfPoll, Poll, Served, Written, InHand
        <4>5. Once'
          BY <4>2, <4>3 DEF Once, Written
        <4>q. QED BY <4>4, <4>5
      <3>q. QED BY <3>2, <3>3
    <2>q. QED BY <2>8, <2>10, <2>11, <2>13 DEF StreamInv, OnePoll
  <1>q. QED BY <1>2, <1>3

\* What a call of the loop leaves of its answer is at most what was there.
LEMMA ReturnSame ==
    ASSUME Inv, StreamInv, NEW c \in Callers \ {EventLoop}, NEW a, Return(c, a),
           UNCHANGED <<requests, serving, stdout, reader, matched, handed, spoiled>>
    PROVE  StreamInv'
  <1>1. loopVars' = loopVars /\ call' = [call EXCEPT ![c].phase = "returned", ![c].answer = a]
    BY DEF Return
  <1>2. call' = [call EXCEPT ![c] = call'[c]]
    BY <1>1 DEF Inv, TypeOK
  <1>q. QED BY <1>1, <1>2, OtherSame

\* A batch taken: its events are forwarded, and it was all there was to come.
LEMMA PollAnswered ==
    ASSUME Inv, StreamInv, Ordered, Answered(EventLoop)
    PROVE  StreamInv'
  <1>1. PICK a : a = call[EventLoop].answer
    OBVIOUS
  <1>2. /\ call[EventLoop].phase = "waiting" /\ a # NoAnswer /\ LoopTakes(a)
        /\ Return(EventLoop, a)
        /\ UNCHANGED <<requests, serving, stdout, reader, matched, handed, spoiled>>
    BY <1>1 DEF Answered, Return, clientVars, serverVars, eventVars
  <1>3. /\ a.request.caller = EventLoop /\ a \in Outcome /\ a.kind # "garbage"
        /\ a.batch \in Seq(Nat) /\ forwarded \in Seq(Nat)
    BY <1>1, <1>2, LoopFacts DEF Outcome, TypeOK
  <1>4. call'[EventLoop].answer = a /\ ~Open(EventLoop)'
    BY <1>2, ReturnFacts, LoopFacts DEF Open
  <1>5. Open(EventLoop) /\ eventLoop = "polling" /\ Streaming
    BY <1>2 DEF StreamInv, Polling, Open, Streaming
  <1>6. CASE a.kind = "closed"
    <2>1. eventLoop' = "ended" /\ forwarded' = forwarded
      BY <1>2, <1>6 DEF LoopTakes
    <2>q. QED BY <1>1, <1>2, <1>4, <2>1, EndedStream DEF Streaming
  <1>7. CASE a.kind # "closed"
    <2>1. Got
      BY <1>1, <1>2, <1>3, <1>5, <1>7 DEF Got, ToLoop
    <2>2. ~Asked /\ ~Served /\ ~Written /\ ~InHand
      BY <1>5, <2>1 DEF StreamInv, OnePoll, Once
    <2>3. ~Asked' /\ ~Served' /\ ~Written' /\ ~InHand' /\ ~Got'
      BY <1>2, <1>4, <2>2 DEF Asked, Served, Written, InHand, Got, ToLoop
    <2>4. OnePoll' /\ Polling'
      BY <1>4, <2>3 DEF OnePoll, OfPoll, Once, Asked, Served, Written, InHand, Polling
    <2>5. \A e : Coming(e) => Brought(a, e)
      BY <1>1, <2>2 DEF Coming, Brought, Written, InHand
    <2>6. \/ a.kind = "result" /\ forwarded' = forwarded \o a.batch
          \/ a.kind # "result" /\ forwarded' = forwarded
      BY <1>2, <1>7 DEF LoopTakes
    <2>7. ASSUME NEW e, Passed(e) \/ Coming(e) PROVE Passed(e)'
      <3>1. CASE a.kind # "result"
        BY <2>5, <2>6, <2>7, <3>1 DEF Passed, Brought
      <3>2. CASE a.kind = "result" /\ Passed(e)
        <4>1. PICK j \in DOMAIN forwarded : forwarded[j] = e
          BY <3>2 DEF Passed
        <4>2. j \in DOMAIN (forwarded \o a.batch) /\ (forwarded \o a.batch)[j] = e
          BY <1>3, <4>1
        <4>q. QED BY <2>6, <3>2, <4>2 DEF Passed
      <3>3. CASE a.kind = "result" /\ Coming(e)
        <4>1. PICK k \in DOMAIN a.batch : a.batch[k] = e
          BY <2>5, <3>3 DEF Brought
        <4>2. k \in 1 .. Len(a.batch) /\ Len(forwarded) \in Nat /\ Len(a.batch) \in Nat
          BY <1>3, <4>1
        <4>3. /\ Len(forwarded) + k \in DOMAIN (forwarded \o a.batch)
              /\ (forwarded \o a.batch)[Len(forwarded) + k] = a.batch[k]
          BY <1>3, <4>2
        <4>q. QED BY <2>6, <3>3, <4>1, <4>3 DEF Passed
      <3>q. QED BY <2>7, <3>1, <3>2, <3>3
    <2>8. Covered'
      BY <1>2, <1>5, <2>7 DEF StreamInv, Covered
    <2>9. \A j \in DOMAIN forwarded' : forwarded'[j] \notin spoiled
      <3>1. (\A j \in DOMAIN forwarded : forwarded[j] \notin spoiled) /\ Good(a)
        BY <1>1, <1>2 DEF StreamInv, Unspoiled
      <3>2. CASE forwarded' = forwarded
        BY <3>1, <3>2
      <3>3. CASE a.kind = "result" /\ forwarded' = forwarded \o a.batch
        <4>1. \A j \in DOMAIN (forwarded \o a.batch) :
                 \/ j \in DOMAIN forwarded /\ (forwarded \o a.batch)[j] = forwarded[j]
                 \/ /\ j - Len(forwarded) \in DOMAIN a.batch
                    /\ (forwarded \o a.batch)[j] = a.batch[j - Len(forwarded)]
          BY <1>3
        <4>q. QED BY <3>1, <3>3, <4>1 DEF Good
      <3>q. QED BY <2>6, <3>2, <3>3
    <2>10. Unspoiled'
      BY <1>1, <1>2, <1>4, <2>9 DEF StreamInv, Unspoiled, Good
    <2>q. QED BY <2>4, <2>8, <2>10 DEF StreamInv
  <1>q. QED BY <1>6, <1>7

LEMMA AnsweredStream ==
    ASSUME Inv, StreamInv, Ordered, NEW c \in Callers, Answered(c)
    PROVE  StreamInv'
  <1>1. CASE c = EventLoop
    BY <1>1, PollAnswered
  <1>2. CASE c # EventLoop
    <2>1. /\ Return(c, call[c].answer)
          /\ UNCHANGED <<requests, serving, stdout, reader, matched, handed, spoiled>>
      BY DEF Answered, clientVars, serverVars, eventVars
    <2>q. QED BY <1>2, <2>1, ReturnSame
  <1>q. QED BY <1>1, <1>2

LEMMA LeaveStream ==
    ASSUME Inv, StreamInv, NEW c \in Calls, TimesOut(c) \/ Cancel(c)
    PROVE  StreamInv'
  <1>1. c \in Callers \ {EventLoop}
    BY LoopFacts DEF Callers
  <1>2. CASE TimesOut(c)
    BY <1>1, <1>2, ReturnSame DEF TimesOut, serverVars, eventVars
  <1>3. CASE Cancel(c)
    <2>1. /\ call' = [call EXCEPT ![c].phase = "cancelled"]
          /\ UNCHANGED <<requests, serving, stdout, reader, matched, loopVars, handed, spoiled>>
      BY <1>3 DEF Cancel, clientVars, serverVars, eventVars
    <2>2. call' = [call EXCEPT ![c] = call'[c]]
      BY <2>1 DEF Inv, TypeOK
    <2>q. QED BY <1>1, <2>1, <2>2, OtherSame
  <1>q. QED BY <1>2, <1>3

LEMMA LoopStream ==
    ASSUME Inv, StreamInv, Stop \/ BackoffOver
    PROVE  StreamInv'
  <1>1. CASE Stop
    <2>1. /\ eventLoop' = "stopped" /\ call' = [call EXCEPT ![EventLoop].phase = "cancelled"]
          /\ UNCHANGED <<stdout, reader, matched, forwarded, handed, spoiled>>
      BY <1>1 DEF Stop, clientVars, serverVars, eventVars
    <2>2. call'[EventLoop].answer = call[EventLoop].answer /\ call'[EventLoop].phase = "cancelled"
      BY <2>1, LoopFacts, PhaseFacts
    <2>q. QED BY <2>1, <2>2, EndedStream DEF Streaming, Open
  <1>2. CASE BackoffOver
    <2>1. /\ eventLoop = "backoff" /\ eventLoop' = "polling" /\ call' = call
          /\ UNCHANGED <<requests, serving, stdout, reader, matched, forwarded, handed, spoiled>>
      BY <1>2 DEF BackoffOver, clientVars, serverVars, eventVars
    <2>2. ~Open(EventLoop)
      BY <2>1 DEF StreamInv, Polling
    <2>q. QED BY <2>1, <2>2, LoopSame DEF Streaming
  <1>q. QED BY <1>1, <1>2

\* Requests read or dropped.
LEMMA WriteStream ==
    ASSUME Inv, StreamInv, Write \/ ShutdownWriter
    PROVE  StreamInv'
  <1>1. UNCHANGED <<stdout, reader, matched, loopVars, call, handed, spoiled>>
    BY DEF Write, ShutdownWriter, serverVars, eventVars
  <1>2. /\ Got' <=> Got
        /\ Written' <=> Written
        /\ InHand' <=> InHand
        /\ \A r : Poll(r)' <=> Poll(r)
    BY <1>1 DEF Got, Written, InHand, ToLoop, Open, Poll, RequestOf
  <1>3. Polling' /\ Unspoiled' /\ (Streaming' <=> Streaming)
    BY <1>1, <1>2 DEF StreamInv, Polling, Unspoiled, Good, Open, loopVars, Streaming
  <1>4. \A e : (Coming(e)' <=> Coming(e)) /\ (Passed(e)' <=> Passed(e))
    BY <1>1, <1>2 DEF Coming, Passed, Brought, ToLoop, loopVars
  <1>5. Covered'
    BY <1>1, <1>3, <1>4 DEF StreamInv, Covered
  <1>6. ASSUME Streaming PROVE OfPoll' /\ Once'
    <2>1. OfPoll /\ Once
      BY <1>6 DEF StreamInv, OnePoll
    <2>2. CASE requests' = <<>> /\ serving' = serving
      <3>1. DOMAIN requests' = {}
        BY <2>2
      <3>2. ~Asked' /\ (Served' <=> Served)
        BY <2>2, <3>1 DEF Asked, Served
      <3>q. QED BY <1>1, <1>2, <2>1, <2>2, <3>1, <3>2 DEF OfPoll, Once, ToLoop
    <2>3. CASE /\ requests # <<>> /\ requests' = Tail(requests)
               /\ serving' = serving \cup {Head(requests)}
      <3>1. /\ requests \in Seq(Request) /\ Head(requests) = requests[1] /\ 1 \in DOMAIN requests
            /\ \A i \in DOMAIN Tail(requests) : /\ Tail(requests)[i] = requests[i + 1]
                                                /\ i + 1 \in DOMAIN requests /\ i + 1 # 1
                                                /\ i \in Int
        BY <2>3, LoopFacts DEF TypeOK
      <3>2. \A i \in DOMAIN requests' : /\ requests'[i] = requests[i + 1]
                                        /\ i + 1 \in DOMAIN requests /\ i + 1 # 1 /\ i \in Int
        BY <2>3, <3>1
      <3>3. Asked' => Asked
        BY <3>2 DEF Asked
      <3>4. requests[1].caller = EventLoop => Asked /\ ~Asked'
        BY <2>1, <3>1, <3>2 DEF Once, Asked
      <3>5. Served' => Served \/ requests[1].caller = EventLoop
        BY <2>3, <3>1 DEF Served
      <3>6. OfPoll'
        BY <1>1, <1>2, <2>1, <2>3, <3>1, <3>2 DEF OfPoll, ToLoop
      <3>7. \A i, j \in DOMAIN requests' :
               requests'[i].caller = EventLoop /\ requests'[j].caller = EventLoop => i = j
        <4>1. ASSUME NEW i \in DOMAIN requests', NEW j \in DOMAIN requests',
                     requests'[i].caller = EventLoop, requests'[j].caller = EventLoop
              PROVE  i = j
          <5>1. i + 1 = j + 1
            BY <2>1, <3>2, <4>1 DEF Once
          <5>q. QED BY <3>2, <5>1
        <4>q. QED BY <4>1
      <3>8. Once'
        BY <1>1, <1>2, <2>1, <3>3, <3>4, <3>5, <3>7 DEF Once, ToLoop
      <3>q. QED BY <3>6, <3>8
    <2>q. QED BY <2>2, <2>3 DEF Write, ShutdownWriter, serverVars
  <1>q. QED BY <1>3, <1>5, <1>6 DEF StreamInv, OnePoll

\* The poll of a line the loop can take is there to be answered.
LEMMA PollWaits ==
    ASSUME Inv, StreamInv, Streaming, reader = "reading",
           NEW l, ToLoop(l), Poll(l.request), Known(l.request), ~Got
    PROVE  Waiter(l) = {l.request.id}
  <1>1. Open(EventLoop) /\ call[EventLoop].id = l.request.id
    BY DEF Poll, RequestOf, Open
  <1>2. call[EventLoop].answer = NoAnswer
    BY <1>1 DEF StreamInv, Polling
  <1>3. call[EventLoop].id \in pending
    BY <1>1, <1>2, LoopFacts DEF Inv, Waiters, WaitersAgree, WaiterReachable
  <1>q. QED BY <1>1, <1>3 DEF Waiter, ToLoop

LEMMA TakeLineStream ==
    ASSUME Inv, StreamInv, TakeLine
    PROVE  StreamInv'
  <1>1. PICK l : /\ l = Head(stdout) /\ stdout # <<>> /\ stdout' = Tail(stdout)
                 /\ reader = "reading"
                 /\ IF Waiter(l) = {} THEN reader' = "reading"
                    ELSE reader' = "matched" /\ matched'.line = l
    BY DEF TakeLine
  <1>2. UNCHANGED <<requests, serving, loopVars, call, handed, spoiled>>
    BY DEF TakeLine, eventVars
  <1>3. /\ stdout \in Seq(Line) /\ l = stdout[1] /\ 1 \in DOMAIN stdout
        /\ \A i \in DOMAIN Tail(stdout) : /\ Tail(stdout)[i] = stdout[i + 1]
                                          /\ i + 1 \in DOMAIN stdout /\ i + 1 # 1 /\ i \in Int
        /\ \A i \in DOMAIN stdout :
              i # 1 => i - 1 \in DOMAIN Tail(stdout) /\ stdout[i] = Tail(stdout)[i - 1]
    <2>1. stdout \in Seq(Line) /\ stdout # <<>>
      BY <1>1, LoopFacts DEF TypeOK
    <2>2. /\ DOMAIN stdout = 1 .. Len(stdout) /\ Len(stdout) \in Nat /\ Len(stdout) > 0
          /\ DOMAIN Tail(stdout) = 1 .. (Len(stdout) - 1)
          /\ \A i \in 1 .. (Len(stdout) - 1) : Tail(stdout)[i] = stdout[i + 1]
          /\ l = stdout[1]
      BY <1>1, <2>1
    <2>3. ASSUME NEW i \in DOMAIN stdout, i # 1
          PROVE  i - 1 \in DOMAIN Tail(stdout) /\ stdout[i] = Tail(stdout)[i - 1]
      <3>1. i - 1 \in 1 .. (Len(stdout) - 1) /\ (i - 1) + 1 = i
        BY <2>2, <2>3
      <3>q. QED BY <2>2, <3>1
    <2>4. ASSUME NEW i \in DOMAIN Tail(stdout)
          PROVE  /\ Tail(stdout)[i] = stdout[i + 1]
                 /\ i + 1 \in DOMAIN stdout /\ i + 1 # 1 /\ i \in Int
      BY <2>2, <2>4
    <2>q. QED BY <2>1, <2>2, <2>3, <2>4
  <1>4. \A i \in DOMAIN stdout' : /\ stdout'[i] = stdout[i + 1]
                                  /\ i + 1 \in DOMAIN stdout /\ i + 1 # 1 /\ i \in Int
    BY <1>1, <1>3
  <1>5. /\ Got' <=> Got
        /\ Asked' <=> Asked
        /\ Served' <=> Served
        /\ \A r : Poll(r)' <=> Poll(r)
        /\ ~InHand
    BY <1>1, <1>2 DEF Got, Asked, Served, InHand, ToLoop, Open, Poll, RequestOf
  <1>6. Polling' /\ (Streaming' <=> Streaming)
    BY <1>1, <1>2, <1>5 DEF StreamInv, Polling, Open, loopVars, Streaming
  <1>7. Unspoiled'
    BY <1>1, <1>2, <1>3, <1>4 DEF StreamInv, Unspoiled, Good, loopVars
  <1>8. ASSUME Streaming PROVE OfPoll' /\ Once' /\ Covered'
    <2>1. OfPoll /\ Once
      BY <1>8 DEF StreamInv, OnePoll
    <2>2. Written' => Written
      BY <1>4 DEF Written, ToLoop
    <2>3. ToLoop(l) => Written /\ ~Written' /\ ~Got
      BY <1>3, <1>4, <2>1 DEF Once, Written, ToLoop
    <2>4. InHand' => ToLoop(l)
      BY <1>1 DEF InHand, ToLoop
    <2>5. OfPoll'
      BY <1>1, <1>2, <1>3, <1>4, <1>5, <2>1, <2>4 DEF OfPoll, ToLoop, InHand
    <2>6. \A i, j \in DOMAIN stdout' : ToLoop(stdout'[i]) /\ ToLoop(stdout'[j]) => i = j
      <3>1. ASSUME NEW i \in DOMAIN stdout', NEW j \in DOMAIN stdout',
                   ToLoop(stdout'[i]), ToLoop(stdout'[j])
            PROVE  i = j
        <4>1. i + 1 = j + 1
          BY <1>4, <2>1, <3>1 DEF Once
        <4>q. QED BY <1>4, <4>1
      <3>q. QED BY <3>1
    <2>7. Once'
      BY <1>2, <1>5, <2>1, <2>2, <2>3, <2>4, <2>6 DEF Once, ToLoop
    <2>8. ASSUME NEW e, Coming(e) PROVE Coming(e)'
      <3>1. CASE Got /\ Brought(call[EventLoop].answer, e)
        BY <1>2, <1>5, <3>1 DEF Coming, Brought, ToLoop
      <3>2. ASSUME NEW i \in DOMAIN stdout, Brought(stdout[i], e) PROVE Coming(e)'
        <4>1. CASE i = 1
          <5>1. ToLoop(l) /\ Brought(l, e) /\ Poll(l.request) /\ Known(l.request)
            BY <1>3, <2>1, <3>2, <4>1 DEF Brought, OfPoll, Inv, Ids, RequestsKnown
          <5>2. Waiter(l) # {}
            BY <1>1, <1>8, <2>3, <5>1, PollWaits
          <5>3. reader' = "matched" /\ matched'.line = l
            BY <1>1, <5>2
          <5>q. QED BY <5>1, <5>3 DEF Coming, Brought, ToLoop
        <4>2. CASE i # 1
          <5>1. i - 1 \in DOMAIN stdout' /\ stdout'[i - 1] = stdout[i]
            BY <1>1, <1>3, <3>2, <4>2
          <5>q. QED BY <3>2, <5>1 DEF Coming, Brought, ToLoop
        <4>q. QED BY <4>1, <4>2
      <3>q. QED BY <1>1, <2>8, <3>1, <3>2 DEF Coming
    <2>9. Covered'
      BY <1>2, <1>8, <2>8 DEF StreamInv, Covered, Passed, loopVars
    <2>q. QED BY <2>5, <2>7, <2>9
  <1>9. Covered'
    BY <1>6, <1>8 DEF Covered
  <1>q. QED BY <1>6, <1>7, <1>8, <1>9 DEF StreamInv, OnePoll

LEMMA SendAnswerStream ==
    ASSUME Inv, StreamInv, SendAnswer
    PROVE  StreamInv'
  <1>1. /\ reader = "matched" /\ reader' = "reading"
        /\ call' = [c \in Callers |-> IF Hears(matched.waiter, c)
                                      THEN [call[c] EXCEPT !.answer = matched.line] ELSE call[c]]
        /\ UNCHANGED <<requests, serving, stdout, loopVars, handed, spoiled>>
    BY DEF SendAnswer, serverVars, eventVars
  <1>2. /\ call'[EventLoop].phase = call[EventLoop].phase /\ call'[EventLoop].id = call[EventLoop].id
        /\ call'[EventLoop].answer = IF Hears(matched.waiter, EventLoop) THEN matched.line
                                     ELSE call[EventLoop].answer
    BY <1>1, LoopFacts DEF TypeOK
  <1>3. matched.line.kind # "garbage" /\ matched.line.kind # "closed" /\ matched.line # NoAnswer
    BY <1>1, LoopFacts, NoAnswerAssumption DEF Inv, Waiters, Taken, TypeOK, Line
  <1>4. Hears(matched.waiter, EventLoop) => InHand
    <2>1. SUFFICES ASSUME Hears(matched.waiter, EventLoop) PROVE InHand
      OBVIOUS
    <2>2. call[EventLoop].id = matched.line.request.id
      BY <1>1, <2>1 DEF Hears, Inv, Waiters, Taken
    <2>3. matched.line.request.caller = EventLoop
      BY <1>1, <2>2, LoopFacts DEF Inv, Ids, RequestsKnown, Known
    <2>q. QED BY <1>1, <1>3, <2>3 DEF InHand, ToLoop
  <1>5. /\ Open(EventLoop)' <=> Open(EventLoop)
        /\ Asked' <=> Asked
        /\ Served' <=> Served
        /\ Written' <=> Written
        /\ \A r : Poll(r)' <=> Poll(r)
        /\ ~InHand'
        /\ Streaming' <=> Streaming
    BY <1>1, <1>2 DEF Open, Asked, Served, Written, InHand, ToLoop, Poll, RequestOf, loopVars, Streaming
  <1>6. Got' <=> Got \/ Hears(matched.waiter, EventLoop)
    <2>1. CASE Hears(matched.waiter, EventLoop)
      <3>1. ToLoop(matched.line) /\ Open(EventLoop)
        BY <1>4, <2>1 DEF InHand, Hears
      <3>q. QED BY <1>2, <1>3, <1>5, <2>1, <3>1 DEF Got, ToLoop
    <2>2. CASE ~Hears(matched.waiter, EventLoop)
      BY <1>2, <1>5, <2>2 DEF Got, ToLoop
    <2>q. QED BY <2>1, <2>2
  <1>7. Polling'
    BY <1>1, <1>2, <1>5, <1>6 DEF StreamInv, Polling, loopVars
  <1>8. Unspoiled'
    BY <1>1, <1>2 DEF StreamInv, Unspoiled, Good, loopVars
  <1>9. ASSUME Streaming PROVE OfPoll' /\ Once' /\ Covered'
    <2>1. OfPoll /\ Once
      BY <1>9 DEF StreamInv, OnePoll
    <2>2. OfPoll'
      BY <1>1, <1>2, <1>4, <1>5, <1>6, <2>1 DEF OfPoll, ToLoop, Poll
    <2>3. Once'
      BY <1>1, <1>4, <1>5, <1>6, <2>1 DEF Once, ToLoop
    <2>4. ASSUME NEW e, Coming(e) PROVE Coming(e)'
      <3>1. ASSUME NEW i \in DOMAIN stdout, Brought(stdout[i], e) PROVE Coming(e)'
        BY <1>1, <3>1 DEF Coming, Brought, ToLoop
      <3>2. CASE Brought(matched.line, e)
        <4>1. InHand /\ Poll(matched.line.request)
          BY <1>1, <2>1, <3>2 DEF Brought, InHand, OfPoll
        <4>2. Hears(matched.waiter, EventLoop)
          BY <1>1, <4>1 DEF Poll, RequestOf, Hears, Open, Inv, Waiters, Taken
        <4>3. Got' /\ call'[EventLoop].answer = matched.line
          BY <1>2, <1>6, <4>2
        <4>q. QED BY <3>2, <4>3 DEF Coming, Brought, ToLoop
      <3>3. CASE Got /\ Brought(call[EventLoop].answer, e)
        <4>1. ~Hears(matched.waiter, EventLoop)
          BY <1>4, <2>1, <3>3 DEF Once
        <4>q. QED BY <1>2, <1>6, <3>3, <4>1 DEF Coming, Brought, ToLoop
      <3>q. QED BY <2>4, <3>1, <3>2, <3>3 DEF Coming
    <2>5. Covered'
      BY <1>1, <1>9, <2>4 DEF StreamInv, Covered, Passed, loopVars
    <2>q. QED BY <2>2, <2>3, <2>5
  <1>10. Covered'
    BY <1>5, <1>9 DEF Covered
  <1>q. QED BY <1>5, <1>7, <1>8, <1>9, <1>10 DEF StreamInv, OnePoll

LEMMA EndOfFileStream ==
    ASSUME Inv, StreamInv, EndOfFile
    PROVE  StreamInv'
  <1>1. /\ reader = "reading" /\ reader' = "ended" /\ stdout = <<>>
        /\ call' = [c \in Callers |-> IF Hears(pending, c)
                                      THEN [call[c] EXCEPT !.answer = Closed(c)] ELSE call[c]]
        /\ UNCHANGED <<requests, serving, stdout, loopVars, handed, spoiled>>
    BY DEF EndOfFile, serverVars, eventVars
  <1>2. /\ call'[EventLoop].phase = call[EventLoop].phase /\ call'[EventLoop].id = call[EventLoop].id
        /\ call'[EventLoop].answer = IF Hears(pending, EventLoop) THEN Closed(EventLoop)
                                     ELSE call[EventLoop].answer
    BY <1>1, LoopFacts DEF TypeOK
  <1>3. Closed(EventLoop).kind = "closed"
    BY DEF Closed, Answer
  <1>4. call[EventLoop].answer # NoAnswer => ~Hears(pending, EventLoop)
    BY LoopFacts DEF Hears, Inv, Waiters, AnsweredGone
  <1>5. /\ Open(EventLoop)' <=> Open(EventLoop)
        /\ Asked' <=> Asked
        /\ Served' <=> Served
        /\ Written' <=> Written
        /\ \A r : Poll(r)' <=> Poll(r)
        /\ ~InHand' /\ ~InHand
        /\ Streaming' <=> Streaming
    BY <1>1, <1>2 DEF Open, Asked, Served, Written, InHand, ToLoop, Poll, RequestOf, loopVars, Streaming
  <1>6. Got' <=> Got
    <2>1. CASE Hears(pending, EventLoop)
      BY <1>2, <1>3, <1>4, <2>1 DEF Got, ToLoop
    <2>2. CASE ~Hears(pending, EventLoop)
      BY <1>2, <1>5, <2>2 DEF Got, ToLoop
    <2>q. QED BY <2>1, <2>2
  <1>7. Polling'
    BY <1>1, <1>2, <1>5, <1>6 DEF StreamInv, Polling, loopVars
  <1>8. Unspoiled'
    BY <1>1, <1>2, <1>3 DEF StreamInv, Unspoiled, Good, loopVars
  <1>9. ASSUME Streaming PROVE OfPoll' /\ Once' /\ Covered'
    <2>1. OfPoll /\ Once
      BY <1>9 DEF StreamInv, OnePoll
    <2>2. OfPoll'
      BY <1>1, <1>2, <1>5, <1>6, <2>1 DEF OfPoll, ToLoop
    <2>3. Once'
      BY <1>1, <1>5, <1>6, <2>1 DEF Once, ToLoop
    <2>4. ASSUME NEW e, Coming(e) PROVE Coming(e)'
      <3>1. CASE Got /\ Brought(call[EventLoop].answer, e)
        <4>1. call'[EventLoop].answer = call[EventLoop].answer
          BY <1>2, <1>4, <3>1 DEF Got
        <4>q. QED BY <1>6, <3>1, <4>1 DEF Coming, Brought, ToLoop
      <3>2. ASSUME NEW i \in DOMAIN stdout, Brought(stdout[i], e) PROVE Coming(e)'
        BY <1>1, <3>2 DEF Coming, Brought, ToLoop
      <3>q. QED BY <1>1, <2>4, <3>1, <3>2 DEF Coming
    <2>5. Covered'
      BY <1>1, <1>9, <2>4 DEF StreamInv, Covered, Passed, loopVars
    <2>q. QED BY <2>2, <2>3, <2>5
  <1>10. Covered'
    BY <1>5, <1>9 DEF Covered
  <1>q. QED BY <1>5, <1>7, <1>8, <1>9, <1>10 DEF StreamInv, OnePoll

LEMMA ServerAnswersStream ==
    ASSUME Inv, StreamInv, Ordered, NEW r \in serving,
           NEW kind \in {"result", "error", "misfit", "garbage"}, ServerAnswers(r, kind)
    PROVE  StreamInv'
  <1>1. PICK batch :
          /\ batch = IF r.caller = EventLoop /\ kind # "error"
                     THEN [i \in 1 .. (emitted - handed) |-> handed + i] ELSE <<>>
          /\ handed' = handed + Len(batch)
          /\ spoiled' = IF kind = "result" THEN spoiled ELSE spoiled \cup ToSet(batch)
          /\ stdout' = Append(stdout, Answer(r, kind, batch))
    BY DEF ServerAnswers
  <1>2. serving' = serving \ {r} /\ UNCHANGED <<requests, reader, matched, loopVars, call>>
    BY DEF ServerAnswers, clientVars
  <1>3. PICK l : l = Answer(r, kind, batch) /\ l.request = r /\ l.kind = kind /\ l.batch = batch
    <2>1. PICK k : k = Answer(r, kind, batch)
      OBVIOUS
    <2>2. k.request = r /\ k.kind = kind /\ k.batch = batch
      BY <2>1 DEF Answer
    <2>q. QED BY <2>1, <2>2
  <1>4. /\ batch \in Seq(Nat) /\ handed' \in Nat /\ handed \in Nat /\ stdout \in Seq(Line)
        /\ Len(batch) \in Nat /\ DOMAIN batch = 1 .. Len(batch)
        /\ \A i \in DOMAIN batch : batch[i] = handed + i
        /\ batch # <<>> => r.caller = EventLoop /\ kind # "error"
    <2>1. emitted \in Nat /\ handed \in 0 .. emitted /\ stdout \in Seq(Line)
      BY LoopFacts DEF TypeOK
    <2>2. CASE batch = <<>>
      BY <1>1, <2>1, <2>2
    <2>3. CASE /\ r.caller = EventLoop /\ kind # "error"
               /\ batch = [i \in 1 .. (emitted - handed) |-> handed + i]
      <3>1. PICK n \in Nat : n = emitted - handed
        BY <2>1
      <3>2. batch = [i \in 1 .. n |-> handed + i] /\ \A i \in 1 .. n : handed + i \in Nat
        BY <2>1, <2>3, <3>1
      <3>3. batch \in Seq(Nat) /\ Len(batch) = n /\ DOMAIN batch = 1 .. n
        BY <3>2
      <3>q. QED BY <1>1, <2>1, <2>3, <3>2, <3>3
    <2>q. QED BY <1>1, <2>2, <2>3
  <1>5. /\ \A i \in DOMAIN stdout : i \in DOMAIN stdout' /\ stdout'[i] = stdout[i]
        /\ Len(stdout) + 1 \in DOMAIN stdout' /\ stdout'[Len(stdout) + 1] = l
        /\ \A i \in DOMAIN stdout' : \/ i \in DOMAIN stdout /\ stdout'[i] = stdout[i]
                                     \/ i = Len(stdout) + 1 /\ stdout'[i] = l
        /\ Len(stdout) + 1 \notin DOMAIN stdout
    BY <1>1, <1>3, <1>4
  <1>6. /\ Got' <=> Got
        /\ Asked' <=> Asked
        /\ InHand' <=> InHand
        /\ \A q : Poll(q)' <=> Poll(q)
        /\ Streaming' <=> Streaming
        /\ Written' <=> Written \/ ToLoop(l)
    <2>1. Written' <=> Written \/ ToLoop(l)
      BY <1>5 DEF Written, ToLoop
    <2>q. QED BY <1>2, <2>1 DEF Got, Asked, InHand, ToLoop, Open, Poll, RequestOf, loopVars, Streaming
  <1>7. Polling'
    BY <1>2, <1>6 DEF StreamInv, Polling, Open, loopVars
  <1>8. Unspoiled'
    <2>1. \A e \in 1 .. handed : e \notin spoiled => e \notin spoiled'
      <3>1. ASSUME NEW e \in 1 .. handed, e \in ToSet(batch) PROVE FALSE
        <4>1. PICK i \in 1 .. Len(batch) : e = handed + i
          BY <1>4, <3>1 DEF ToSet
        <4>q. QED BY <1>4, <4>1
      <3>q. QED BY <1>1, <3>1
    <2>2. \A k : Batch(k) /\ Good(k) => Good(k)'
      BY <2>1 DEF Batch, Given, Good
    <2>3. Good(l)'
      <3>1. SUFFICES ASSUME kind = "result", NEW i \in DOMAIN batch PROVE batch[i] \notin spoiled'
        BY <1>3 DEF Good
      <3>2. spoiled' = spoiled /\ spoiled \subseteq 1 .. handed
        BY <1>1, <3>1, LoopFacts DEF TypeOK
      <3>3. batch[i] = handed + i /\ i \in 1 .. Len(batch)
        BY <1>4, <3>1
      <3>q. QED BY <1>4, <3>2, <3>3
    <2>4. (\A i \in DOMAIN stdout : Good(stdout[i]))'
      BY <1>5, <2>2, <2>3 DEF StreamInv, Unspoiled, Ordered
    <2>5. (\A j \in DOMAIN forwarded : forwarded[j] \notin spoiled)'
      BY <1>2, <2>1 DEF StreamInv, Unspoiled, Ordered, Given, loopVars
    <2>q. QED BY <1>2, <2>2, <2>4, <2>5 DEF StreamInv, Unspoiled, Ordered
  <1>9. ASSUME Streaming PROVE OfPoll' /\ Once' /\ Covered'
    <2>1. OfPoll /\ Once
      BY <1>9 DEF StreamInv, OnePoll
    <2>2. Served' => Served
      BY <1>2 DEF Served
    <2>3. r.caller = EventLoop => Served /\ ~Served' /\ Poll(r)
      BY <1>2, <2>1 DEF Served, OfPoll, Poll
    <2>4. ToLoop(l) => r.caller = EventLoop
      BY <1>3 DEF ToLoop
    <2>5. OfPoll'
      BY <1>2, <1>3, <1>5, <1>6, <2>1, <2>3, <2>4 DEF OfPoll, ToLoop
    <2>6. \A i, j \in DOMAIN stdout' : ToLoop(stdout'[i]) /\ ToLoop(stdout'[j]) => i = j
      BY <1>5, <2>1, <2>3, <2>4 DEF Once, Written
    <2>7. Once'
      BY <1>2, <1>6, <2>1, <2>2, <2>3, <2>4, <2>6 DEF Once, ToLoop
    <2>8. \A e : Coming(e) => Coming(e)'
      BY <1>2, <1>5, <1>6 DEF Coming, Brought, ToLoop
    <2>9. spoiled \subseteq spoiled'
      BY <1>1
    <2>10. ASSUME NEW e \in 1 .. handed', e \notin 1 .. handed PROVE e \in spoiled' \/ Coming(e)'
      <3>1. PICK i : i = e - handed
        OBVIOUS
      <3>2. e \in Int /\ i \in 1 .. Len(batch) /\ e = handed + i
        <4>1. e \in Int /\ e > handed /\ e <= handed + Len(batch)
          <5>1. PICK n \in Nat, h \in Nat : n = Len(batch) /\ h = handed
            BY <1>4
          <5>2. e \in 1 .. (h + n) /\ e \notin 1 .. h
            BY <1>1, <2>10, <5>1
          <5>3. e \in Int /\ e > h /\ e <= h + n
            BY <5>2
          <5>q. QED BY <5>1, <5>3
        <4>q. QED BY <1>4, <3>1, <4>1
      <3>3. i \in DOMAIN batch /\ batch[i] = e /\ batch # <<>>
        <4>1. i \in DOMAIN batch /\ batch[i] = e
          BY <1>4, <3>2
        <4>q. QED BY <3>2, <4>1
      <3>4. CASE kind = "result"
        <4>1. Brought(l, e)
          BY <1>3, <1>4, <3>3, <3>4 DEF Brought, ToLoop
        <4>q. QED BY <1>5, <4>1 DEF Coming, Brought, ToLoop
      <3>5. CASE kind # "result"
        BY <1>1, <3>3, <3>5 DEF ToSet
      <3>q. QED BY <3>4, <3>5
    <2>11. Covered'
      BY <1>2, <1>9, <2>8, <2>9, <2>10 DEF StreamInv, Covered, Passed, loopVars
    <2>q. QED BY <2>5, <2>7, <2>11
  <1>10. Covered'
    BY <1>6, <1>9 DEF Covered
  <1>q. QED BY <1>6, <1>7, <1>8, <1>9, <1>10 DEF StreamInv, OnePoll

LEMMA ServerStream ==
    ASSUME Inv, StreamInv, Ordered, Server
    PROVE  StreamInv'
  <1>1. CASE CoreEmits
    BY <1>1, LoopSame DEF CoreEmits, clientVars, loopVars, serverVars, Streaming
  <1>2. CASE ServerDies \/ Shutdown
    <2>1. /\ serving' = {}
          /\ UNCHANGED <<requests, stdout, reader, matched, loopVars, call, handed, spoiled>>
      BY <1>2 DEF ServerDies, Shutdown, clientVars, eventVars
    <2>2. /\ Got' <=> Got
          /\ Asked' <=> Asked
          /\ Written' <=> Written
          /\ InHand' <=> InHand
          /\ \A r : Poll(r)' <=> Poll(r)
          /\ ~Served'
          /\ Streaming' <=> Streaming
      BY <2>1 DEF Got, Asked, Served, Written, InHand, ToLoop, Open, Poll, RequestOf, loopVars, Streaming
    <2>3. Polling' /\ Unspoiled'
      BY <2>1, <2>2 DEF StreamInv, Polling, Unspoiled, Good, Open, loopVars
    <2>4. \A e : (Coming(e)' <=> Coming(e)) /\ (Passed(e)' <=> Passed(e))
      BY <2>1, <2>2 DEF Coming, Passed, Brought, ToLoop, loopVars
    <2>5. Covered'
      BY <2>1, <2>2, <2>4 DEF StreamInv, Covered
    <2>6. OfPoll /\ Once => OfPoll' /\ Once'
      BY <2>1, <2>2 DEF OfPoll, Once, ToLoop
    <2>q. QED BY <2>2, <2>3, <2>5, <2>6 DEF StreamInv, OnePoll
  <1>q. QED BY <1>1, <1>2, ServerAnswersStream DEF Server

LEMMA StreamStep == Inv /\ Ordered /\ StreamInv /\ [Next]_vars => StreamInv'
  <1> SUFFICES ASSUME Inv, Ordered, StreamInv, [Next]_vars PROVE StreamInv'
    OBVIOUS
  <1>1. CASE UNCHANGED vars
    BY <1>1, LoopSame DEF vars, clientVars, loopVars, serverVars, eventVars, Streaming
  <1>2. CASE \E c \in Callers : Caller(c)
    BY <1>2, RegisterStream, QueueStream, AnsweredStream DEF Caller
  <1>3. CASE \E c \in Calls : TimesOut(c) \/ Cancel(c)
    BY <1>3, LeaveStream
  <1>4. CASE Stop \/ BackoffOver
    BY <1>4, LoopStream
  <1>5. CASE Writer \/ ShutdownWriter
    BY <1>5, WriteStream DEF Writer
  <1>6. CASE Reader
    BY <1>6, TakeLineStream, SendAnswerStream, EndOfFileStream DEF Reader
  <1>7. CASE Server
    BY <1>7, ServerStream
  <1>q. QED BY <1>1, <1>2, <1>3, <1>4, <1>5, <1>6, <1>7 DEF Next

LEMMA StreamInit == Init => StreamInv
  <1> SUFFICES ASSUME Init PROVE StreamInv
    OBVIOUS
  <1>1. /\ call[EventLoop] = [phase |-> "idle", id |-> 0, answer |-> NoAnswer]
        /\ requests = <<>> /\ stdout = <<>> /\ serving = {} /\ forwarded = <<>>
        /\ reader = "reading" /\ handed = 0
    BY DEF Init, Callers
  <1>2. ~Asked /\ ~Served /\ ~Written /\ ~InHand /\ ~Got /\ ~Open(EventLoop)
    BY <1>1 DEF Asked, Served, Written, InHand, Got, Open
  <1>3. Polling /\ OnePoll
    BY <1>2 DEF Polling, OnePoll, OfPoll, Once, Asked, Served, Written, InHand
  <1>4. Covered /\ Unspoiled
    BY <1>1 DEF Covered, Unspoiled
  <1>q. QED BY <1>3, <1>4 DEF StreamInv

-----------------------------------------------------------------------------
(* Step by step *)

\* The stream, as its promise sees it.
Phase == IF eventLoop \in {"polling", "backoff"} THEN "open" ELSE eventLoop

\* A batch that the loop takes is just what EventStream forwards.
LEMMA TakenForwards ==
    ASSUME Inv, Ordered, Ordered', StreamInv, Got, Streaming, Streaming',
           NEW a \in Outcome, a = call[EventLoop].answer, a.kind = "result", a.batch # <<>>,
           forwarded' = forwarded \o a.batch, UNCHANGED <<emitted, spoiled, handed, server>>
    PROVE  Stream!Forward
  <1>1. /\ forwarded \in Seq(Nat) /\ a.batch \in Seq(Nat) /\ emitted \in Nat
        /\ handed \in 0 .. emitted
    BY LoopFacts DEF TypeOK, Outcome
  <1>2. Stream!Rising(forwarded')
    BY DEF Ordered, EachOnceInOrder, Rising, Stream!Rising
  <1>3. IsPrefix(forwarded, forwarded')
    <2>1. Len(forwarded) <= Len(forwarded \o a.batch)
      BY <1>1
    <2>2. SubSeq(forwarded \o a.batch, 1, Len(forwarded)) = SubSeq(forwarded, 1, Len(forwarded))
      BY <1>1
    <2>q. QED BY <2>1, <2>2 DEF IsPrefix
  <1>4. handed \in 1 .. emitted
    <2>1. Given(a.batch)
      BY DEF Ordered, Batch, Got
    <2>2. 1 \in DOMAIN a.batch
      BY <1>1
    <2>3. a.batch[1] \in 1 .. handed
      BY <2>1, <2>2 DEF Given
    <2>q. QED BY <1>1, <2>3
  <1>5. ToSet(forwarded') = (1 .. handed) \ spoiled
    <2>1. ASSUME NEW e \in ToSet(forwarded') PROVE e \in (1 .. handed) \ spoiled
      <3>1. PICK j \in DOMAIN forwarded' : e = forwarded'[j]
        BY DEF ToSet
      <3>2. e \in 1 .. handed
        BY <3>1 DEF Ordered, Given
      <3>3. e \notin spoiled
        <4>1. \A i \in DOMAIN (forwarded \o a.batch) :
                 \/ i \in DOMAIN forwarded /\ (forwarded \o a.batch)[i] = forwarded[i]
                 \/ /\ i - Len(forwarded) \in DOMAIN a.batch
                    /\ (forwarded \o a.batch)[i] = a.batch[i - Len(forwarded)]
          BY <1>1
        <4>2. Good(a)
          BY DEF StreamInv, Unspoiled, Got
        <4>q. QED BY <3>1, <4>1, <4>2 DEF StreamInv, Unspoiled, Good
      <3>q. QED BY <3>2, <3>3
    <2>2. ASSUME NEW e \in 1 .. handed, e \notin spoiled PROVE e \in ToSet(forwarded')
      <3>1. Passed(e) \/ Coming(e)
        BY <2>2 DEF StreamInv, Covered
      <3>2. ~Written /\ ~InHand
        BY DEF StreamInv, OnePoll, Once
      <3>3. CASE Passed(e)
        <4>1. PICK j \in DOMAIN forwarded : forwarded[j] = e
          BY <3>3 DEF Passed
        <4>2. j \in DOMAIN (forwarded \o a.batch) /\ (forwarded \o a.batch)[j] = e
          BY <1>1, <4>1
        <4>q. QED BY <4>2 DEF ToSet
      <3>4. CASE Coming(e)
        <4>1. Brought(a, e)
          BY <3>2, <3>4 DEF Coming, Brought, Written, InHand
        <4>2. PICK k \in DOMAIN a.batch : a.batch[k] = e
          BY <4>1 DEF Brought
        <4>3. k \in 1 .. Len(a.batch) /\ Len(forwarded) \in Nat /\ Len(a.batch) \in Nat
          <5>1. DOMAIN a.batch = 1 .. Len(a.batch) /\ Len(forwarded) \in Nat /\ Len(a.batch) \in Nat
            BY <1>1
          <5>q. QED BY <4>2, <5>1
        <4>4. /\ Len(forwarded) + k \in DOMAIN (forwarded \o a.batch)
              /\ (forwarded \o a.batch)[Len(forwarded) + k] = a.batch[k]
          BY <1>1, <4>3
        <4>q. QED BY <4>2, <4>4 DEF ToSet
      <3>q. QED BY <3>1, <3>3, <3>4
    <2>q. QED BY <2>1, <2>2
  <1>6. Phase = "open" /\ Phase' = "open"
    BY DEF Phase, Streaming
  <1>q. QED BY <1>2, <1>3, <1>4, <1>5, <1>6 DEF Stream!Forward, Stream!ToSet, ToSet, Stream!IsPrefix, IsPrefix, Phase

\* Nothing the promise tells of changes.
LEMMA StreamStutters ==
    ASSUME UNCHANGED <<emitted, spoiled, forwarded>>, (server' = "up") <=> (server = "up"),
           Phase' = Phase
    PROVE  UNCHANGED Stream!vars
  BY DEF Stream!vars, Phase

\* A poll over: forwarded, the end, or nothing that shows.
LEMMA AnswerMaps ==
    ASSUME Inv, Ordered, Ordered', StreamInv, Gone, Answered(EventLoop)
    PROVE  Stream!Next \/ UNCHANGED Stream!vars
  <1>1. PICK a : a = call[EventLoop].answer
    OBVIOUS
  <1>2. /\ call[EventLoop].phase = "waiting" /\ a # NoAnswer /\ LoopTakes(a)
        /\ UNCHANGED <<server, emitted, spoiled, handed>>
    BY <1>1 DEF Answered, Return, serverVars, eventVars
  <1>3. Open(EventLoop) /\ eventLoop = "polling" /\ Streaming /\ Phase = "open"
    BY <1>2 DEF StreamInv, Polling, Open, Streaming, Phase
  <1>4. a.request.caller = EventLoop /\ a \in Outcome /\ a.kind # "garbage" /\ EventLoop \in Callers
    BY <1>1, <1>2, LoopFacts
  <1>5. CASE a.kind = "closed"
    <2>1. eventLoop' = "ended" /\ forwarded' = forwarded
      BY <1>2, <1>5 DEF LoopTakes
    <2>2. server # "up"
      BY <1>1, <1>2, <1>4, <1>5 DEF Gone
    <2>q. QED BY <1>2, <1>3, <2>1, <2>2 DEF Stream!Next, Stream!End, Phase
  <1>6. CASE a.kind = "result" /\ a.batch # <<>>
    <2>1. eventLoop' = "polling" /\ forwarded' = forwarded \o a.batch
      BY <1>2, <1>6 DEF LoopTakes
    <2>2. Got
      BY <1>1, <1>2, <1>3, <1>4, <1>6 DEF Got, ToLoop
    <2>3. Stream!Forward
      BY <1>1, <1>2, <1>3, <1>4, <1>6, <2>1, <2>2, TakenForwards DEF Streaming
    <2>q. QED BY <2>3 DEF Stream!Next
  <1>7. CASE a.kind # "closed" /\ (a.kind = "result" => a.batch = <<>>)
    <2>1. eventLoop' \in {"polling", "backoff"}
      BY <1>2, <1>7 DEF LoopTakes
    <2>2. forwarded' = forwarded
      <3>1. forwarded \in Seq(Nat)
        BY LoopFacts DEF TypeOK
      <3>2. forwarded' = forwarded \/ forwarded' = forwarded \o <<>>
        BY <1>2, <1>7 DEF LoopTakes
      <3>q. QED BY <3>1, <3>2
    <2>3. Phase' = Phase
      BY <1>3, <2>1 DEF Phase
    <2>q. QED BY <1>2, <2>2, <2>3, StreamStutters
  <1>q. QED BY <1>5, <1>6, <1>7

LEMMA ServerMaps ==
    ASSUME Inv, Ordered, StreamInv, Server
    PROVE  Stream!Next \/ UNCHANGED Stream!vars
  <1>1. Phase' = Phase /\ forwarded' = forwarded
    BY DEF Server, CoreEmits, ServerDies, Shutdown, ServerAnswers, clientVars, loopVars, Phase
  <1>2. CASE CoreEmits
    BY <1>1, <1>2 DEF CoreEmits, serverVars, Stream!Next, Stream!Emit, Phase
  <1>3. CASE ServerDies \/ Shutdown
    <2>1. server' # "up" /\ UNCHANGED <<emitted, spoiled>>
      BY <1>3 DEF ServerDies, Shutdown, eventVars
    <2>2. CASE server = "up"
      BY <1>1, <2>1, <2>2 DEF Stream!Next, Stream!Die, Phase
    <2>3. CASE server # "up"
      BY <1>1, <2>1, <2>3, StreamStutters
    <2>q. QED BY <2>2, <2>3
  <1>4. ASSUME NEW r \in serving, NEW kind \in {"result", "error", "misfit", "garbage"},
               ServerAnswers(r, kind)
        PROVE  Stream!Next \/ UNCHANGED Stream!vars
    <2>1. PICK batch :
            /\ batch = IF r.caller = EventLoop /\ kind # "error"
                       THEN [i \in 1 .. (emitted - handed) |-> handed + i] ELSE <<>>
            /\ spoiled' = IF kind = "result" THEN spoiled ELSE spoiled \cup ToSet(batch)
      BY <1>4 DEF ServerAnswers
    <2>2. server = "up" /\ UNCHANGED <<server, emitted>>
      BY <1>4 DEF ServerAnswers
    <2>3. CASE spoiled' = spoiled
      BY <1>1, <2>2, <2>3, StreamStutters
    <2>4. CASE batch = <<>>
      <3>1. ToSet(batch) = {}
        BY <2>4 DEF ToSet
      <3>2. spoiled' = spoiled
        BY <2>1, <3>1
      <3>q. QED BY <2>3, <3>2
    <2>5. CASE /\ spoiled' = spoiled \cup ToSet(batch)
               /\ batch = [i \in 1 .. (emitted - handed) |-> handed + i]
      <3>1. PICK h \in Nat, n \in Nat : h = handed /\ emitted = h + n
        <4>1. emitted \in Nat /\ handed \in 0 .. emitted
          BY LoopFacts DEF TypeOK
        <4>2. emitted - handed \in Nat /\ emitted = handed + (emitted - handed) /\ handed \in Nat
          BY <4>1
        <4>q. QED BY <4>2
      <3>2. batch = [i \in 1 .. n |-> h + i]
        BY <2>5, <3>1
      <3>3. CASE n = 0
        <4>1. ToSet(batch) = {}
          BY <3>2, <3>3 DEF ToSet
        <4>q. QED BY <2>3, <2>5, <4>1
      <3>4. CASE n # 0
        <4>1. ToSet(batch) = (h + 1) .. (h + n)
          <5>1. DOMAIN batch = 1 .. n /\ \A i \in 1 .. n : batch[i] = h + i
            BY <3>2
          <5>2. ASSUME NEW e \in (h + 1) .. (h + n) PROVE e \in ToSet(batch)
            <6>1. e - h \in 1 .. n /\ h + (e - h) = e
              BY <5>2
            <6>q. QED BY <5>1, <6>1 DEF ToSet
          <5>3. ASSUME NEW e \in ToSet(batch) PROVE e \in (h + 1) .. (h + n)
            <6>1. PICK i \in 1 .. n : e = h + i
              BY <5>1, <5>3 DEF ToSet
            <6>q. QED BY <6>1
          <5>q. QED BY <5>2, <5>3
        <4>2. h + 1 \in 1 .. emitted /\ h + n \in 1 .. emitted
          BY <3>1, <3>4
        <4>3. \A i \in DOMAIN forwarded : forwarded[i] < h + 1
          BY <3>1 DEF Ordered, Given
        <4>q. QED BY <1>1, <2>2, <2>5, <4>1, <4>2, <4>3 DEF Stream!Next, Stream!Spoil, Phase
      <3>q. QED BY <3>3, <3>4
    <2>q. QED BY <2>1, <2>3, <2>4, <2>5
  <1>q. QED BY <1>2, <1>3, <1>4 DEF Server

LEMMA StepMaps ==
    ASSUME Inv, Ordered, Ordered', StreamInv, Gone, [Next]_vars
    PROVE  [Stream!Next]_(Stream!vars)
  <1>1. CASE UNCHANGED <<emitted, spoiled, forwarded, server, eventLoop>>
    BY <1>1, StreamStutters DEF Phase
  <1>2. CASE UNCHANGED vars
    BY <1>1, <1>2 DEF vars, loopVars, serverVars, eventVars
  <1>3. ASSUME NEW c \in Callers, Register(c) PROVE [Stream!Next]_(Stream!vars)
    BY <1>1, <1>3 DEF Register, loopVars, serverVars, eventVars
  <1>4. ASSUME NEW c \in Callers, Queue(c) PROVE [Stream!Next]_(Stream!vars)
    <2>1. UNCHANGED <<emitted, spoiled, server>>
      BY <1>4 DEF Queue, serverVars, eventVars
    <2>2. CASE UNCHANGED loopVars
      BY <1>1, <2>1, <2>2 DEF loopVars
    <2>3. CASE c = EventLoop /\ writer = "ended" /\ LoopTakes(Closed(c))
      <3>1. eventLoop' = "ended" /\ forwarded' = forwarded
        BY <2>3 DEF LoopTakes, Closed, Answer
      <3>2. eventLoop = "polling"
        BY <1>4, <2>3 DEF Queue, StreamInv, Polling, Open
      <3>3. server # "up"
        BY <2>3 DEF Gone
      <3>q. QED BY <2>1, <3>1, <3>2, <3>3 DEF Stream!Next, Stream!End, Phase
    <2>q. QED BY <1>4, <2>2, <2>3 DEF Queue, Return
  <1>5. ASSUME NEW c \in Callers, Answered(c) PROVE [Stream!Next]_(Stream!vars)
    <2>1. CASE c = EventLoop
      BY <1>5, <2>1, AnswerMaps
    <2>2. CASE c # EventLoop
      BY <1>1, <1>5, <2>2 DEF Answered, Return, loopVars, serverVars, eventVars
    <2>q. QED BY <2>1, <2>2
  <1>6. ASSUME NEW c \in Calls, TimesOut(c) \/ Cancel(c) PROVE [Stream!Next]_(Stream!vars)
    <2>1. c # EventLoop
      BY <1>6, LoopFacts
    <2>q. QED BY <1>1, <1>6, <2>1 DEF TimesOut, Cancel, Return, loopVars, serverVars, eventVars
  <1>7. CASE Stop
    BY <1>7 DEF Stop, serverVars, eventVars, Stream!Next, Stream!Stop, Phase
  <1>8. CASE BackoffOver
    <2>1. Phase' = Phase /\ UNCHANGED <<emitted, spoiled, forwarded, server>>
      BY <1>8 DEF BackoffOver, Phase, serverVars, eventVars
    <2>q. QED BY <2>1, StreamStutters
  <1>9. CASE Writer \/ Reader \/ ShutdownWriter
    BY <1>1, <1>9 DEF Writer, Reader, Write, TakeLine, SendAnswer, EndOfFile, ShutdownWriter,
                      loopVars, serverVars, eventVars
  <1>10. CASE Server
    BY <1>10, ServerMaps
  <1>q. QED BY <1>2, <1>3, <1>4, <1>5, <1>6, <1>7, <1>8, <1>9, <1>10 DEF Next, Caller

\* The client implements the promise: whatever polls are refused, misread or left
\* unanswered, the shim gets every event the core has given but those in answers that could
\* not be used, once and in order, and an end of the stream only with the server's.
THEOREM ImplementsStream == Spec => EventsInOrder
  <1>1. Init => Ordered /\ Gone
    BY DEF Init, Ordered, EachOnceInOrder, Rising, Given, Callers, Gone, StreamEndsGone
  <1>2. Spec => []Inv
    BY InvInit, InvStep, PTL DEF Spec
  <1>3. Spec => []Ordered
    BY <1>1, <1>2, OrderStep, PTL DEF Spec
  <1>4. Spec => []Gone
    BY <1>1, <1>2, GoneStep, PTL DEF Spec
  <1>5. Spec => []StreamInv
    BY <1>2, <1>3, StreamInit, StreamStep, PTL DEF Spec
  <1>6. Init => Stream!Init
    BY DEF Init, Stream!Init
  <1>7. Inv /\ Ordered /\ Ordered' /\ StreamInv /\ Gone /\ [Next]_vars => [Stream!Next]_(Stream!vars)
    BY StepMaps
  <1>q. QED BY <1>2, <1>3, <1>4, <1>5, <1>6, <1>7, PTL DEF Spec, EventsInOrder, Stream!Spec

=============================================================================
