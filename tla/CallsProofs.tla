----------------------------- MODULE CallsProofs -----------------------------
(***************************************************************************)
(* What the app and the core say to each other of a call, for every number *)
(* of calls, every budget and every limit on early events.                 *)
(***************************************************************************)
EXTENDS Calls, FiniteSetTheorems, TLAPS

-----------------------------------------------------------------------------
(* Events handled one after another *)

\* A collection of finite sets has one that contains no other.
LEMMA Smallest ==
    ASSUME NEW S, NEW F \in SUBSET FiniteSubsetsOf(S), F # {}
    PROVE  \E x \in F : \A y \in F : y \subseteq x => y = x
<1>1. IsWellFoundedOn(StrictSubsetOrdering(S), FiniteSubsetsOf(S))
  BY FS_StrictSubsetOrderingWellFounded
<1>2. \E x \in F : \A y \in F : ~(<<y, x>> \in StrictSubsetOrdering(S))
  BY <1>1, WFMin
<1>3. QED
  BY <1>2 DEF StrictSubsetOrdering, FiniteSubsetsOf

\* A set of numbers has a least one.
LEMMA Least ==
    ASSUME NEW T \in SUBSET Nat, T # {}
    PROVE  \E x \in T : \A y \in T : x <= y
<1>1. \A n \in Nat : IsFiniteSet(0..n)
  BY FS_Interval
<1>2. /\ {0..n : n \in T} \in SUBSET FiniteSubsetsOf(Nat)
      /\ {0..n : n \in T} # {}
  BY <1>1 DEF FiniteSubsetsOf
<1>3. PICK F : F = {0..n : n \in T}
  OBVIOUS
<1>4. F \in SUBSET FiniteSubsetsOf(Nat) /\ F # {}
  BY <1>2, <1>3, Zenon
<1>5. \E z \in F : \A y \in F : y \subseteq z => y = z
  BY <1>4, Smallest
<1>6. PICK z \in F : \A y \in F : y \subseteq z => y = z
  BY <1>5
<1>7. PICK x \in T : z = 0..x
  BY <1>3
<1>8. ASSUME NEW y \in T PROVE x <= y
  <2>1. 0..y \in F
    BY <1>3
  <2>2. 0..y \subseteq 0..x => 0..y = 0..x
    BY <1>6, <1>7, <2>1
  <2>3. QED
    BY <2>2
<1>9. QED
  BY <1>8

\* The states that handling `es` from `s` goes through.
Through(s, es, k, f) == f = [i \in 0..k |-> IF i = 0 THEN s ELSE Handle(f[i - 1], es[i])]

LEMMA ThroughAll ==
    ASSUME NEW s, NEW es, NEW n \in Nat
    PROVE  \E f : Through(s, es, n, f)
<1> DEFINE Bad == {k \in 0..n : ~\E f : Through(s, es, k, f)}
<1>1. SUFFICES ASSUME Bad # {} PROVE FALSE
  OBVIOUS
<1>2. PICK k \in Bad : \A j \in Bad : k <= j
  <2>1. Bad \in SUBSET Nat
    OBVIOUS
  <2> HIDE DEF Bad
  <2>2. QED
    BY <1>1, <2>1, Least
<1>3. CASE k = 0
  <2>1. PICK f : f = [i \in 0..0 |-> s]
    OBVIOUS
  <2>2. Through(s, es, 0, f)
    BY <2>1 DEF Through
  <2>3. QED
    BY <1>2, <1>3, <2>2
<1>4. CASE k > 0
  <2>1. k - 1 \in 0..n /\ k - 1 \notin Bad /\ k \in Nat
    BY <1>2, <1>4
  <2>2. PICK f : Through(s, es, k - 1, f)
    BY <2>1
  <2>3. PICK g : g = [i \in 0..k |-> IF i = k THEN Handle(f[k - 1], es[k]) ELSE f[i]]
    OBVIOUS
  <2>4. \A i \in 0..k - 1 : g[i] = f[i]
    BY <2>1, <2>3
  <2>5. \A i \in 0..k - 1 : f[i] = IF i = 0 THEN s ELSE Handle(f[i - 1], es[i])
    BY <2>2 DEF Through
  <2>6. ASSUME NEW i \in 0..k PROVE g[i] = IF i = 0 THEN s ELSE Handle(g[i - 1], es[i])
    <3>1. CASE i = k
      BY <1>4, <2>1, <2>3, <2>4, <3>1
    <3>2. CASE i < k
      <4>1. i = 0 \/ i - 1 \in 0..k - 1
        BY <2>1, <3>2
      <4>2. QED
        BY <2>1, <2>4, <2>5, <3>2, <4>1
    <3>3. QED
      BY <2>1, <3>1, <3>2
  <2>7. Through(s, es, k, g)
    BY <2>3, <2>6 DEF Through
  <2>8. QED
    BY <1>2, <2>7
<1>5. QED
  BY <1>2, <1>3, <1>4

LEMMA HandleAllThrough ==
    ASSUME NEW s, NEW es, Len(es) \in Nat
    PROVE  \E f : Through(s, es, Len(es), f) /\ HandleAll(s, es) = f[Len(es)]
<1>1. \E f : Through(s, es, Len(es), f)
  BY ThroughAll
<1>2. PICK f : f = CHOOSE g : g = [i \in 0..Len(es) |-> IF i = 0 THEN s ELSE Handle(g[i - 1], es[i])]
  OBVIOUS
<1>3. f = [i \in 0..Len(es) |-> IF i = 0 THEN s ELSE Handle(f[i - 1], es[i])]
  BY <1>1, <1>2 DEF Through
<1>4. HandleAll(s, es) = f[Len(es)]
  BY <1>2 DEF HandleAll
<1>5. QED
  BY <1>3, <1>4 DEF Through

-----------------------------------------------------------------------------
(* What the operators on the call, its hosts and its tasks return *)

State == [call : Call, host : [Nums -> Host], tasks : SUBSET Task]

\* A host that is told that its call is over.
Settled(h) == [h EXCEPT !.ended = @ \/ h.stage = "held", !.quiet = TRUE]

\* A host whose call is over: dropped, if it is the call's.
LetGo(h) == IF h.stage = "held" THEN Drop(h) ELSE h

LEMMA NumsNat == Nums \subseteq Nat /\ MaxCalls \in Nat \ {0} /\ 0 \notin Ids /\ 0 \notin Nums
BY CallsAssumption DEF Nums

LEMMA NowIsState ==
    ASSUME TypeOK
    PROVE  Now \in State /\ Now.call = call /\ Now.host = host /\ Now.tasks = tasks
BY DEF TypeOK, Now, State

LEMMA DropHost ==
    ASSUME NEW h \in Host
    PROVE  /\ Drop(h) \in Host
           /\ Drop(h).stage = "dropped" /\ Drop(h).ending /\ Drop(h).drop = "ending"
           /\ Drop(h).msg = h.msg /\ Drop(h).made = h.made
           /\ Drop(h).ended = h.ended /\ Drop(h).answered = h.answered /\ Drop(h).quiet = h.quiet
           /\ Drop(h).place = h.place /\ Drop(h).accept = h.accept /\ Drop(h).page = h.page
           /\ Drop(h).ending_call = h.ending_call
BY DEF Drop, Host

LEMMA SettledHost ==
    ASSUME NEW h \in Host
    PROVE  /\ Settled(h) \in Host
           /\ Settled(h).ended = (h.ended \/ h.stage = "held") /\ Settled(h).quiet
           /\ Settled(h).stage = h.stage /\ Settled(h).ending = h.ending
           /\ Settled(h).drop = h.drop
           /\ Settled(h).msg = h.msg /\ Settled(h).made = h.made
           /\ Settled(h).answered = h.answered
           /\ Settled(h).place = h.place /\ Settled(h).accept = h.accept
           /\ Settled(h).page = h.page
           /\ Settled(h).ending_call = h.ending_call
BY DEF Settled, Host

LEMMA LetGoHost ==
    ASSUME NEW h \in Host
    PROVE  LetGo(h) \in Host
BY DropHost DEF LetGo

LEMMA CloseIs ==
    ASSUME NEW s \in State
    PROVE  /\ Close(s) \in State
           /\ Close(s).tasks = s.tasks
           /\ Close(s).call = [s.call EXCEPT !.state = "ended", !.reason = ""]
           /\ \A k \in Nums : Close(s).host[k] = IF k = s.call.num THEN LetGo(s.host[k])
                                                 ELSE s.host[k]
<1>1. s.call \in Call /\ s.host \in [Nums -> Host] /\ s.tasks \subseteq Task
  BY DEF State
<1>2. PICK o : o = [s EXCEPT !.call.state = "ended", !.call.reason = ""]
  OBVIOUS
<1>3. PICK c : c = [s.call EXCEPT !.state = "ended", !.reason = ""]
  OBVIOUS
<1>4. c \in Call
  BY <1>1, <1>3 DEF Call, States, Reasons
<1>5. o \in State /\ o.call = c /\ o.host = s.host /\ o.tasks = s.tasks
  BY <1>1, <1>2, <1>3, <1>4 DEF State
<1>6. CASE s.call.num > 0 /\ s.host[s.call.num].stage = "held"
  <2>1. Close(s) = [o EXCEPT !.host[s.call.num] = Drop(@)]
    BY <1>2, <1>6 DEF Close
  <2>2. s.call.num \in Nums
    BY <1>1, <1>6, NumsNat DEF Call, Nums
  <2>3. s.host[s.call.num] \in Host
    BY <1>1, <2>2
  <2>4. PICK d : d = Drop(s.host[s.call.num])
    OBVIOUS
  <2>5. d \in Host
    BY <2>3, <2>4, DropHost
  <2>6. Close(s) = [o EXCEPT !.host[s.call.num] = d]
    BY <1>5, <2>1, <2>4
  <2>7. /\ Close(s) \in State
        /\ Close(s).call = c /\ Close(s).tasks = s.tasks
        /\ Close(s).host = [s.host EXCEPT ![s.call.num] = d]
    BY <1>1, <1>4, <1>5, <2>5, <2>6 DEF State
  <2>8. \A k \in Nums : Close(s).host[k] = IF k = s.call.num THEN d ELSE s.host[k]
    BY <1>1, <2>7
  <2>9. QED
    BY <1>3, <1>6, <2>4, <2>7, <2>8 DEF LetGo
<1>7. CASE ~(s.call.num > 0 /\ s.host[s.call.num].stage = "held")
  <2>1. Close(s) = o
    BY <1>2, <1>7 DEF Close
  <2>2. \A k \in Nums : k = s.call.num => s.host[k].stage # "held"
    BY <1>7, NumsNat DEF Nums
  <2>3. \A k \in Nums : s.host[k] = IF k = s.call.num THEN LetGo(s.host[k]) ELSE s.host[k]
    BY <2>2 DEF LetGo
  <2>4. QED
    BY <1>3, <1>5, <2>1, <2>3
<1>8. QED
  BY <1>6, <1>7

LEMMA FinishIs ==
    ASSUME NEW s \in State, NEW reason \in Reasons
    PROVE  /\ Finish(s, reason) \in State
           /\ ~BusyIn(s.call) => Finish(s, reason) = s
           /\ BusyIn(s.call) =>
                /\ Finish(s, reason).tasks = s.tasks
                /\ Finish(s, reason).call = [s.call EXCEPT !.state = "ended", !.reason = reason]
                /\ \A k \in Nums : Finish(s, reason).host[k] =
                                      IF k = s.call.num THEN LetGo(s.host[k]) ELSE s.host[k]
<1>1. CASE ~BusyIn(s.call)
  BY <1>1 DEF Finish
<1>2. CASE BusyIn(s.call)
  <2>1. PICK o : o = Close(s)
    OBVIOUS
  <2>2. /\ o \in State /\ o.tasks = s.tasks
        /\ o.call = [s.call EXCEPT !.state = "ended", !.reason = ""]
        /\ \A k \in Nums : o.host[k] = IF k = s.call.num THEN LetGo(s.host[k]) ELSE s.host[k]
    BY <2>1, CloseIs
  <2>3. Finish(s, reason) = [o EXCEPT !.call.reason = reason]
    BY <1>2, <2>1 DEF Finish
  <2>4. s.call \in Call /\ o.call \in Call
    BY <2>2 DEF State
  <2>5. PICK c : c = [s.call EXCEPT !.state = "ended", !.reason = reason]
    OBVIOUS
  <2>6. c \in Call /\ c = [o.call EXCEPT !.reason = reason]
    BY <2>2, <2>4, <2>5 DEF Call, States
  <2>7. /\ Finish(s, reason) \in State /\ Finish(s, reason).call = c
        /\ Finish(s, reason).host = o.host /\ Finish(s, reason).tasks = o.tasks
    BY <2>2, <2>3, <2>6 DEF State
  <2>8. QED
    BY <1>2, <2>2, <2>5, <2>7
<1>3. QED
  BY <1>1, <1>2

LEMMA SettleIs ==
    ASSUME NEW s \in State
    PROVE  /\ Settle(s) \in State
           /\ Settle(s).tasks = s.tasks /\ Settle(s).call = s.call
           /\ \A k \in Nums : Settle(s).host[k] = IF k = s.call.num THEN Settled(s.host[k])
                                                  ELSE s.host[k]
<1>1. s.call \in Call /\ s.host \in [Nums -> Host] /\ s.tasks \subseteq Task
  BY DEF State
<1>2. PICK n : n = s.call.num
  OBVIOUS
<1>3. PICK a : a = [s EXCEPT !.host[n].ended = @ \/ s.host[n].stage = "held"]
  OBVIOUS
<1>4. Settle(s) = [a EXCEPT !.host[n].quiet = TRUE]
  BY <1>2, <1>3 DEF Settle
<1>5. a.call = s.call /\ a.tasks = s.tasks /\ DOMAIN a = DOMAIN s
      /\ a.host = [s.host EXCEPT ![n].ended = @ \/ s.host[n].stage = "held"]
  BY <1>3 DEF State
<1>6. /\ Settle(s).call = s.call /\ Settle(s).tasks = s.tasks
      /\ Settle(s).host = [a.host EXCEPT ![n].quiet = TRUE]
      /\ DOMAIN Settle(s) = DOMAIN s
  BY <1>3, <1>4, <1>5 DEF State
<1>7. ASSUME NEW k \in Nums
      PROVE  Settle(s).host[k] = IF k = n THEN Settled(s.host[k]) ELSE s.host[k]
  <2>1. PICK h : h = s.host[k]
    OBVIOUS
  <2>2. h \in Host
    BY <1>1, <2>1
  <2>3. CASE k = n
    <3>1. PICK g : g = [h EXCEPT !.ended = @ \/ h.stage = "held"]
      OBVIOUS
    <3>2. a.host[k] = g
      BY <1>1, <1>5, <2>1, <2>3, <3>1
    <3>3. Settle(s).host[k] = [g EXCEPT !.quiet = TRUE]
      BY <1>1, <1>5, <1>6, <2>3, <3>2
    <3>4. [g EXCEPT !.quiet = TRUE] = Settled(h)
      BY <2>2, <3>1 DEF Settled, Host
    <3>5. QED
      BY <2>1, <2>3, <3>3, <3>4
  <2>4. CASE k # n
    BY <1>1, <1>5, <1>6, <2>4
  <2>5. QED
    BY <2>3, <2>4
<1>8. DOMAIN Settle(s).host = Nums /\ Settle(s).host = [k \in Nums |-> Settle(s).host[k]]
  BY <1>1, <1>5, <1>6
<1>9. \A k \in Nums : Settle(s).host[k] \in Host
  BY <1>1, <1>7, SettledHost
<1>10. Settle(s).host \in [Nums -> Host]
  BY <1>8, <1>9
<1>11. Settle(s) = [call |-> s.call, host |-> Settle(s).host, tasks |-> s.tasks]
  BY <1>3, <1>4, <1>6 DEF State
<1>12. Settle(s) \in State
  BY <1>1, <1>10, <1>11 DEF State
<1>13. QED
  BY <1>2, <1>6, <1>7, <1>12

LEMMA NumNext ==
    ASSUME NEW s \in State
    PROVE  /\ s.call.num \in 0..MaxCalls
           /\ s.call.num < MaxCalls => s.call.num + 1 \in Nums /\ s.call.num + 1 \in 0..MaxCalls
<1>1. s.call.num \in 0..MaxCalls
  BY DEF State, Call
<1>2. QED
  BY <1>1, NumsNat DEF Nums

LEMMA WhyTask ==
    ASSUME NEW k \in {"pick", "watch", "why", "decline"}, NEW n \in 0..MaxCalls, NEW m \in Ids
    PROVE  /\ NewTask(k, n, m) \in Task
           /\ NewTask(k, n, m).kind = k /\ NewTask(k, n, m).num = n
           /\ NewTask(k, n, m).msg = m /\ NewTask(k, n, m).phase = "asked"
BY DEF NewTask, Task

LEMMA StartedIs ==
    ASSUME NEW s \in State, NEW t \in Task
    PROVE  /\ Started(s, t) \in State
           /\ Started(s, t).call = s.call /\ Started(s, t).host = s.host
           /\ Started(s, t).tasks = s.tasks \cup {t}
BY DEF Started, State

LEMMA FinishUnansweredIs ==
    ASSUME NEW s \in State, s.call.msg \in Ids
    PROVE  /\ FinishUnanswered(s) \in State
           /\ FinishUnanswered(s).tasks = s.tasks \cup {NewTask("why", s.call.num, s.call.msg)}
           /\ FinishUnanswered(s).call = [s.call EXCEPT !.state = "ended", !.reason = ""]
           /\ \A k \in Nums : FinishUnanswered(s).host[k] =
                                 IF k = s.call.num THEN LetGo(s.host[k]) ELSE s.host[k]
<1>1. s.call.num \in 0..MaxCalls
  BY DEF State, Call
<1>2. NewTask("why", s.call.num, s.call.msg) \in Task
  BY <1>1, WhyTask
<1>3. PICK t : t = NewTask("why", s.call.num, s.call.msg)
  OBVIOUS
<1>4. PICK o : o = Close(s)
  OBVIOUS
<1>5. o \in State /\ t \in Task /\ FinishUnanswered(s) = Started(o, t)
  BY <1>2, <1>3, <1>4, CloseIs DEF FinishUnanswered
<1>6. /\ Started(o, t) \in State
      /\ Started(o, t).call = o.call /\ Started(o, t).host = o.host
      /\ Started(o, t).tasks = o.tasks \cup {t}
  BY <1>5, StartedIs
<1>7. /\ o.tasks = s.tasks /\ o.call = [s.call EXCEPT !.state = "ended", !.reason = ""]
      /\ \A k \in Nums : o.host[k] = IF k = s.call.num THEN LetGo(s.host[k]) ELSE s.host[k]
  BY <1>4, CloseIs
<1>8. QED
  BY <1>3, <1>5, <1>6, <1>7

LEMMA NoCallIs == NoCall \in Call /\ ~BusyIn(NoCall)
BY CallsAssumption DEF NoCall, Call, States, Reasons, Msg, BusyIn

LEMMA NoHostIs == NoHost \in Host
BY DEF NoHost, Host, Msg

LEMMA BeginIs ==
    ASSUME NEW s \in State, s.call.num < MaxCalls, NEW state \in States, NEW m \in Msg,
           NEW incoming \in BOOLEAN
    PROVE  /\ Begin(s, state, m, incoming) \in State
           /\ Begin(s, state, m, incoming).tasks = s.tasks
           /\ Begin(s, state, m, incoming).host = s.host
           /\ Begin(s, state, m, incoming).call =
                [num |-> s.call.num + 1, state |-> state, reason |-> "", msg |-> m,
                 incoming |-> incoming, early |-> <<>>]
<1>1. PICK c : c = [num |-> s.call.num + 1, state |-> state, reason |-> "", msg |-> m,
                    incoming |-> incoming, early |-> <<>>]
  OBVIOUS
<1>2. c = [NoCall EXCEPT !.num = s.call.num + 1, !.state = state, !.msg = m,
                         !.incoming = incoming]
  <2>1. PICK k : k = s.call.num + 1
    OBVIOUS
  <2>2. PICK r : r = NoCall
    OBVIOUS
  <2>3. PICK x : x = [r EXCEPT !.num = k, !.state = state, !.msg = m, !.incoming = incoming]
    OBVIOUS
  <2>4. x = [num |-> k, state |-> state, reason |-> "", msg |-> m,
             incoming |-> incoming, early |-> <<>>]
    BY <2>2, <2>3 DEF NoCall
  <2>5. QED
    BY <1>1, <2>1, <2>2, <2>3, <2>4
<1>3. s.call.num + 1 \in 0..MaxCalls
  BY NumNext
<1>4. c \in Call
  <2>1. <<>> \in Seq(Event) /\ "" \in Reasons
    BY DEF Reasons
  <2>2. QED
    BY <1>1, <1>3, <2>1 DEF Call
<1>5. Begin(s, state, m, incoming) = [s EXCEPT !.call = c]
  BY <1>2 DEF Begin
<1>6. QED
  BY <1>1, <1>4, <1>5 DEF State

LEMMA RingIs ==
    ASSUME NEW s \in State, s.call.num < MaxCalls, NEW m \in Ids
    PROVE  /\ Ring(s, m) \in State
           /\ Ring(s, m).tasks = s.tasks \cup {NewTask("watch", s.call.num + 1, m)}
           /\ Ring(s, m).host = s.host
           /\ Ring(s, m).call = [num |-> s.call.num + 1, state |-> "ringing", reason |-> "",
                                 msg |-> m, incoming |-> TRUE, early |-> <<>>]
<1>1. s.call.num + 1 \in 0..MaxCalls /\ m \in Msg /\ "ringing" \in States
  BY NumNext DEF Msg, States
<1>2. PICK t : t = NewTask("watch", s.call.num + 1, m)
  OBVIOUS
<1>3. t \in Task
  BY <1>1, <1>2, WhyTask
<1>4. PICK o : o = Begin(s, "ringing", m, TRUE)
  OBVIOUS
<1>5. /\ o \in State /\ o.tasks = s.tasks /\ o.host = s.host
      /\ o.call = [num |-> s.call.num + 1, state |-> "ringing", reason |-> "",
                   msg |-> m, incoming |-> TRUE, early |-> <<>>]
  BY <1>1, <1>4, BeginIs
<1>6. Ring(s, m) = Started(o, t)
  BY <1>2, <1>4 DEF Ring
<1>7. QED
  BY <1>2, <1>3, <1>5, <1>6, StartedIs

LEMMA ServeIs ==
    ASSUME NEW s \in State, s.call.num \in Nums
    PROVE  /\ Serve(s) \in State
           /\ Serve(s).tasks = s.tasks /\ Serve(s).call = s.call
           /\ \A k \in Nums : Serve(s).host[k] =
                 IF k = s.call.num THEN [NoHost EXCEPT !.stage = "starting", !.msg = s.call.msg]
                 ELSE s.host[k]
<1>1. PICK h : h = [NoHost EXCEPT !.stage = "starting", !.msg = s.call.msg]
  OBVIOUS
<1>2. h \in Host
  BY <1>1 DEF NoHost, Host, State, Call, Msg
<1>3. Serve(s) = [s EXCEPT !.host[s.call.num] = h]
  BY <1>1 DEF Serve
<1>4. QED
  BY <1>1, <1>2, <1>3 DEF State

-----------------------------------------------------------------------------
(* What comes of an event: t is what s becomes *)

\* Kept until the core has named the call, or dropped.
IsKept(s, e, t) ==
    /\ e.kind # "IncomingCall" /\ Unnamed(s.call)
    /\ t.tasks = s.tasks /\ t.host = s.host
    /\ t.call = [s.call EXCEPT !.early = t.call.early]
    /\ t.call.early = IF Len(s.call.early) < EARLY_EVENTS THEN Append(s.call.early, e)
                      ELSE s.call.early

\* A call comes in.
IsRung(s, e, t) ==
    /\ e.kind = "IncomingCall" /\ ~BusyIn(s.call) /\ s.call.num < MaxCalls
    /\ t = Ring(s, e.msg)

EndsIt(e, m) ==
    e.msg = m /\ (e.kind = "CallEnded" \/ (e.kind = "IncomingCallAccepted" /\ ~e.here))

AnswersIt(e, m) == e.msg = m /\ e.kind = "OutgoingCallAccepted"

\* The call is over, or another device's.
IsEnded(s, e, t) ==
    /\ BusyIn(s.call) /\ EndsIt(e, s.call.msg)
    /\ t.call = [s.call EXCEPT !.state = "ended", !.reason = t.call.reason]
    /\ \A k \in Nums : t.host[k] = IF k = s.call.num THEN LetGo(Settled(s.host[k]))
                                   ELSE s.host[k]
    /\ \/ t.tasks = s.tasks
       \/ s.call.state = "ringing"
          /\ t.tasks = s.tasks \cup {NewTask("why", s.call.num, s.call.msg)}

\* The other end answers.
IsAnswered(s, e, t) ==
    /\ AnswersIt(e, s.call.msg) /\ ~s.call.incoming
    /\ t.tasks = s.tasks
    /\ t.call = [s.call EXCEPT !.state = t.call.state]
    /\ t.call.state = IF s.call.state = "calling" THEN "connecting" ELSE s.call.state
    /\ \A k \in Nums : t.host[k] =
          IF k = s.call.num THEN [s.host[k] EXCEPT !.answered = @ \/ s.host[k].stage = "held"]
          ELSE s.host[k]

\* It is of no concern.
IsIgnored(s, e, t) ==
    /\ t = s
    /\ BusyIn(s.call) => ~EndsIt(e, s.call.msg)
    /\ AnswersIt(e, s.call.msg) => s.call.incoming
    /\ Unnamed(s.call) => e.kind = "IncomingCall"

IsHandled(s, e, t) ==
    \/ IsKept(s, e, t) \/ IsRung(s, e, t) \/ IsEnded(s, e, t) \/ IsAnswered(s, e, t)
    \/ IsIgnored(s, e, t)

LEMMA EndedIs ==
    ASSUME NEW s \in State, NEW e, BusyIn(s.call), NEW reason \in Reasons, EndsIt(e, s.call.msg)
    PROVE  LET t == Finish(Settle(s), reason) IN t \in State /\ IsEnded(s, e, t)
<1>1. PICK o : o = Settle(s)
  OBVIOUS
<1>2. /\ o \in State /\ o.tasks = s.tasks /\ o.call = s.call
      /\ \A k \in Nums : o.host[k] = IF k = s.call.num THEN Settled(s.host[k]) ELSE s.host[k]
  BY <1>1, SettleIs
<1>3. PICK t : t = Finish(o, reason)
  OBVIOUS
<1>4. /\ t \in State /\ t.tasks = o.tasks
      /\ t.call = [o.call EXCEPT !.state = "ended", !.reason = reason]
      /\ \A k \in Nums : t.host[k] = IF k = o.call.num THEN LetGo(o.host[k]) ELSE o.host[k]
  <2>1. BusyIn(o.call)
    BY <1>2
  <2>2. /\ Finish(o, reason) \in State
        /\ Finish(o, reason).tasks = o.tasks
        /\ Finish(o, reason).call = [o.call EXCEPT !.state = "ended", !.reason = reason]
        /\ \A k \in Nums : Finish(o, reason).host[k] =
                              IF k = o.call.num THEN LetGo(o.host[k]) ELSE o.host[k]
    BY <1>2, <2>1, FinishIs
  <2>3. QED
    BY <1>3, <2>2
<1>5. s.call \in Call
  BY DEF State
<1>6. t.call.reason = reason
  BY <1>2, <1>4, <1>5 DEF Call
<1>7. t.call = [s.call EXCEPT !.state = "ended", !.reason = t.call.reason]
  BY <1>2, <1>4, <1>6
<1>8. \A k \in Nums : t.host[k] = IF k = s.call.num THEN LetGo(Settled(s.host[k])) ELSE s.host[k]
  BY <1>2, <1>4
<1>9. QED
  BY <1>1, <1>2, <1>3, <1>4, <1>7, <1>8 DEF IsEnded

LEMMA EndedUnansweredIs ==
    ASSUME NEW s \in State, NEW e, s.call.state = "ringing", EndsIt(e, s.call.msg),
           s.call.msg \in Ids
    PROVE  LET t == FinishUnanswered(Settle(s)) IN t \in State /\ IsEnded(s, e, t)
<1>1. PICK o : o = Settle(s)
  OBVIOUS
<1>2. /\ o \in State /\ o.tasks = s.tasks /\ o.call = s.call
      /\ \A k \in Nums : o.host[k] = IF k = s.call.num THEN Settled(s.host[k]) ELSE s.host[k]
  BY <1>1, SettleIs
<1>3. PICK t : t = FinishUnanswered(o)
  OBVIOUS
<1>4. /\ t \in State /\ t.tasks = o.tasks \cup {NewTask("why", o.call.num, o.call.msg)}
      /\ t.call = [o.call EXCEPT !.state = "ended", !.reason = ""]
      /\ \A k \in Nums : t.host[k] = IF k = o.call.num THEN LetGo(o.host[k]) ELSE o.host[k]
  BY <1>2, <1>3, FinishUnansweredIs
<1>5. s.call \in Call
  BY DEF State
<1>6. t.call.reason = ""
  BY <1>2, <1>4, <1>5 DEF Call
<1>7. t.call = [s.call EXCEPT !.state = "ended", !.reason = t.call.reason]
  BY <1>2, <1>4, <1>6
<1>8. \A k \in Nums : t.host[k] = IF k = s.call.num THEN LetGo(Settled(s.host[k])) ELSE s.host[k]
  BY <1>2, <1>4
<1>9. BusyIn(s.call)
  BY DEF BusyIn
<1>10. t.tasks = s.tasks \cup {NewTask("why", s.call.num, s.call.msg)}
  BY <1>2, <1>4
<1>11. QED
  BY <1>1, <1>2, <1>3, <1>4, <1>7, <1>8, <1>9, <1>10 DEF IsEnded

LEMMA AnsweredIs ==
    ASSUME NEW s \in State, NEW e, AnswersIt(e, s.call.msg), ~s.call.incoming
    PROVE  LET t == [s EXCEPT !.call.state = IF @ = "calling" THEN "connecting" ELSE @,
                              !.host[s.call.num].answered = @ \/ s.host[s.call.num].stage = "held"]
           IN  t \in State /\ IsAnswered(s, e, t)
<1>1. s.call \in Call /\ s.host \in [Nums -> Host] /\ s.tasks \subseteq Task
  BY DEF State
<1>2. PICK n : n = s.call.num
  OBVIOUS
<1>3. PICK st : st = IF s.call.state = "calling" THEN "connecting" ELSE s.call.state
  OBVIOUS
<1>4. PICK c : c = [s.call EXCEPT !.state = st]
  OBVIOUS
<1>5. c \in Call /\ c.state = st
  BY <1>1, <1>3, <1>4 DEF Call, States
<1>6. PICK h : h = [s.host EXCEPT ![n].answered = @ \/ s.host[n].stage = "held"]
  OBVIOUS
<1>7. ASSUME NEW k \in Nums
      PROVE  h[k] = IF k = n THEN [s.host[k] EXCEPT !.answered = @ \/ s.host[k].stage = "held"]
                    ELSE s.host[k]
  BY <1>1, <1>6
<1>8. \A k \in Nums : [s.host[k] EXCEPT !.answered = @ \/ s.host[k].stage = "held"] \in Host
  <2>1. ASSUME NEW k \in Nums
        PROVE  [s.host[k] EXCEPT !.answered = @ \/ s.host[k].stage = "held"] \in Host
    <3>1. s.host[k] \in Host
      BY <1>1
    <3>2. PICK b \in BOOLEAN : b = (s.host[k].answered \/ s.host[k].stage = "held")
      OBVIOUS
    <3>3. [s.host[k] EXCEPT !.answered = b] \in Host
      BY <3>1, <3>2 DEF Host
    <3>4. QED
      BY <3>2, <3>3
  <2>2. QED
    BY <2>1
<1>9. h \in [Nums -> Host]
  BY <1>1, <1>6, <1>7, <1>8
<1>10. PICK t : t = [s EXCEPT !.call.state = IF @ = "calling" THEN "connecting" ELSE @,
                              !.host[s.call.num].answered = @ \/ s.host[s.call.num].stage = "held"]
  OBVIOUS
<1>11. t.call = c /\ t.host = h /\ t.tasks = s.tasks
  BY <1>2, <1>3, <1>4, <1>6, <1>10 DEF State
<1>12. t = [call |-> c, host |-> h, tasks |-> s.tasks]
  BY <1>10, <1>11 DEF State
<1>13. t \in State
  BY <1>1, <1>5, <1>9, <1>12 DEF State
<1>14. t.call.state = st
  BY <1>5, <1>11
<1>15. t.call = [s.call EXCEPT !.state = t.call.state]
  BY <1>4, <1>11, <1>14
<1>16. \A k \in Nums : t.host[k] =
          IF k = s.call.num THEN [s.host[k] EXCEPT !.answered = @ \/ s.host[k].stage = "held"]
          ELSE s.host[k]
  BY <1>2, <1>7, <1>11
<1>17. IsAnswered(s, e, t)
  BY <1>3, <1>11, <1>14, <1>15, <1>16 DEF IsAnswered
<1>18. QED
  BY <1>10, <1>13, <1>17

LEMMA HeardIs ==
    ASSUME NEW s \in State, NEW e \in Event, Unnamed(s.call) => e.kind = "IncomingCall"
    PROVE  Heard(s, e) \in State /\ IsHandled(s, e, Heard(s, e))
<1>1. e.msg \in Ids /\ e.kind \in {"IncomingCall", "IncomingCallAccepted", "OutgoingCallAccepted",
                                   "CallEnded"}
  BY DEF Event
<1>2. PICK t : t = Heard(s, e)
  OBVIOUS
<1>3. CASE e.kind = "IncomingCall"
  <2>1. CASE ~BusyIn(s.call) /\ s.call.num < MaxCalls
    <3>1. t = Ring(s, e.msg)
      BY <1>2, <1>3, <2>1 DEF Heard
    <3>2. t \in State /\ IsRung(s, e, t)
      BY <1>1, <1>3, <2>1, <3>1, RingIs DEF IsRung
    <3>3. QED
      BY <1>2, <3>2 DEF IsHandled
  <2>2. CASE BusyIn(s.call) \/ ~(s.call.num < MaxCalls)
    <3>1. t = s
      BY <1>2, <1>3, <2>2 DEF Heard
    <3>2. IsIgnored(s, e, t)
      BY <1>3, <3>1 DEF IsIgnored, EndsIt, AnswersIt
    <3>3. QED
      BY <1>2, <3>1, <3>2 DEF IsHandled
  <2>3. QED
    BY <2>1, <2>2
<1>4. CASE e.kind = "IncomingCallAccepted"
  <2>1. CASE e.msg = s.call.msg /\ ~e.here /\ BusyIn(s.call)
    <3>1. t = Finish(Settle(s), "answered-elsewhere")
      BY <1>2, <1>4, <2>1 DEF Heard
    <3>2. EndsIt(e, s.call.msg) /\ "answered-elsewhere" \in Reasons
      BY <1>4, <2>1 DEF EndsIt, Reasons
    <3>3. t \in State /\ IsEnded(s, e, t)
      BY <2>1, <3>1, <3>2, EndedIs
    <3>4. QED
      BY <1>2, <3>3 DEF IsHandled
  <2>2. CASE ~(e.msg = s.call.msg /\ ~e.here /\ BusyIn(s.call))
    <3>1. t = s
      BY <1>2, <1>4, <2>2 DEF Heard
    <3>2. IsIgnored(s, e, t)
      BY <1>4, <2>2, <3>1 DEF IsIgnored, EndsIt, AnswersIt
    <3>3. QED
      BY <1>2, <3>1, <3>2 DEF IsHandled
  <2>3. QED
    BY <2>1, <2>2
<1>5. CASE e.kind = "OutgoingCallAccepted"
  <2>1. CASE e.msg = s.call.msg /\ ~s.call.incoming
    <3>1. t = [s EXCEPT !.call.state = IF @ = "calling" THEN "connecting" ELSE @,
                        !.host[s.call.num].answered = @ \/ s.host[s.call.num].stage = "held"]
      BY <1>2, <1>5, <2>1 DEF Heard
    <3>2. AnswersIt(e, s.call.msg)
      BY <1>5, <2>1 DEF AnswersIt
    <3>3. t \in State /\ IsAnswered(s, e, t)
      BY <2>1, <3>1, <3>2, AnsweredIs
    <3>4. QED
      BY <1>2, <3>3 DEF IsHandled
  <2>2. CASE ~(e.msg = s.call.msg /\ ~s.call.incoming)
    <3>1. t = s
      BY <1>2, <1>5, <2>2 DEF Heard
    <3>2. IsIgnored(s, e, t)
      BY <1>5, <2>2, <3>1 DEF IsIgnored, EndsIt, AnswersIt
    <3>3. QED
      BY <1>2, <3>1, <3>2 DEF IsHandled
  <2>3. QED
    BY <2>1, <2>2
<1>6. CASE e.kind = "CallEnded"
  <2>1. CASE e.msg = s.call.msg /\ BusyIn(s.call)
    <3>1. EndsIt(e, s.call.msg) /\ s.call.msg \in Ids /\ "remote" \in Reasons
      BY <1>1, <1>6, <2>1 DEF EndsIt, Reasons
    <3>2. CASE s.call.state = "ringing"
      <4>1. t = FinishUnanswered(Settle(s))
        BY <1>2, <1>6, <2>1, <3>2 DEF Heard
      <4>2. t \in State /\ IsEnded(s, e, t)
        BY <3>1, <3>2, <4>1, EndedUnansweredIs
      <4>3. QED
        BY <1>2, <4>2 DEF IsHandled
    <3>3. CASE s.call.state # "ringing"
      <4>1. t = Finish(Settle(s), "remote")
        BY <1>2, <1>6, <2>1, <3>3 DEF Heard
      <4>2. t \in State /\ IsEnded(s, e, t)
        BY <2>1, <3>1, <4>1, EndedIs
      <4>3. QED
        BY <1>2, <4>2 DEF IsHandled
    <3>4. QED
      BY <3>2, <3>3
  <2>2. CASE ~(e.msg = s.call.msg /\ BusyIn(s.call))
    <3>1. t = s
      BY <1>2, <1>6, <2>2 DEF Heard
    <3>2. IsIgnored(s, e, t)
      BY <1>6, <2>2, <3>1 DEF IsIgnored, EndsIt, AnswersIt
    <3>3. QED
      BY <1>2, <3>1, <3>2 DEF IsHandled
  <2>3. QED
    BY <2>1, <2>2
<1>7. QED
  BY <1>1, <1>3, <1>4, <1>5, <1>6

LEMMA HandleIs ==
    ASSUME NEW s \in State, NEW e \in Event
    PROVE  Handle(s, e) \in State /\ IsHandled(s, e, Handle(s, e))
<1>1. CASE e.kind # "IncomingCall" /\ Unnamed(s.call)
  <2>1. PICK y : y = IF Len(s.call.early) < EARLY_EVENTS THEN Append(s.call.early, e)
                     ELSE s.call.early
    OBVIOUS
  <2>2. s.call \in Call /\ s.call.early \in Seq(Event)
    BY DEF State, Call
  <2>3. y \in Seq(Event)
    BY <2>1, <2>2
  <2>4. PICK c : c = [s.call EXCEPT !.early = y]
    OBVIOUS
  <2>5. c \in Call /\ c.early = y
    BY <2>2, <2>3, <2>4 DEF Call
  <2>6. PICK t : t = Handle(s, e)
    OBVIOUS
  <2>7. t = [s EXCEPT !.call = c]
    BY <1>1, <2>1, <2>4, <2>6 DEF Handle
  <2>8. t \in State /\ t.call = c /\ t.tasks = s.tasks /\ t.host = s.host
    BY <2>5, <2>7 DEF State
  <2>9. IsKept(s, e, t)
    BY <1>1, <2>1, <2>4, <2>5, <2>8 DEF IsKept
  <2>10. QED
    BY <2>6, <2>8, <2>9 DEF IsHandled
<1>2. CASE ~(e.kind # "IncomingCall" /\ Unnamed(s.call))
  <2>1. Handle(s, e) = Heard(s, e)
    BY <1>2 DEF Handle
  <2>2. QED
    BY <1>2, <2>1, HeardIs
<1>3. QED
  BY <1>1, <1>2

-----------------------------------------------------------------------------
(* What comes of the events kept, once the core has named the call *)

\* A call placed, that the core has named, with its host up.
NamedState(s) ==
    /\ s \in State /\ s.call.num \in Nums
    /\ BusyIn(s.call) /\ s.call.state # "ringing"
    /\ s.call.msg \in Ids /\ ~s.call.incoming
    /\ s.host[s.call.num].stage = "held"

\* s, and what became of it with the first k of the events.
IsFed(s, es, k, t) ==
    LET n == s.call.num
        m == s.call.msg IN
    /\ t \in State /\ t.tasks = s.tasks
    /\ t.call.num = n /\ t.call.msg = m
    /\ t.call.incoming = s.call.incoming /\ t.call.early = s.call.early
    /\ \A j \in Nums : j # n => t.host[j] = s.host[j]
    /\ \E a \in BOOLEAN :
          /\ s.host[n].answered => a
          /\ \/ /\ BusyIn(t.call) /\ t.call.state # "ringing"
                /\ t.host[n] = [s.host[n] EXCEPT !.answered = a]
                /\ \A i \in 1..k : ~EndsIt(es[i], m) /\ (AnswersIt(es[i], m) => a)
             \/ /\ t.call.state = "ended"
                /\ t.host[n] = LetGo(Settled([s.host[n] EXCEPT !.answered = a]))
                /\ \E i \in 1..k : EndsIt(es[i], m)

LEMMA FedFirst ==
    ASSUME NEW s, NamedState(s), NEW es
    PROVE  IsFed(s, es, 0, s)
<1>1. s.host[s.call.num] \in Host
  BY DEF NamedState, State
<1>2. PICK a \in BOOLEAN : a = s.host[s.call.num].answered
  BY <1>1 DEF Host
<1>3. s.host[s.call.num] = [s.host[s.call.num] EXCEPT !.answered = a]
  BY <1>1, <1>2 DEF Host
<1>4. QED
  BY <1>2, <1>3 DEF NamedState, IsFed

LEMMA AnsweredHost ==
    ASSUME NEW h \in Host, NEW a \in BOOLEAN
    PROVE  LET g == [h EXCEPT !.answered = a] IN
           /\ g \in Host
           /\ g.answered = a /\ g.quiet = h.quiet /\ g.ended = h.ended
           /\ g.stage = h.stage /\ g.ending = h.ending
           /\ g.drop = h.drop
           /\ g.msg = h.msg /\ g.made = h.made
           /\ g.place = h.place /\ g.accept = h.accept
           /\ g.page = h.page
           /\ g.ending_call = h.ending_call
BY DEF Host

LEMMA FedNext ==
    ASSUME NEW s, NamedState(s), NEW es, NEW k \in Nat, NEW t, IsFed(s, es, k, t),
           es[k + 1] \in Event, es[k + 1].kind # "IncomingCall"
    PROVE  IsFed(s, es, k + 1, Handle(t, es[k + 1]))
<1>1. PICK e : e = es[k + 1]
  OBVIOUS
<1>2. PICK u : u = Handle(t, e)
  OBVIOUS
<1>3. PICK n : n = s.call.num
  OBVIOUS
<1>4. PICK m : m = s.call.msg
  OBVIOUS
<1>5. t \in State /\ e \in Event /\ e.kind # "IncomingCall"
  BY <1>1 DEF IsFed
<1>6. u \in State /\ IsHandled(t, e, u)
  BY <1>2, <1>5, HandleIs
<1>7. /\ t.tasks = s.tasks
      /\ t.call.num = n /\ t.call.msg = m /\ ~t.call.incoming
      /\ t.call.incoming = s.call.incoming /\ t.call.early = s.call.early
      /\ \A j \in Nums : j # n => t.host[j] = s.host[j]
  BY <1>3, <1>4 DEF IsFed, NamedState
<1>8. m \in Ids /\ m # 0 /\ n \in Nums /\ s.host[n] \in Host /\ s.host[n].stage = "held"
  BY <1>3, <1>4, NumsNat DEF NamedState, State
<1>9. ~Unnamed(t.call)
  BY <1>7, <1>8 DEF Unnamed
<1>10. PICK a \in BOOLEAN :
          /\ s.host[n].answered => a
          /\ \/ /\ BusyIn(t.call) /\ t.call.state # "ringing"
                /\ t.host[n] = [s.host[n] EXCEPT !.answered = a]
                /\ \A i \in 1..k : ~EndsIt(es[i], m) /\ (AnswersIt(es[i], m) => a)
             \/ /\ t.call.state = "ended"
                /\ t.host[n] = LetGo(Settled([s.host[n] EXCEPT !.answered = a]))
                /\ \E i \in 1..k : EndsIt(es[i], m)
  BY <1>3, <1>4 DEF IsFed
<1>11. t.call \in Call /\ 1..k + 1 = 1..k \cup {k + 1}
  BY <1>5 DEF State
<1>12. CASE IsEnded(t, e, u)
  <2>1. BusyIn(t.call) /\ EndsIt(e, m) /\ t.call.state # "ringing"
    BY <1>7, <1>10, <1>12 DEF IsEnded, BusyIn
  <2>2. t.host[n] = [s.host[n] EXCEPT !.answered = a]
    BY <1>10, <2>1 DEF BusyIn
  <2>3. u.tasks = t.tasks /\ u.call = [t.call EXCEPT !.state = "ended", !.reason = u.call.reason]
    BY <1>12, <2>1 DEF IsEnded
  <2>4. /\ u.call.state = "ended" /\ u.call.num = n /\ u.call.msg = m
        /\ u.call.incoming = t.call.incoming /\ u.call.early = t.call.early
    BY <1>7, <1>11, <2>3 DEF Call
  <2>5. \A j \in Nums : u.host[j] = IF j = n THEN LetGo(Settled(t.host[j])) ELSE t.host[j]
    BY <1>7, <1>12 DEF IsEnded
  <2>6. u.host[n] = LetGo(Settled([s.host[n] EXCEPT !.answered = a]))
    BY <1>8, <2>2, <2>5
  <2>7. \A j \in Nums : j # n => u.host[j] = s.host[j]
    BY <1>7, <2>5
  <2>8. \E i \in 1..k + 1 : EndsIt(es[i], m)
    BY <1>1, <1>11, <2>1
  <2>9. IsFed(s, es, k + 1, u)
    BY <1>3, <1>4, <1>6, <1>7, <1>10, <2>3, <2>4, <2>6, <2>7, <2>8 DEF IsFed
  <2>10. QED
    BY <1>1, <1>2, <2>9
<1>13. CASE IsAnswered(t, e, u)
  <2>1. AnswersIt(e, m) /\ ~EndsIt(e, m)
    BY <1>7, <1>13 DEF IsAnswered, AnswersIt, EndsIt
  <2>2. /\ u.tasks = t.tasks /\ u.call = [t.call EXCEPT !.state = u.call.state]
        /\ u.call.state = IF t.call.state = "calling" THEN "connecting" ELSE t.call.state
    BY <1>13 DEF IsAnswered
  <2>3. /\ u.call.num = n /\ u.call.msg = m
        /\ u.call.incoming = t.call.incoming /\ u.call.early = t.call.early
    BY <1>7, <1>11, <2>2 DEF Call
  <2>4. \A j \in Nums : u.host[j] =
           IF j = n THEN [t.host[j] EXCEPT !.answered = @ \/ t.host[j].stage = "held"]
           ELSE t.host[j]
    BY <1>7, <1>13 DEF IsAnswered
  <2>5. \A j \in Nums : j # n => u.host[j] = s.host[j]
    BY <1>7, <2>4
  <2>6. CASE BusyIn(t.call)
    <3>1. /\ t.call.state # "ringing" /\ t.call.state # "ended"
          /\ t.host[n] = [s.host[n] EXCEPT !.answered = a]
          /\ \A i \in 1..k : ~EndsIt(es[i], m) /\ (AnswersIt(es[i], m) => a)
      BY <1>10, <2>6 DEF BusyIn
    <3>2. t.host[n].stage = "held"
      BY <1>8, <3>1, AnsweredHost
    <3>3. u.host[n] = [t.host[n] EXCEPT !.answered = TRUE]
      BY <1>8, <2>4, <3>2
    <3>4. u.host[n] = [s.host[n] EXCEPT !.answered = TRUE]
      BY <1>8, <3>1, <3>3 DEF Host
    <3>5. BusyIn(u.call) /\ u.call.state # "ringing"
      BY <2>2, <2>6, <3>1 DEF BusyIn
    <3>6. \A i \in 1..k + 1 : ~EndsIt(es[i], m)
      BY <1>1, <1>11, <2>1, <3>1
    <3>7. IsFed(s, es, k + 1, u)
      BY <1>3, <1>4, <1>6, <1>7, <2>2, <2>3, <2>5, <3>4, <3>5, <3>6 DEF IsFed
    <3>8. QED
      BY <1>1, <1>2, <3>7
  <2>7. CASE ~BusyIn(t.call)
    <3>1. /\ t.call.state = "ended"
          /\ t.host[n] = LetGo(Settled([s.host[n] EXCEPT !.answered = a]))
          /\ \E i \in 1..k : EndsIt(es[i], m)
      BY <1>10, <2>7
    <3>2. PICK h : h = Settled([s.host[n] EXCEPT !.answered = a])
      OBVIOUS
    <3>3. h \in Host /\ h.stage = "held"
      <4>1. PICK g : g = [s.host[n] EXCEPT !.answered = a]
        OBVIOUS
      <4>2. g \in Host /\ g.stage = "held"
        BY <1>8, <4>1, AnsweredHost
      <4>3. h = Settled(g)
        BY <3>2, <4>1
      <4>4. QED
        BY <4>2, <4>3, SettledHost
    <3>4. t.host[n] = Drop(h) /\ t.host[n] \in Host /\ t.host[n].stage = "dropped"
      BY <3>1, <3>2, <3>3, DropHost DEF LetGo
    <3>5. t.host[n].answered \in BOOLEAN
      BY <3>4 DEF Host
    <3>6. u.host[n] = [t.host[n] EXCEPT !.answered = t.host[n].answered]
      BY <1>8, <2>4, <3>4, <3>5
    <3>7. u.host[n] = t.host[n]
      BY <3>4, <3>6 DEF Host
    <3>8. u.call.state = "ended"
      BY <2>2, <3>1
    <3>9. \E i \in 1..k + 1 : EndsIt(es[i], m)
      BY <1>11, <3>1
    <3>10. IsFed(s, es, k + 1, u)
      BY <1>3, <1>4, <1>6, <1>7, <1>10, <2>2, <2>3, <2>5, <3>1, <3>7, <3>8, <3>9 DEF IsFed
    <3>11. QED
      BY <1>1, <1>2, <3>10
  <2>8. QED
    BY <2>6, <2>7
<1>14. CASE IsIgnored(t, e, u)
  <2>1. u = t /\ (BusyIn(t.call) => ~EndsIt(e, m)) /\ ~AnswersIt(e, m)
    BY <1>7, <1>14 DEF IsIgnored
  <2>2. CASE BusyIn(t.call)
    <3>1. /\ t.call.state # "ringing"
          /\ t.host[n] = [s.host[n] EXCEPT !.answered = a]
          /\ \A i \in 1..k : ~EndsIt(es[i], m) /\ (AnswersIt(es[i], m) => a)
      BY <1>10, <2>2 DEF BusyIn
    <3>2. \A i \in 1..k + 1 : ~EndsIt(es[i], m) /\ (AnswersIt(es[i], m) => a)
      BY <1>1, <1>11, <2>1, <2>2, <3>1
    <3>3. IsFed(s, es, k + 1, u)
      BY <1>3, <1>4, <1>6, <1>7, <1>10, <2>1, <2>2, <3>1, <3>2 DEF IsFed
    <3>4. QED
      BY <1>1, <1>2, <3>3
  <2>3. CASE ~BusyIn(t.call)
    <3>1. /\ t.call.state = "ended"
          /\ t.host[n] = LetGo(Settled([s.host[n] EXCEPT !.answered = a]))
          /\ \E i \in 1..k + 1 : EndsIt(es[i], m)
      BY <1>10, <1>11, <2>3
    <3>2. IsFed(s, es, k + 1, u)
      BY <1>3, <1>4, <1>6, <1>7, <1>10, <2>1, <3>1 DEF IsFed
    <3>3. QED
      BY <1>1, <1>2, <3>2
  <2>4. QED
    BY <2>2, <2>3
<1>15. ~IsKept(t, e, u) /\ ~IsRung(t, e, u)
  BY <1>5, <1>9 DEF IsKept, IsRung
<1>16. QED
  BY <1>6, <1>12, <1>13, <1>14, <1>15 DEF IsHandled

LEMMA HandleAllIs ==
    ASSUME NEW s, NamedState(s), NEW es \in Seq(Event),
           \A i \in DOMAIN es : es[i].kind # "IncomingCall"
    PROVE  IsFed(s, es, Len(es), HandleAll(s, es))
<1>1. Len(es) \in Nat /\ DOMAIN es = 1..Len(es)
  OBVIOUS
<1>2. PICK f : Through(s, es, Len(es), f) /\ HandleAll(s, es) = f[Len(es)]
  BY <1>1, HandleAllThrough
<1>3. PICK g : g = [k \in Nat |-> IsFed(s, es, k, f[k])]
  OBVIOUS
<1> DEFINE Bad == {k \in 0..Len(es) : ~g[k]}
<1>4. ASSUME Bad # {} PROVE FALSE
  <2>1. Bad \in SUBSET Nat
    BY <1>1
  <2>2. PICK k \in Bad : \A j \in Bad : k <= j
    <3> HIDE DEF Bad
    <3>1. QED
      BY <1>4, <2>1, Least
  <2>3. k \in 0..Len(es) /\ k \in Nat /\ ~IsFed(s, es, k, f[k])
    BY <1>1, <1>3, <2>2
  <2>4. CASE k = 0
    <3>1. f[0] = s
      BY <1>1, <1>2 DEF Through
    <3>2. IsFed(s, es, 0, f[0])
      BY <3>1, FedFirst
    <3>3. QED
      BY <2>3, <2>4, <3>2
  <2>5. CASE k > 0
    <3>1. PICK j \in Nat : k = j + 1
      <4>1. k - 1 \in Nat /\ k = (k - 1) + 1
        BY <2>3, <2>5
      <4>2. QED
        BY <4>1
    <3>2. j \in 0..Len(es) /\ j \notin Bad /\ k \in 1..Len(es)
      BY <1>1, <2>2, <2>3, <3>1
    <3>3. IsFed(s, es, j, f[j])
      BY <1>3, <3>1, <3>2
    <3>4. f[k] = Handle(f[j], es[k])
      BY <1>1, <1>2, <2>3, <3>1 DEF Through
    <3>5. es[k] \in Event /\ es[k].kind # "IncomingCall"
      BY <1>1, <3>2
    <3>6. IsFed(s, es, k, f[k])
      BY <3>1, <3>3, <3>4, <3>5, FedNext
    <3>7. QED
      BY <2>3, <3>6
  <2>6. QED
    BY <2>3, <2>4, <2>5
<1>5. g[Len(es)]
  BY <1>1, <1>4
<1>6. QED
  BY <1>1, <1>2, <1>3, <1>5

-----------------------------------------------------------------------------
(* What comes of a report *)

\* The call with the core's name of it.
NamedBy(s, r) ==
    [s EXCEPT !.call.msg = r.msg, !.call.early = <<>>,
              !.call.state = IF @ = "starting" THEN "calling" ELSE @]

\* It goes on.
IsMoved(s, t) ==
    /\ t.host = s.host /\ t.tasks = s.tasks
    /\ t.call = [s.call EXCEPT !.state = t.call.state]
    /\ BusyIn(t.call) /\ (t.call.state = "ringing" <=> s.call.state = "ringing")

\* It is over.
IsOver(s, t) ==
    /\ t.tasks = s.tasks
    /\ t.call = [s.call EXCEPT !.state = "ended", !.reason = t.call.reason]
    /\ \A k \in Nums : t.host[k] = IF k = s.call.num THEN LetGo(s.host[k]) ELSE s.host[k]

LEMMA OverIs ==
    ASSUME NEW s \in State, NEW reason \in Reasons, BusyIn(s.call)
    PROVE  Finish(s, reason) \in State /\ IsOver(s, Finish(s, reason))
<1>1. PICK t : t = Finish(s, reason)
  OBVIOUS
<1>2. /\ t \in State /\ t.tasks = s.tasks
      /\ t.call = [s.call EXCEPT !.state = "ended", !.reason = reason]
      /\ \A k \in Nums : t.host[k] = IF k = s.call.num THEN LetGo(s.host[k]) ELSE s.host[k]
  <2>1. /\ Finish(s, reason) \in State
        /\ Finish(s, reason).tasks = s.tasks
        /\ Finish(s, reason).call = [s.call EXCEPT !.state = "ended", !.reason = reason]
        /\ \A k \in Nums : Finish(s, reason).host[k] =
                              IF k = s.call.num THEN LetGo(s.host[k]) ELSE s.host[k]
    BY FinishIs
  <2>2. QED
    BY <1>1, <2>1
<1>3. t.call.reason = reason
  BY <1>2 DEF State, Call
<1>4. t.call = [s.call EXCEPT !.state = "ended", !.reason = t.call.reason]
  BY <1>2, <1>3
<1>5. QED
  BY <1>1, <1>2, <1>4 DEF IsOver

LEMMA MovedIs ==
    ASSUME NEW s \in State, NEW state \in States, state \notin {"", "ended"},
           state = "ringing" <=> s.call.state = "ringing"
    PROVE  LET t == [s EXCEPT !.call.state = state] IN t \in State /\ IsMoved(s, t)
<1>1. PICK c : c = [s.call EXCEPT !.state = state]
  OBVIOUS
<1>2. c \in Call /\ c.state = state
  BY <1>1 DEF State, Call
<1>3. PICK t : t = [s EXCEPT !.call.state = state]
  OBVIOUS
<1>4. t \in State /\ t.call = c /\ t.host = s.host /\ t.tasks = s.tasks
  BY <1>1, <1>2, <1>3 DEF State
<1>5. t.call = [s.call EXCEPT !.state = t.call.state]
  BY <1>1, <1>2, <1>4
<1>6. QED
  BY <1>2, <1>3, <1>4, <1>5 DEF IsMoved, BusyIn

LEMMA NamedByIs ==
    ASSUME NEW s \in State, NEW r \in Report, BusyIn(s.call)
    PROVE  LET o == NamedBy(s, r) IN
           /\ o \in State /\ o.host = s.host /\ o.tasks = s.tasks
           /\ o.call.num = s.call.num /\ o.call.msg = r.msg /\ o.call.early = <<>>
           /\ o.call.incoming = s.call.incoming
           /\ BusyIn(o.call) /\ (o.call.state = "ringing" <=> s.call.state = "ringing")
<1>1. PICK st : st = IF s.call.state = "starting" THEN "calling" ELSE s.call.state
  OBVIOUS
<1>2. s.call \in Call /\ r.msg \in Msg /\ <<>> \in Seq(Event)
  <2>1. s.call \in Call
    BY DEF State
  <2>2. r.msg \in Msg
    BY DEF Report
  <2>3. QED
    BY <2>1, <2>2
<1>3. PICK c : c = [s.call EXCEPT !.msg = r.msg, !.early = <<>>, !.state = st]
  OBVIOUS
<1>4. st \in States /\ st \notin {"", "ended"} /\ (st = "ringing" <=> s.call.state = "ringing")
  BY <1>1, <1>2 DEF BusyIn, Call, States
<1>5. /\ c \in Call /\ c.num = s.call.num /\ c.msg = r.msg /\ c.early = <<>> /\ c.state = st
      /\ c.incoming = s.call.incoming
  BY <1>2, <1>3, <1>4 DEF Call
<1>6. NamedBy(s, r) = [s EXCEPT !.call = c]
  BY <1>1, <1>3 DEF NamedBy
<1>7. QED
  BY <1>4, <1>5, <1>6 DEF State, BusyIn

IsTaken(s, r, t) ==
    \/ r.kind = "placed" /\ IsFed(NamedBy(s, r), s.call.early, Len(s.call.early), t)
    \/ r.kind # "placed" /\ IsMoved(s, t)
    \/ r.kind # "placed" /\ IsOver(s, t)

LEMMA TakeIs ==
    ASSUME NEW s \in State, NEW r \in Report, BusyIn(s.call),
           r.kind = "placed" => /\ NamedState(NamedBy(s, r))
                                /\ \A i \in DOMAIN s.call.early :
                                      s.call.early[i].kind # "IncomingCall"
    PROVE  Take(s, r) \in State /\ IsTaken(s, r, Take(s, r))
<1>1. PICK t : t = Take(s, r)
  OBVIOUS
<1>2. /\ r.kind \in {"placed", "accepted", "connected", "disconnected", "gave up",
                     "ended by page", "failed"}
      /\ s.call.early \in Seq(Event) /\ s.call.state \in States /\ BusyIn(s.call)
  BY DEF Report, State, Call
<1>3. CASE r.kind = "placed"
  <2>1. t = HandleAll(NamedBy(s, r), s.call.early)
    BY <1>1, <1>3 DEF Take, NamedBy
  <2>2. IsFed(NamedBy(s, r), s.call.early, Len(s.call.early), t)
    BY <1>2, <1>3, <2>1, HandleAllIs
  <2>3. t \in State
    BY <2>2 DEF IsFed
  <2>4. QED
    BY <1>1, <1>3, <2>2, <2>3 DEF IsTaken
<1>4. ASSUME NEW state \in States, state \notin {"", "ended"}, r.kind # "placed",
             state = "ringing" <=> s.call.state = "ringing", t = [s EXCEPT !.call.state = state]
      PROVE  t \in State /\ IsTaken(s, r, t)
  <2>1. t \in State /\ IsMoved(s, t)
    BY <1>4, MovedIs
  <2>2. QED
    BY <1>4, <2>1 DEF IsTaken
<1>5. CASE r.kind = "accepted"
  <2>1. PICK st : st = IF s.call.state = "starting" THEN "connecting" ELSE s.call.state
    OBVIOUS
  <2>2. t = [s EXCEPT !.call.state = st]
    BY <1>1, <1>5, <2>1 DEF Take
  <2>3. st \in States /\ st \notin {"", "ended"} /\ (st = "ringing" <=> s.call.state = "ringing")
    BY <1>2, <2>1 DEF BusyIn, States
  <2>4. QED
    BY <1>1, <1>4, <1>5, <2>2, <2>3
<1>6. CASE r.kind = "connected"
  <2>1. PICK st : st = IF s.call.state # "ringing" THEN "connected" ELSE s.call.state
    OBVIOUS
  <2>2. t = [s EXCEPT !.call.state = st]
    BY <1>1, <1>6, <2>1 DEF Take
  <2>3. st \in States /\ st \notin {"", "ended"} /\ (st = "ringing" <=> s.call.state = "ringing")
    BY <1>2, <2>1 DEF BusyIn, States
  <2>4. QED
    BY <1>1, <1>4, <1>6, <2>2, <2>3
<1>7. CASE r.kind = "disconnected"
  <2>1. PICK st : st = IF s.call.state = "connected" THEN "reconnecting" ELSE s.call.state
    OBVIOUS
  <2>2. t = [s EXCEPT !.call.state = st]
    BY <1>1, <1>7, <2>1 DEF Take
  <2>3. st \in States /\ st \notin {"", "ended"} /\ (st = "ringing" <=> s.call.state = "ringing")
    BY <1>2, <2>1 DEF BusyIn, States
  <2>4. QED
    BY <1>1, <1>4, <1>7, <2>2, <2>3
<1>8. CASE r.kind = "gave up" /\ s.call.state = "ringing"
  <2>1. t = s
    BY <1>1, <1>8 DEF Take
  <2>2. s.call = [s.call EXCEPT !.state = s.call.state]
    BY DEF State, Call
  <2>3. QED
    BY <1>1, <1>8, <2>1, <2>2 DEF IsTaken, IsMoved
<1>9. CASE r.kind \in {"gave up", "ended by page", "failed"} /\ ~(r.kind = "gave up" /\ s.call.state = "ringing")
  <2>1. t = Finish(s, Reason(r))
    BY <1>1, <1>9 DEF Take
  <2>2. Reason(r) \in Reasons
    BY DEF Reason, Reasons
  <2>3. t \in State /\ IsOver(s, t)
    BY <2>1, <2>2, OverIs
  <2>4. QED
    BY <1>1, <1>9, <2>3 DEF IsTaken
<1>10. QED
  BY <1>2, <1>3, <1>5, <1>6, <1>7, <1>8, <1>9

-----------------------------------------------------------------------------
(* The inductive invariant: what fits what *)

\* A host that no page has asked anything of.
Untouched(h) ==
    /\ h.place = "no" /\ h.accept = "no" /\ h.page = "no" /\ h.drop = "no"
    /\ h.ending_call = "no" /\ ~h.ended /\ ~h.ending /\ ~h.answered /\ h.made = 0

\* How far a host's tasks may be, and which call it is for.
HostFits(h) ==
    /\ h.stage \notin {"held", "dropped"} => Untouched(h)
    /\ h.stage = "dropped" <=> h.drop # "no"
    /\ (h.stage = "dropped" \/ h.page # "no" \/ h.place = "ending") => h.ending
    /\ h.place \in {"no", "asked"} => h.made = 0
    /\ h.place \in {"asked", "made"} => h.msg = 0
    /\ h.place \in {"made", "stored", "ending"} => h.made \in Ids
    /\ h.place \in {"stored", "ending"} => h.msg = h.made
    /\ h.place = "done" => h.msg \in {0, h.made}
    /\ h.accept # "no" => h.msg \in Ids /\ h.place = "no"
    /\ h.ending_call = "place" => h.place = "ending"
    /\ h.ending_call = "page" => h.page = "ending"
    /\ h.ending_call = "drop" => h.drop = "ending"
    /\ h.ending_call # "no" => h.ended
    /\ h.ended => h.msg \in Ids
    /\ h.quiet /\ h.stage # "none" => h.msg \in Ids

Running == {"starting", "started", "failed", "held"}

\* A call that rings has no host yet; any other the app is in has one, of the same call.
CallFits ==
    /\ call.num = 0 => call.state = "" /\ call.msg = 0 /\ ~call.incoming
    /\ call.incoming => call.msg \in Ids
    /\ call.state = "ringing" => call.incoming /\ host[call.num] = NoHost
    /\ Busy /\ call.state # "ringing" => host[call.num].stage \in Running
    /\ call.num > 0 /\ call.incoming =>
         /\ host[call.num].stage # "none" => host[call.num].msg = call.msg
         /\ host[call.num].msg \in {0, call.msg}
         /\ host[call.num].place = "no"
    /\ call.num > 0 /\ ~call.incoming =>
         /\ host[call.num].accept = "no"
         /\ host[call.num].place = "no" => host[call.num].msg = 0
         /\ call.msg # 0 => /\ call.msg = host[call.num].msg
                            /\ host[call.num].place = "done"
    /\ call.early # <<>> => call.msg = 0 /\ ~call.incoming
    /\ \A i \in DOMAIN call.early : call.early[i].kind # "IncomingCall"

\* No call has a host before it is begun, or holds one when it is not the app's.
Hosts ==
    \A n \in Nums : /\ HostFits(host[n])
                    /\ n > call.num => host[n] = NoHost
                    /\ host[n].stage = "held" => Current(n)

\* A report of a call placed is of the host's.
ReportsFit ==
    \A r \in reports :
        /\ r.num <= call.num
        /\ r.kind = "placed" => /\ r.msg \in Ids /\ r.msg = host[r.num].msg
                                /\ host[r.num].place = "done"

World == CallFits /\ Hosts /\ ReportsFit

TypeInv == TypeOK /\ World

LEMMA NoHostFits == HostFits(NoHost)
BY DEF HostFits, NoHost, Untouched

LEMMA DropFits ==
    ASSUME NEW h \in Host, HostFits(h), h.stage = "held"
    PROVE  HostFits(Drop(h))
BY DropHost DEF HostFits

LEMMA SettledFits ==
    ASSUME NEW h \in Host, HostFits(h), h.stage # "none" => h.msg \in Ids
    PROVE  HostFits(Settled(h))
<1>1. h.stage \notin {"held", "dropped"} => Untouched(Settled(h))
  BY SettledHost DEF HostFits, Untouched
<1>2. QED
  BY <1>1, SettledHost DEF HostFits

LEMMA LetGoFits ==
    ASSUME NEW h \in Host, HostFits(h)
    PROVE  /\ LetGo(h) \in Host /\ HostFits(LetGo(h)) /\ LetGo(h).stage # "held"
           /\ LetGo(h).msg = h.msg /\ LetGo(h).made = h.made /\ LetGo(h).place = h.place
           /\ LetGo(h).accept = h.accept
           /\ LetGo(h).stage = "none" <=> h.stage = "none"
BY DropHost, DropFits DEF LetGo

\* The host of the call, when it is over or another device's.
LEMMA HostOver ==
    ASSUME TypeOK, World, call.num \in Nums, Busy,
           NEW h, h = host[call.num] \/ (h = Settled(host[call.num]) /\ call.msg \in Ids)
    PROVE  /\ h \in Host /\ HostFits(h)
           /\ h.msg = host[call.num].msg /\ h.made = host[call.num].made
           /\ h.place = host[call.num].place /\ h.accept = host[call.num].accept
           /\ h.stage = host[call.num].stage
<1>1. PICK g : g = host[call.num]
  OBVIOUS
<1>2. g \in Host /\ HostFits(g) /\ call \in Call
  BY <1>1 DEF TypeOK, World, Hosts
<1>3. CASE h = g
  BY <1>1, <1>2, <1>3
<1>4. CASE h = Settled(g) /\ call.msg \in Ids
  <2>1. call.msg # 0 /\ call.num > 0
    BY <1>4, NumsNat DEF Nums
  <2>2. g.stage # "none" => g.msg \in Ids
    BY <1>1, <1>2, <1>4, <2>1 DEF World, CallFits, Call
  <2>3. QED
    BY <1>1, <1>2, <1>4, <2>2, SettledFits, SettledHost
<1>5. QED
  BY <1>1, <1>3, <1>4

-----------------------------------------------------------------------------
(* What keeps World *)

LEMMA CurrentIs ==
    ASSUME TypeOK, NEW n \in Nums
    PROVE  /\ Current(n) <=> n = call.num /\ Busy
           /\ call.num \in 0..MaxCalls /\ (call.num > 0 <=> call.num \in Nums)
<1>1. call \in Call
  BY DEF TypeOK
<1>2. call.num \in 0..MaxCalls
  BY <1>1 DEF Call
<1>3. QED
  BY <1>2, NumsNat DEF Current, Nums

LEMMA BusyNum ==
    ASSUME TypeOK, World, Busy
    PROVE  call.num \in Nums
<1>1. call.num \in 0..MaxCalls
  BY DEF TypeOK, Call
<1>2. call.num # 0
  BY DEF World, CallFits, Busy, BusyIn
<1>3. QED
  BY <1>1, <1>2, NumsNat DEF Nums

\* The call fits its host, spelled out for the next state.
LEMMA CallFitsNext ==
    ASSUME NEW n, n # 0, call'.num = n,
           call'.incoming => call'.msg \in Ids,
           call'.state = "ringing" => call'.incoming /\ host'[n] = NoHost,
           Busy' /\ call'.state # "ringing" => host'[n].stage \in Running,
           call'.incoming => /\ host'[n].stage # "none" => host'[n].msg = call'.msg
                             /\ host'[n].msg \in {0, call'.msg}
                             /\ host'[n].place = "no",
           ~call'.incoming =>
             /\ host'[n].accept = "no"
             /\ host'[n].place = "no" => host'[n].msg = 0
             /\ call'.msg # 0 => call'.msg = host'[n].msg /\ host'[n].place = "done",
           call'.early # <<>> => call'.msg = 0 /\ ~call'.incoming,
           \A i \in DOMAIN call'.early : call'.early[i].kind # "IncomingCall"
    PROVE  CallFits'
BY DEF CallFits

\* The app's call is over.
LEMMA OverWorld ==
    ASSUME TypeOK, World, Busy,
           call' = [call EXCEPT !.state = "ended", !.reason = call'.reason],
           NEW h, h = host[call.num] \/ (h = Settled(host[call.num]) /\ call.msg \in Ids),
           host' \in [Nums -> Host],
           \A k \in Nums : host'[k] = IF k = call.num THEN LetGo(h) ELSE host[k],
           reports' \subseteq reports
    PROVE  World'
<1>1. call.num \in Nums /\ call.num > 0 /\ call.num # 0
  BY BusyNum, NumsNat DEF Nums
<1>2. PICK n \in Nums : n = call.num
  BY <1>1
<1>3. /\ h \in Host /\ HostFits(h)
      /\ h.msg = host[n].msg /\ h.made = host[n].made /\ h.place = host[n].place
      /\ h.accept = host[n].accept /\ h.stage = host[n].stage
  BY <1>1, <1>2, HostOver
<1>4. PICK g : g = LetGo(h)
  OBVIOUS
<1>5. /\ g \in Host /\ HostFits(g) /\ g.stage # "held"
      /\ g.msg = host[n].msg /\ g.made = host[n].made /\ g.place = host[n].place
      /\ g.accept = host[n].accept /\ (g.stage = "none" <=> host[n].stage = "none")
  BY <1>3, <1>4, LetGoFits
<1>6. host'[n] = g /\ \A k \in Nums : k # n => host'[k] = host[k]
  BY <1>2, <1>4
<1>7. /\ call'.num = n /\ call'.state = "ended" /\ call'.msg = call.msg
      /\ call'.incoming = call.incoming /\ call'.early = call.early
  BY <1>2 DEF TypeOK, Call
<1>8. ~Busy'
  BY <1>7 DEF Busy, BusyIn
<1>9. CallFits'
  <2>1. call.incoming => /\ host[n].stage # "none" => host[n].msg = call.msg
                         /\ host[n].msg \in {0, call.msg}
                         /\ host[n].place = "no"
    BY <1>1, <1>2 DEF World, CallFits
  <2>2. ~call.incoming => /\ host[n].accept = "no"
                          /\ host[n].place = "no" => host[n].msg = 0
                          /\ call.msg # 0 => call.msg = host[n].msg /\ host[n].place = "done"
    BY <1>1, <1>2 DEF World, CallFits
  <2>3. /\ call.incoming => call.msg \in Ids
        /\ call.early # <<>> => call.msg = 0 /\ ~call.incoming
    BY DEF World, CallFits
  <2>4. n > 0 /\ n # 0 /\ host'[n] = g
    BY <1>1, <1>2, <1>6
  <2>5. QED
    <3>1. call'.early # <<>> => call'.msg = 0 /\ ~call'.incoming
      BY <1>7, <2>3
    <3>2. call'.incoming => call'.msg \in Ids
      BY <1>7, <2>3
    <3>3. call'.incoming => /\ host'[n].stage # "none" => host'[n].msg = call'.msg
                            /\ host'[n].msg \in {0, call'.msg}
                            /\ host'[n].place = "no"
      BY <1>5, <1>7, <2>1, <2>4
    <3>4. ~call'.incoming =>
            /\ host'[n].accept = "no"
            /\ host'[n].place = "no" => host'[n].msg = 0
            /\ call'.msg # 0 => call'.msg = host'[n].msg /\ host'[n].place = "done"
      BY <1>5, <1>7, <2>2, <2>4
    <3>5. call'.num = n /\ call'.num # 0 /\ call'.num > 0 /\ call'.state # "ringing"
      BY <1>7, <2>4
    <3>6. \A i \in DOMAIN call'.early : call'.early[i].kind # "IncomingCall"
      <4>1. \A i \in DOMAIN call.early : call.early[i].kind # "IncomingCall"
        BY DEF World, CallFits
      <4>2. call'.early = call.early
        BY <1>7
      <4>3. QED
        BY Zenon, <4>1, <4>2
    <3>7. QED
      BY <1>8, <3>1, <3>2, <3>3, <3>4, <3>5, <3>6, CallFitsNext
<1>10. Hosts'
  <2>1. ASSUME NEW k \in Nums
        PROVE  HostFits(host'[k]) /\ (k > n => host'[k] = NoHost) /\ host'[k].stage # "held"
    <3>1. CASE k = n
      BY <1>2, <1>5, <1>6, <3>1, NumsNat
    <3>2. CASE k # n
      BY <1>2, <1>6, <3>2 DEF World, Hosts, Current
    <3>3. QED
      BY <3>1, <3>2
  <2>2. QED
    BY <1>7, <2>1 DEF Hosts
<1>11. ReportsFit'
  <2>1. ASSUME NEW r \in reports'
        PROVE  /\ r.num <= n
               /\ r.kind = "placed" => /\ r.msg \in Ids /\ r.msg = host'[r.num].msg
                                       /\ host'[r.num].place = "done"
    <3>1. r \in reports /\ r.num \in Nums
      BY <2>1 DEF TypeOK, Report
    <3>2. host'[r.num].msg = host[r.num].msg /\ host'[r.num].place = host[r.num].place
      BY <1>5, <1>6, <3>1
    <3>3. QED
      BY <1>2, <3>1, <3>2 DEF World, ReportsFit
  <2>2. QED
    BY <1>7, <2>1 DEF ReportsFit
<1>12. QED
  BY <1>9, <1>10, <1>11 DEF World

\* Its state moves on, while it is the app's; or it is put away.
LEMMA MovedWorld ==
    ASSUME TypeOK, World, host' = host,
           call' = [call EXCEPT !.state = call'.state, !.reason = call'.reason],
           Busy' <=> Busy, call'.state = "ringing" <=> call.state = "ringing",
           call.num > 0 \/ call'.state = call.state,
           reports' \subseteq reports
    PROVE  World'
<1>1. /\ call'.num = call.num /\ call'.msg = call.msg
      /\ call'.incoming = call.incoming /\ call'.early = call.early
  BY DEF TypeOK, Call
<1>2. call.num = 0 => call'.state = call.state
  BY NumsNat DEF TypeOK, Call
<1>3. CallFits'
  BY <1>1, <1>2 DEF World, CallFits
<1>4. Hosts'
  BY <1>1 DEF World, Hosts, Current
<1>5. ReportsFit'
  BY <1>1 DEF World, ReportsFit
<1>6. QED
  BY <1>3, <1>4, <1>5 DEF World

LEMMA NoEntries == DOMAIN <<>> = {}
OBVIOUS

LEMMA NextNum ==
    ASSUME NEW c \in 0..MaxCalls, c < MaxCalls
    PROVE  /\ c + 1 \in Nums /\ c + 1 # 0 /\ c + 1 > 0 /\ c + 1 > c
           /\ \A k \in Nums : (k > c + 1 => k > c) /\ (k <= c => k <= c + 1)
<1>1. MaxCalls \in Nat
  BY NumsNat
<1>2. QED
  BY <1>1 DEF Nums

\* A call comes in.
LEMMA RungWorld ==
    ASSUME TypeOK, World, host' = host, ~Busy, call.num < MaxCalls,
           NEW m \in Ids,
           call' = [num |-> call.num + 1, state |-> "ringing", reason |-> "",
                    msg |-> m, incoming |-> TRUE, early |-> <<>>],
           reports' \subseteq reports
    PROVE  World'
<1>1. PICK c \in 0..MaxCalls : c = call.num /\ c < MaxCalls
  BY DEF TypeOK, Call
<1>2. /\ c + 1 \in Nums /\ c + 1 # 0 /\ c + 1 > 0 /\ c + 1 > c
      /\ \A k \in Nums : (k > c + 1 => k > c) /\ (k <= c => k <= c + 1)
  BY <1>1, NextNum
<1>3. PICK n \in Nums : n = c + 1 /\ n # 0 /\ n > 0 /\ n > c
  BY <1>2
<1>4. /\ call'.num = n /\ call'.state = "ringing" /\ call'.msg = m /\ call'.incoming
      /\ call'.early = <<>>
  BY <1>1, <1>3
<1>5. host[n] = NoHost
  BY <1>1, <1>3 DEF World, Hosts
<1>6. host'[n] = NoHost /\ NoHost.stage = "none" /\ NoHost.msg = 0 /\ NoHost.place = "no"
  BY <1>5 DEF NoHost
<1>7. CallFits'
  <2>1. DOMAIN <<>> = {}
    BY NoEntries
  <2>2. QED
    BY <1>3, <1>4, <1>6, <2>1 DEF CallFits, Busy
<1>8. \A k \in Nums : host[k].stage # "held"
  BY DEF World, Hosts, Current
<1>9. Hosts'
  <2>1. ASSUME NEW k \in Nums, k > n PROVE k > c
    BY <1>2, <1>3, <2>1
  <2>2. \A k \in Nums : k > n => host'[k] = NoHost
    BY <1>1, <2>1 DEF World, Hosts
  <2>3. \A k \in Nums : HostFits(host'[k]) /\ host'[k].stage # "held"
    BY <1>8 DEF World, Hosts
  <2>4. QED
    BY <1>4, <2>2, <2>3 DEF Hosts
<1>10. ReportsFit'
  <2>1. ASSUME NEW r \in reports' PROVE r.num <= n
    <3>1. r \in reports /\ r.num \in Nums
      BY <2>1 DEF TypeOK, Report
    <3>2. r.num <= c
      BY <1>1, <3>1 DEF World, ReportsFit
    <3>3. QED
      BY <1>2, <1>3, <3>1, <3>2
  <2>2. QED
    BY <1>4, <2>1 DEF World, ReportsFit
<1>11. QED
  BY <1>7, <1>9, <1>10 DEF World

\* One host goes on.
GoesOn(n, h) ==
    LET g == host[n] IN
    /\ h \in Host /\ HostFits(h) /\ g.stage # "none" /\ h.stage # "none"
    /\ h.stage = "held" => Current(n)
    /\ Current(n) => h.stage \in Running
    /\ h.msg = g.msg \/ g.place \notin {"no", "done"}
    /\ g.place = "done" => h.place = "done"
    /\ h.place # "no" => g.place # "no" \/ (Current(n) /\ ~call.incoming)
    /\ g.place # "no" => h.place # "no"
    /\ h.accept # "no" => g.accept # "no" \/ (Current(n) /\ call.incoming)

LEMMA HostWorld ==
    ASSUME TypeOK, World, call' = call, NEW n \in Nums, NEW h, GoesOn(n, h),
           host' = [host EXCEPT ![n] = h],
           \A r \in reports' \ reports :
              /\ r.num = n
              /\ r.kind = "placed" => r.msg = h.msg /\ h.place = "done" /\ h.msg \in Ids
    PROVE  World'
<1>1. host'[n] = h /\ \A k \in Nums : k # n => host'[k] = host[k]
  BY DEF TypeOK
<1>2. n <= call.num /\ n > 0 /\ call.num \in 0..MaxCalls /\ call \in Call
  <2>1. call.num \in 0..MaxCalls /\ call \in Call
    BY DEF TypeOK, Call
  <2>2. host[n] # NoHost
    BY DEF GoesOn, NoHost
  <2>3. ~(n > call.num)
    BY <2>2 DEF World, Hosts
  <2>4. QED
    BY <2>1, <2>3, NumsNat DEF Nums
<1>3. CallFits'
  <2>1. CASE n # call.num
    <3>1. call.num = 0 \/ call.num \in Nums
      BY <1>2, NumsNat DEF Nums
    <3>2. call.num > 0 => host'[call.num] = host[call.num]
      BY <1>1, <2>1, <3>1
    <3>3. call.num = 0 => call.state = ""
      BY DEF World, CallFits
    <3>4. Busy => call.num > 0
      <4>1. Busy => call.num # 0
        BY <3>3 DEF Busy, BusyIn
      <4>2. QED
        BY <1>2, <4>1, NumsNat
    <3>5. call.state = "ringing" => Busy
      BY DEF Busy, BusyIn
    <3>6. QED
      BY <3>2, <3>4, <3>5 DEF World, CallFits, Busy
  <2>2. CASE n = call.num
    <3>1. PICK g : g = host[n]
      OBVIOUS
    <3>2. call.num # 0 /\ call.num > 0
      BY <1>2, <2>2, NumsNat
    <3>3. call.state # "ringing"
      <4>1. call.state = "ringing" => host[n] = NoHost
        BY <2>2 DEF World, CallFits
      <4>2. host[n] # NoHost
        BY DEF GoesOn, NoHost
      <4>3. QED
        BY <4>1, <4>2
    <3>4. Busy => h.stage \in Running
      BY <2>2 DEF GoesOn, Current
    <3>5. CASE call.incoming
      <4>1. g.msg \in {0, call.msg} /\ (g.stage # "none" => g.msg = call.msg) /\ g.place = "no"
        BY <2>2, <3>1, <3>2, <3>5 DEF World, CallFits
      <4>2. h.msg = g.msg /\ h.place = "no"
        BY <3>1, <3>5, <4>1 DEF GoesOn
      <4>3. g.stage = "none" => g.msg \in {0, call.msg}
        BY <4>1
      <4>4. call.msg \in Ids
        BY <3>5 DEF World, CallFits
      <4>5. g.stage # "none"
        BY <3>1 DEF GoesOn
      <4>6. QED
        BY <1>1, <2>2, <3>2, <3>3, <3>4, <3>5, <4>1, <4>2, <4>4, <4>5
           DEF World, CallFits, Busy
    <3>6. CASE ~call.incoming
      <4>1. /\ g.accept = "no" /\ (g.place = "no" => g.msg = 0)
            /\ call.msg # 0 => call.msg = g.msg /\ g.place = "done"
        BY <2>2, <3>1, <3>2, <3>6 DEF World, CallFits
      <4>2. h.accept = "no" /\ (call.msg # 0 => call.msg = h.msg /\ h.place = "done")
        BY <3>1, <3>6, <4>1 DEF GoesOn
      <4>3. h.place = "no" => h.msg = 0
        BY <3>1, <4>1 DEF GoesOn
      <4>4. QED
        BY <1>1, <2>2, <3>2, <3>3, <3>4, <3>6, <4>2, <4>3 DEF World, CallFits, Busy
    <3>7. QED
      BY <3>5, <3>6
  <2>3. QED
    BY <2>1, <2>2
<1>4. Hosts'
  <2>1. ASSUME NEW k \in Nums
        PROVE  HostFits(host'[k]) /\ (k > call.num => host'[k] = NoHost)
               /\ (host'[k].stage = "held" => Current(k))
    <3>1. CASE k = n
      BY <1>1, <1>2, <3>1, NumsNat DEF GoesOn
    <3>2. CASE k # n
      BY <1>1, <3>2 DEF World, Hosts
    <3>3. QED
      BY <3>1, <3>2
  <2>2. Busy' <=> Busy
    BY DEF Busy
  <2>3. QED
    BY <2>1, <2>2 DEF Hosts, Current
<1>5. ReportsFit'
  <2>1. ASSUME NEW r \in reports'
        PROVE  /\ r.num <= call.num
               /\ r.kind = "placed" => /\ r.msg \in Ids /\ r.msg = host'[r.num].msg
                                       /\ host'[r.num].place = "done"
    <3>1. CASE r \in reports
      <4>1. r.num \in Nums
        BY <3>1 DEF TypeOK, Report
      <4>2. host[n].place = "done" => h.place = "done" /\ h.msg = host[n].msg
        BY DEF GoesOn
      <4>3. QED
        BY <1>1, <3>1, <4>1, <4>2 DEF World, ReportsFit
    <3>2. CASE r \notin reports
      BY <1>1, <1>2, <3>2
    <3>3. QED
      BY <3>1, <3>2
  <2>2. QED
    BY <2>1 DEF ReportsFit
<1>6. QED
  BY <1>3, <1>4, <1>5 DEF World

\* An event is kept for the call to be named.
LEMMA KeptWorld ==
    ASSUME TypeOK, World, host' = host, Unnamed(call),
           call' = [call EXCEPT !.early = call'.early],
           NEW e \in Event, e.kind # "IncomingCall",
           call'.early \in {call.early, Append(call.early, e)},
           reports' \subseteq reports
    PROVE  World'
<1>1. /\ call'.num = call.num /\ call'.msg = call.msg /\ call'.state = call.state
      /\ call'.incoming = call.incoming
  BY DEF TypeOK, Call
<1>2. ~call.incoming /\ call.msg = 0 /\ Busy
  BY DEF Unnamed, Busy
<1>3. call.early \in Seq(Event) /\ \A i \in DOMAIN call.early : call.early[i].kind # "IncomingCall"
  BY DEF World, CallFits, TypeOK, Call
<1>4. \A i \in DOMAIN call'.early : call'.early[i].kind # "IncomingCall"
  <2>1. CASE call'.early = call.early
    BY <1>3, <2>1
  <2>2. CASE call'.early = Append(call.early, e)
    <3>1. ASSUME NEW i \in DOMAIN call'.early
          PROVE  call'.early[i] = e \/ (i \in DOMAIN call.early /\ call'.early[i] = call.early[i])
      BY <1>3, <2>2, <3>1
    <3>2. QED
      BY <1>3, <3>1
  <2>3. QED
    BY <2>1, <2>2
<1>5. call.num > 0 /\ call.num # 0
  BY <1>2, BusyNum, NumsNat DEF Nums
<1>6. CallFits'
  BY <1>1, <1>2, <1>4, <1>5 DEF World, CallFits, Busy, BusyIn
<1>7. Hosts'
  BY <1>1 DEF World, Hosts, Current, Busy, BusyIn
<1>8. ReportsFit'
  BY <1>1 DEF World, ReportsFit
<1>9. QED
  BY <1>6, <1>7, <1>8 DEF World

LEMMA AnsweredFits ==
    ASSUME NEW h \in Host, HostFits(h), NEW a \in BOOLEAN, h.stage # "held" => a = h.answered
    PROVE  /\ [h EXCEPT !.answered = a] \in Host /\ HostFits([h EXCEPT !.answered = a])
<1>1. PICK g : g = [h EXCEPT !.answered = a]
  OBVIOUS
<1>2. /\ g \in Host
      /\ g.answered = a /\ g.quiet = h.quiet /\ g.ended = h.ended
      /\ g.stage = h.stage /\ g.ending = h.ending
      /\ g.drop = h.drop
      /\ g.msg = h.msg /\ g.made = h.made
      /\ g.place = h.place /\ g.accept = h.accept
      /\ g.page = h.page
      /\ g.ending_call = h.ending_call
  BY <1>1, AnsweredHost
<1>3. g.stage \notin {"held", "dropped"} => Untouched(g)
  BY <1>2 DEF HostFits, Untouched
<1>4. HostFits(g)
  BY <1>2, <1>3 DEF HostFits
<1>5. QED
  BY <1>1, <1>2, <1>4

\* Some hosts go on, each for its call as before.
LEMMA SameForWorld ==
    ASSUME TypeOK, World,
           call' = [call EXCEPT !.state = call'.state, !.reason = call'.reason],
           Busy' <=> Busy, call'.state = "ringing" <=> call.state = "ringing", call.num > 0,
           \A k \in Nums : /\ HostFits(host'[k])
                           /\ host'[k] = host[k] \/ host[k] # NoHost
                           /\ host'[k].stage = host[k].stage
                           /\ host'[k].msg = host[k].msg /\ host'[k].place = host[k].place
                           /\ host'[k].accept = host[k].accept,
           reports' \subseteq reports
    PROVE  World'
<1>1. /\ call'.num = call.num /\ call'.msg = call.msg
      /\ call'.incoming = call.incoming /\ call'.early = call.early
  BY DEF TypeOK, Call
<1>2. call.num # 0 /\ call.num \in Nums
  BY NumsNat DEF TypeOK, Call, Nums
<1>3. PICK n \in Nums : n = call.num
  BY <1>2
<1>4. CallFits'
  <2>1. call'.state = "ringing" => host'[n] = NoHost
    BY <1>3 DEF World, CallFits
  <2>2. /\ host'[n].stage = host[n].stage /\ host'[n].msg = host[n].msg
        /\ host'[n].place = host[n].place /\ host'[n].accept = host[n].accept
    OBVIOUS
  <2>3. /\ call.incoming => call.msg \in Ids
        /\ call.state = "ringing" => call.incoming
        /\ call.early # <<>> => call.msg = 0 /\ ~call.incoming
    BY DEF World, CallFits
  <2>4. Busy /\ call.state # "ringing" => host[n].stage \in Running
    BY <1>3 DEF World, CallFits
  <2>5. call.incoming => /\ host[n].stage # "none" => host[n].msg = call.msg
                         /\ host[n].msg \in {0, call.msg}
                         /\ host[n].place = "no"
    BY <1>3 DEF World, CallFits
  <2>6. ~call.incoming => /\ host[n].accept = "no"
                          /\ host[n].place = "no" => host[n].msg = 0
                          /\ call.msg # 0 => call.msg = host[n].msg /\ host[n].place = "done"
    BY <1>3 DEF World, CallFits
  <2>7. QED
    <3>1. n # 0 /\ n > 0
      BY <1>2, <1>3
    <3>2. call'.num = n /\ call'.msg = call.msg /\ call'.incoming = call.incoming
      BY <1>1, <1>3
    <3>3. Busy' /\ call'.state # "ringing" => host'[n].stage \in Running
      BY <2>2, <2>4
    <3>4. call'.early # <<>> => call'.msg = 0 /\ ~call'.incoming
      BY <1>1, <2>3
    <3>5. call'.incoming => call'.msg \in Ids
      BY <1>1, <2>3
    <3>6. call'.incoming => /\ host'[n].stage # "none" => host'[n].msg = call'.msg
                            /\ host'[n].msg \in {0, call'.msg}
                            /\ host'[n].place = "no"
      BY <2>2, <2>5, <3>2
    <3>7. ~call'.incoming =>
            /\ host'[n].accept = "no"
            /\ host'[n].place = "no" => host'[n].msg = 0
            /\ call'.msg # 0 => call'.msg = host'[n].msg /\ host'[n].place = "done"
      BY <2>2, <2>6, <3>2
    <3>8. call'.state = "ringing" => call'.incoming /\ host'[n] = NoHost
      BY <2>1, <2>3, <3>2
    <3>9. \A i \in DOMAIN call'.early : call'.early[i].kind # "IncomingCall"
      <4>1. \A i \in DOMAIN call.early : call.early[i].kind # "IncomingCall"
        BY DEF World, CallFits
      <4>2. call'.early = call.early
        BY <1>1
      <4>3. QED
        BY Zenon, <4>1, <4>2
    <3>10. QED
      BY <3>1, <3>2, <3>3, <3>4, <3>5, <3>6, <3>7, <3>8, <3>9, CallFitsNext
<1>5. Hosts'
  <2>1. \A k \in Nums : k > call.num => host'[k] = NoHost
    BY DEF World, Hosts
  <2>2. QED
    BY <1>1, <2>1 DEF World, Hosts, Current
<1>6. ReportsFit'
  <2>1. \A r \in reports : r.num \in Nums
    BY DEF TypeOK, Report
  <2>2. QED
    BY <1>1, <2>1 DEF World, ReportsFit
<1>7. QED
  BY <1>4, <1>5, <1>6 DEF World

\* The other end answers.
LEMMA AnsweredWorld ==
    ASSUME TypeOK, World, NEW e \in Event, Now' \in State, IsAnswered(Now, e, Now'),
           reports' \subseteq reports
    PROVE  World'
<1>1. Now.call = call /\ Now.host = host /\ Now.tasks = tasks /\ Now \in State /\ call \in Call
  BY NowIsState DEF TypeOK
<1>2. Now'.call = call' /\ Now'.host = host'
  BY DEF Now
<1>3. /\ call' = [call EXCEPT !.state = call'.state]
      /\ call'.state = IF call.state = "calling" THEN "connecting" ELSE call.state
      /\ \A k \in Nums : host'[k] =
            IF k = call.num THEN [host[k] EXCEPT !.answered = @ \/ host[k].stage = "held"]
            ELSE host[k]
      /\ call.msg \in Ids
  BY <1>1, <1>2 DEF IsAnswered, AnswersIt, Event
<1>4. call' = [call EXCEPT !.state = call'.state, !.reason = call'.reason]
  BY <1>1, <1>3 DEF Call
<1>5. call.num > 0
  <2>1. call.msg # 0
    BY <1>3, NumsNat
  <2>2. call.num # 0
    BY <2>1 DEF World, CallFits
  <2>3. call.num \in 0..MaxCalls
    BY <1>1 DEF Call
  <2>4. QED
    BY <2>2, <2>3, NumsNat
<1>6. ASSUME NEW k \in Nums
      PROVE  /\ HostFits(host'[k])
             /\ host'[k] = host[k] \/ host[k] # NoHost
             /\ host'[k].stage = host[k].stage
             /\ host'[k].msg = host[k].msg /\ host'[k].place = host[k].place
             /\ host'[k].accept = host[k].accept
  <2>1. PICK h : h = host[k]
    OBVIOUS
  <2>2. h \in Host /\ HostFits(h)
    BY <2>1 DEF TypeOK, World, Hosts
  <2>3. CASE k # call.num
    BY <1>3, <2>1, <2>2, <2>3
  <2>4. CASE k = call.num
    <3>1. PICK a \in BOOLEAN : a = (h.answered \/ h.stage = "held")
      OBVIOUS
    <3>2. host'[k] = [h EXCEPT !.answered = a]
      BY <1>3, <2>1, <2>4, <3>1
    <3>3. h.stage # "held" => a = h.answered
      BY <2>2, <3>1 DEF Host
    <3>4. HostFits(host'[k])
      BY <2>2, <3>2, <3>3, AnsweredFits
    <3>5. /\ host'[k].stage = h.stage
          /\ host'[k].msg = h.msg /\ host'[k].place = h.place
          /\ host'[k].accept = h.accept
      BY <2>2, <3>2, AnsweredHost
    <3>6. h = NoHost => host'[k] = h
      <4>1. h = NoHost => a = h.answered
        BY <3>3 DEF NoHost
      <4>2. [h EXCEPT !.answered = h.answered] = h
        BY <2>2 DEF Host
      <4>3. QED
        BY <3>2, <4>1, <4>2
    <3>7. QED
      BY <2>1, <3>4, <3>5, <3>6
  <2>5. QED
    BY <2>3, <2>4
<1>7. (Busy' <=> Busy) /\ (call'.state = "ringing" <=> call.state = "ringing")
  BY <1>3 DEF Busy, BusyIn
<1>8. QED
  BY <1>4, <1>5, <1>6, <1>7, SameForWorld

\* The report that names the call is of a call placed, whose host is up.
LEMMA NamedByPlaced ==
    ASSUME TypeOK, World, NEW r \in reports, r.kind = "placed", Current(r.num)
    PROVE  /\ NamedState(NamedBy(Now, r)) /\ r.num = call.num /\ Busy
           /\ r.msg \in Ids /\ r.msg = host[r.num].msg /\ host[r.num].place = "done"
           /\ ~call.incoming /\ host[r.num].stage = "held" /\ call.state # "ringing"
           /\ r.num \in Nums /\ r \in Report
<1>1. Now.call = call /\ Now.host = host /\ Now.tasks = tasks /\ Now \in State /\ call \in Call
  BY NowIsState DEF TypeOK
<1>2. r \in Report /\ r.num \in Nums
  BY DEF TypeOK, Report
<1>3. r.num = call.num /\ Busy /\ BusyIn(Now.call)
  BY <1>1 DEF Current, Busy
<1>4. r.msg \in Ids /\ r.msg = host[r.num].msg /\ host[r.num].place = "done"
  BY DEF World, ReportsFit
<1>5. PICK n \in Nums : n = r.num /\ n > 0
  BY <1>2, NumsNat DEF Nums
<1>6. call.state # "ringing"
  <2>1. NoHost.place # "done"
    BY DEF NoHost
  <2>2. QED
    BY <1>3, <1>4, <2>1 DEF World, CallFits
<1>7. host[n].stage = "held"
  <2>1. host[n].stage \in Running
    BY <1>3, <1>5, <1>6 DEF World, CallFits
  <2>2. HostFits(host[n]) /\ host[n].place = "done"
    BY <1>4, <1>5 DEF World, Hosts
  <2>3. QED
    BY <2>1, <2>2 DEF HostFits, Untouched, Running
<1>8. ~call.incoming
  BY <1>3, <1>4, <1>5 DEF World, CallFits
<1>9. PICK o : o = NamedBy(Now, r)
  OBVIOUS
<1>10. /\ o \in State /\ o.host = host
       /\ o.call.num = call.num /\ o.call.msg = r.msg
       /\ o.call.incoming = call.incoming
       /\ BusyIn(o.call) /\ (o.call.state = "ringing" <=> call.state = "ringing")
  BY <1>1, <1>2, <1>3, <1>9, NamedByIs
<1>11. NamedState(o)
  BY <1>3, <1>4, <1>5, <1>6, <1>7, <1>8, <1>10 DEF NamedState
<1>12. QED
  BY <1>2, <1>3, <1>4, <1>5, <1>6, <1>7, <1>8, <1>9, <1>11

\* What became of the call once it was named, in the app's own terms.
IsNamed(r) ==
    LET n == r.num IN
    /\ tasks' = tasks
    /\ call'.num = n /\ call'.msg = r.msg /\ ~call'.incoming /\ call'.early = <<>>
    /\ \A j \in Nums : j # n => host'[j] = host[j]
    /\ \E a \in BOOLEAN :
          /\ host[n].answered => a
          /\ \/ /\ Busy' /\ call'.state # "ringing"
                /\ host'[n] = [host[n] EXCEPT !.answered = a]
                /\ \A i \in DOMAIN call.early : /\ ~EndsIt(call.early[i], r.msg)
                                                /\ AnswersIt(call.early[i], r.msg) => a
             \/ /\ call'.state = "ended"
                /\ host'[n] = LetGo(Settled([host[n] EXCEPT !.answered = a]))
                /\ \E i \in DOMAIN call.early : EndsIt(call.early[i], r.msg)

LEMMA FedIsNamed ==
    ASSUME TypeOK, World, NEW r \in Report, r \in reports, r.kind = "placed", Current(r.num),
           IsFed(NamedBy(Now, r), Now.call.early, Len(Now.call.early), Now')
    PROVE  IsNamed(r)
<1>1. Now.call = call /\ Now.host = host /\ Now.tasks = tasks /\ Now \in State /\ call \in Call
  BY NowIsState DEF TypeOK
<1>2. Now'.call = call' /\ Now'.host = host' /\ Now'.tasks = tasks'
  BY DEF Now
<1>3. PICK n : n = r.num
  OBVIOUS
<1>4. n = call.num /\ Busy /\ ~call.incoming
  BY <1>3, NamedByPlaced
<1>5. PICK o : o = NamedBy(Now, r)
  OBVIOUS
<1>6. BusyIn(Now.call)
  BY <1>1, <1>4 DEF Busy
<1>7. /\ o.host = host /\ o.tasks = tasks
      /\ o.call.num = n /\ o.call.msg = r.msg /\ o.call.early = <<>>
      /\ o.call.incoming = call.incoming
  BY <1>1, <1>4, <1>5, <1>6, NamedByIs
<1>8. DOMAIN call.early = 1..Len(call.early)
  BY <1>1 DEF Call
<1>9. IsFed(o, call.early, Len(call.early), Now')
  BY <1>1, <1>5
<1>10. /\ tasks' = tasks
       /\ call'.num = n /\ call'.msg = r.msg
       /\ call'.incoming = call.incoming /\ call'.early = <<>>
       /\ \A j \in Nums : j # n => host'[j] = host[j]
  BY <1>2, <1>7, <1>9 DEF IsFed
<1>11. \E a \in BOOLEAN :
          /\ host[n].answered => a
          /\ \/ /\ BusyIn(call') /\ call'.state # "ringing"
                /\ host'[n] = [host[n] EXCEPT !.answered = a]
                /\ \A i \in 1..Len(call.early) : ~EndsIt(call.early[i], r.msg)
                                                 /\ (AnswersIt(call.early[i], r.msg) => a)
             \/ /\ call'.state = "ended"
                /\ host'[n] = LetGo(Settled([host[n] EXCEPT !.answered = a]))
                /\ \E i \in 1..Len(call.early) : EndsIt(call.early[i], r.msg)
  BY <1>2, <1>7, <1>9 DEF IsFed
<1>12. Busy' <=> BusyIn(call')
  BY DEF Busy
<1>13. QED
  BY <1>3, <1>4, <1>8, <1>10, <1>11, <1>12 DEF IsNamed

LEMMA NamedWorld ==
    ASSUME TypeOK, World, NEW r \in Report, r \in reports, r.kind = "placed", Current(r.num),
           IsNamed(r), reports' \subseteq reports
    PROVE  World'
<1>1. PICK n \in Nums : n = r.num /\ n > 0 /\ n # 0
  BY NamedByPlaced, NumsNat DEF Nums
<1>2. /\ n = call.num /\ Busy /\ ~call.incoming /\ call.state # "ringing"
      /\ r.msg \in Ids /\ r.msg # 0 /\ r.msg = host[n].msg /\ host[n].place = "done"
      /\ host[n].stage = "held"
  BY <1>1, NamedByPlaced, NumsNat
<1>3. host[n] \in Host /\ HostFits(host[n]) /\ host[n].accept = "no"
  BY <1>1, <1>2 DEF TypeOK, World, Hosts, CallFits
<1>4. /\ call'.num = n /\ call'.msg = r.msg /\ ~call'.incoming /\ call'.early = <<>>
      /\ \A j \in Nums : j # n => host'[j] = host[j]
  BY <1>1 DEF IsNamed
<1>5. PICK h : h = host'[n]
  OBVIOUS
<1>6. /\ HostFits(h) /\ h.msg = r.msg /\ h.place = "done" /\ h.accept = "no"
      /\ \/ Busy' /\ call'.state # "ringing" /\ h.stage = "held"
         \/ call'.state = "ended" /\ h.stage = "dropped"
  <2>1. PICK a \in BOOLEAN :
          \/ /\ Busy' /\ call'.state # "ringing"
             /\ h = [host[n] EXCEPT !.answered = a]
          \/ /\ call'.state = "ended"
             /\ h = LetGo(Settled([host[n] EXCEPT !.answered = a]))
    BY <1>1, <1>5 DEF IsNamed
  <2>2. PICK g : g = [host[n] EXCEPT !.answered = a]
    OBVIOUS
  <2>3. g \in Host /\ HostFits(g)
    BY <1>2, <1>3, <2>2, AnsweredFits
  <2>4. /\ g.msg = r.msg /\ g.place = "done" /\ g.accept = "no" /\ g.stage = "held"
    BY <1>2, <1>3, <2>2, AnsweredHost
  <2>5. PICK k : k = Settled(g)
    OBVIOUS
  <2>6. /\ k \in Host /\ HostFits(k) /\ k.msg = r.msg /\ k.place = "done" /\ k.accept = "no"
        /\ k.stage = "held"
    BY <1>2, <2>3, <2>4, <2>5, SettledFits, SettledHost
  <2>7. LetGo(k) = Drop(k)
    BY <2>6 DEF LetGo
  <2>8. /\ HostFits(Drop(k)) /\ Drop(k).msg = r.msg /\ Drop(k).place = "done"
        /\ Drop(k).accept = "no" /\ Drop(k).stage = "dropped"
    BY <2>6, DropFits, DropHost
  <2>9. QED
    BY <2>1, <2>2, <2>3, <2>4, <2>5, <2>7, <2>8
<1>7. CallFits'
  BY <1>1, <1>2, <1>4, <1>5, <1>6, NoEntries DEF CallFits, Running, Busy, BusyIn
<1>8. Hosts'
  <2>1. ASSUME NEW k \in Nums
        PROVE  HostFits(host'[k]) /\ (k > n => host'[k] = NoHost)
               /\ (host'[k].stage = "held" => k = n /\ Busy')
    <3>1. CASE k = n
      <4>1. ~(n > n)
        BY <1>1, NumsNat
      <4>2. h.stage = "held" => Busy'
        BY <1>6
      <4>3. QED
        BY <1>5, <1>6, <3>1, <4>1, <4>2
    <3>2. CASE k # n
      BY <1>2, <1>4, <3>2 DEF World, Hosts, Current
    <3>3. QED
      BY <3>1, <3>2
  <2>2. QED
    BY <1>4, <2>1 DEF Hosts, Current
<1>9. ReportsFit'
  <2>1. ASSUME NEW q \in reports'
        PROVE  /\ q.num <= n
               /\ q.kind = "placed" => /\ q.msg \in Ids /\ q.msg = host'[q.num].msg
                                       /\ host'[q.num].place = "done"
    <3>1. q \in reports /\ q.num \in Nums
      BY <2>1 DEF TypeOK, Report
    <3>2. /\ q.num <= call.num
          /\ q.kind = "placed" => /\ q.msg \in Ids /\ q.msg = host[q.num].msg
                                  /\ host[q.num].place = "done"
      BY <3>1 DEF World, ReportsFit
    <3>3. CASE q.num = n
      BY <1>2, <1>5, <1>6, <3>2, <3>3
    <3>4. CASE q.num # n
      BY <1>2, <1>4, <3>1, <3>2, <3>4
    <3>5. QED
      BY <3>3, <3>4
  <2>2. QED
    BY <1>4, <2>1 DEF ReportsFit
<1>10. QED
  BY <1>7, <1>8, <1>9 DEF World

-----------------------------------------------------------------------------
(* Every step keeps the types and World: the core *)

CoreTypes   == core \in [Ids -> CoreCall] /\ events \in Seq(Event)
AppTypes    == call \in Call /\ host \in [Nums -> Host] /\ tasks \subseteq Task
               /\ reports \subseteq Report
BudgetTypes == budget \in [BudgetKinds -> Nat]
GhostTypes  ==
    /\ tells \in [Ids -> Nat] /\ lost \in BOOLEAN
    /\ mine \subseteq Ids /\ untold \subseteq Ids /\ handed \subseteq Ids
    /\ begun \subseteq Ids /\ late \subseteq Ids

LEMMA TypeParts == TypeOK <=> CoreTypes /\ AppTypes /\ BudgetTypes /\ GhostTypes
<1>1. \A a, b, c, d, e : {a, b, c, d, e} \subseteq SUBSET Ids <=>
         a \subseteq Ids /\ b \subseteq Ids /\ c \subseteq Ids /\ d \subseteq Ids /\ e \subseteq Ids
  OBVIOUS
<1>2. {mine, untold, handed, begun, late} \subseteq SUBSET Ids <=>
         /\ mine \subseteq Ids /\ untold \subseteq Ids /\ handed \subseteq Ids
         /\ begun \subseteq Ids /\ late \subseteq Ids
  BY <1>1
<1>3. QED
  BY <1>2 DEF TypeOK, CoreTypes, AppTypes, BudgetTypes, GhostTypes

LEMMA TypePartsNext ==
    ASSUME CoreTypes', AppTypes', BudgetTypes', GhostTypes'
    PROVE  TypeOK'
<1>1. \A a, b, c, d, e : {a, b, c, d, e} \subseteq SUBSET Ids <=>
         a \subseteq Ids /\ b \subseteq Ids /\ c \subseteq Ids /\ d \subseteq Ids /\ e \subseteq Ids
  OBVIOUS
<1>2. {mine', untold', handed', begun', late'} \subseteq SUBSET Ids
  BY <1>1 DEF GhostTypes
<1>3. QED
  BY <1>2 DEF TypeOK, CoreTypes, AppTypes, BudgetTypes, GhostTypes

LEMMA SpendTypes ==
    ASSUME BudgetTypes, NEW k \in BudgetKinds, Spend(k)
    PROVE  BudgetTypes'
<1>1. budget[k] \in Nat /\ budget[k] > 0
  BY DEF BudgetTypes, Spend
<1>2. budget[k] - 1 \in Nat
  BY <1>1
<1>3. QED
  BY <1>2 DEF BudgetTypes, Spend

LEMMA Kinds ==
    {"ring", "take", "end", "lose", "fail", "place", "pick", "ice", "red"} \subseteq BudgetKinds
BY DEF BudgetKinds

LEMMA AnsweredTypes ==
    ASSUME BudgetTypes, NEW ok \in BOOLEAN, Answered(ok)
    PROVE  BudgetTypes'
BY SpendTypes, Kinds DEF Answered, BudgetTypes

LEMMA TellTypes ==
    ASSUME CoreTypes, NEW m \in Ids, NEW here \in BOOLEAN,
           NEW k \in {"IncomingCall", "IncomingCallAccepted", "OutgoingCallAccepted", "CallEnded"},
           Tell(k, m, here)
    PROVE  events' \in Seq(Event)
<1>1. [kind |-> k, msg |-> m, here |-> here] \in Event
  BY DEF Event
<1>2. QED
  BY <1>1 DEF CoreTypes, Tell

LEMMA ToldTypes ==
    ASSUME GhostTypes, NEW m \in Ids, Told(m)
    PROVE  tells' \in [Ids -> Nat]
BY DEF GhostTypes, Told

\* The core gives the least of the numbers left.
LEMMA NextIdIs ==
    ASSUME Unused # {}
    PROVE  NextId \in Ids /\ core[NextId].state = "none"
<1>1. Unused \in SUBSET Nat /\ Unused \subseteq Ids
  BY CallsAssumption DEF Unused
<1>2. \E m \in Unused : \A k \in Unused : m <= k
  BY <1>1, Least
<1>3. NextId \in Unused
  BY <1>2 DEF NextId
<1>4. QED
  BY <1>3 DEF Unused

LEMMA OverTypes ==
    ASSUME CoreTypes, NEW m \in Ids, Over(m)
    PROVE  CoreTypes'
<1>1. CASE core[m].state \in {"alerting", "active"}
  <2>1. core' \in [Ids -> CoreCall]
    BY <1>1 DEF Over, CoreTypes, CoreCall
  <2>2. QED
    BY <1>1, <2>1, TellTypes DEF Over, CoreTypes
<1>2. CASE core[m].state \notin {"alerting", "active"}
  BY <1>2 DEF Over, CoreTypes, coreVars
<1>3. QED
  BY <1>1, <1>2

LEMMA SameWorld ==
    ASSUME World, UNCHANGED <<call, host, reports>>
    PROVE  World'
BY DEF World, CallFits, Hosts, ReportsFit, Current, Busy

LEMMA CoreRingsTypes ==
    ASSUME TypeInv, CoreRings
    PROVE  TypeInv'
<1>1. CoreTypes /\ AppTypes /\ BudgetTypes /\ GhostTypes /\ World
  BY TypeParts DEF TypeInv
<1>2. PICK m \in Ids : m = NextId /\ core[m].state = "none"
  BY NextIdIs DEF CoreRings
<1>3. /\ core' = [core EXCEPT ![m] = [state |-> "alerting", incoming |-> TRUE, device |-> "none"]]
      /\ Tell("IncomingCall", m, FALSE)
  BY <1>2 DEF CoreRings
<1>4. CoreTypes'
  <2>1. core' \in [Ids -> CoreCall]
    BY <1>1, <1>3 DEF CoreTypes, CoreCall
  <2>2. QED
    BY <1>1, <1>3, <2>1, TellTypes DEF CoreTypes
<1>5. BudgetTypes'
  BY <1>1, SpendTypes, Kinds DEF CoreRings
<1>6. AppTypes' /\ GhostTypes' /\ World'
  BY <1>1, SameWorld DEF CoreRings, appVars, ghostVars, AppTypes, GhostTypes
<1>7. QED
  BY <1>4, <1>5, <1>6, TypePartsNext DEF TypeInv

LEMMA CoreTakenTypes ==
    ASSUME TypeInv, NEW m \in Ids, CoreTaken(m)
    PROVE  TypeInv'
<1>1. CoreTypes /\ AppTypes /\ BudgetTypes /\ GhostTypes /\ World
  BY TypeParts DEF TypeInv
<1>2. CoreTypes'
  <2>1. core' \in [Ids -> CoreCall]
    BY <1>1 DEF CoreTaken, CoreTypes, CoreCall
  <2>2. QED
    BY <1>1, <2>1, TellTypes DEF CoreTaken, CoreTypes
<1>3. BudgetTypes'
  BY <1>1, SpendTypes, Kinds DEF CoreTaken
<1>4. AppTypes' /\ GhostTypes' /\ World'
  BY <1>1, SameWorld DEF CoreTaken, appVars, ghostVars, AppTypes, GhostTypes
<1>5. QED
  BY <1>2, <1>3, <1>4, TypePartsNext DEF TypeInv

LEMMA CoreAnsweredTypes ==
    ASSUME TypeInv, NEW m \in Ids, CoreAnswered(m)
    PROVE  TypeInv'
<1>1. CoreTypes /\ AppTypes /\ BudgetTypes /\ GhostTypes /\ World
  BY TypeParts DEF TypeInv
<1>2. CoreTypes'
  <2>1. core' \in [Ids -> CoreCall]
    BY <1>1 DEF CoreAnswered, CoreTypes, CoreCall
  <2>2. QED
    BY <1>1, <2>1, TellTypes DEF CoreAnswered, CoreTypes
<1>3. AppTypes' /\ GhostTypes' /\ World' /\ BudgetTypes'
  BY <1>1, SameWorld DEF CoreAnswered, appVars, ghostVars, AppTypes, GhostTypes, BudgetTypes
<1>4. QED
  BY <1>2, <1>3, TypePartsNext DEF TypeInv

LEMMA CoreEndsTypes ==
    ASSUME TypeInv, NEW m \in Ids, CoreEnds(m)
    PROVE  TypeInv'
<1>1. CoreTypes /\ AppTypes /\ BudgetTypes /\ GhostTypes /\ World
  BY TypeParts DEF TypeInv
<1>2. CoreTypes'
  BY <1>1, OverTypes DEF CoreEnds
<1>3. BudgetTypes'
  BY <1>1, SpendTypes, Kinds DEF CoreEnds
<1>4. AppTypes' /\ GhostTypes' /\ World'
  BY <1>1, SameWorld DEF CoreEnds, appVars, ghostVars, AppTypes, GhostTypes
<1>5. QED
  BY <1>2, <1>3, <1>4, TypePartsNext DEF TypeInv

LEMMA CoreLosesEventsTypes ==
    ASSUME TypeInv, CoreLosesEvents
    PROVE  TypeInv'
<1>1. CoreTypes /\ AppTypes /\ BudgetTypes /\ GhostTypes /\ World
  BY TypeParts DEF TypeInv
<1>2. CoreTypes' /\ GhostTypes'
  BY <1>1 DEF CoreLosesEvents, CoreTypes, GhostTypes
<1>3. BudgetTypes'
  BY <1>1, SpendTypes, Kinds DEF CoreLosesEvents
<1>4. AppTypes' /\ World'
  BY <1>1, SameWorld DEF CoreLosesEvents, appVars, AppTypes
<1>5. QED
  BY <1>2, <1>3, <1>4, TypePartsNext DEF TypeInv

-----------------------------------------------------------------------------
(* Every step keeps the types and World: hosts *)

ReportKinds == {"placed", "accepted", "connected", "disconnected", "gave up", "ended by page",
                "failed"}

LEMMA ReportsAre ==
    ASSUME AppTypes, NEW n \in Nums, NEW k \in ReportKinds, NEW m \in Msg, Reports(n, k, m)
    PROVE  /\ reports' \subseteq Report
           /\ \A r \in reports' \ reports : r.num = n /\ r.kind = k /\ r.msg = m
<1>1. [num |-> n, kind |-> k, msg |-> m] \in Report
  BY DEF Report, ReportKinds
<1>2. QED
  BY <1>1 DEF AppTypes, Reports

\* A host goes on, and may report.
LEMMA HostTypes ==
    ASSUME TypeInv, NEW n \in Nums, NEW h, GoesOn(n, h), host' = [host EXCEPT ![n] = h],
           call' = call, tasks' = tasks,
           \/ reports' = reports
           \/ \E k \in ReportKinds : Reports(n, k, 0) /\ k # "placed"
           \/ Reports(n, "placed", h.msg) /\ h.place = "done" /\ h.msg \in Ids
    PROVE  AppTypes' /\ World'
<1>1. AppTypes /\ TypeOK /\ World /\ h \in Host
  BY TypeParts DEF TypeInv, GoesOn
<1>2. host' \in [Nums -> Host]
  BY <1>1 DEF AppTypes
<1>3. /\ reports' \subseteq Report
      /\ \A r \in reports' \ reports :
              /\ r.num = n
              /\ r.kind = "placed" => r.msg = h.msg /\ h.place = "done" /\ h.msg \in Ids
  <2>1. CASE reports' = reports
    BY <1>1, <2>1 DEF AppTypes
  <2>2. CASE \E k \in ReportKinds : Reports(n, k, 0) /\ k # "placed"
    <3>1. PICK k \in ReportKinds : Reports(n, k, 0) /\ k # "placed"
      BY <2>2
    <3>2. 0 \in Msg
      BY DEF Msg
    <3>3. QED
      BY <1>1, <3>1, <3>2, ReportsAre
  <2>3. CASE Reports(n, "placed", h.msg) /\ h.place = "done" /\ h.msg \in Ids
    <3>1. h.msg \in Msg /\ "placed" \in ReportKinds
      BY <2>3 DEF Msg, ReportKinds
    <3>2. QED
      BY <1>1, <2>3, <3>1, ReportsAre
  <2>4. QED
    BY <2>1, <2>2, <2>3
<1>4. World'
  BY <1>1, <1>3, HostWorld
<1>5. QED
  BY <1>1, <1>2, <1>3, <1>4 DEF AppTypes

LEMMA CurrentHost ==
    ASSUME TypeInv, NEW n \in Nums
    PROVE  /\ host[n] \in Host /\ HostFits(host[n])
           /\ host[n].stage = "held" => Current(n)
           /\ Current(n) => host[n].stage \in Running \/ host[n] = NoHost
           /\ Current(n) /\ host[n].stage # "none" => host[n].stage \in Running
<1>1. n = call.num /\ call.state = "ringing" => host[n] = NoHost
  BY DEF TypeInv, World, CallFits
<1>2. host[n] \in Host /\ HostFits(host[n]) /\ (host[n].stage = "held" => Current(n))
  BY DEF TypeInv, TypeOK, World, Hosts
<1>3. Current(n) /\ call.state # "ringing" => host[n].stage \in Running
  BY DEF TypeInv, World, CallFits, Current
<1>4. host[n] = NoHost => host[n].stage = "none"
  BY DEF NoHost
<1>5. QED
  BY <1>1, <1>2, <1>3, <1>4 DEF Current

LEMMA CorePlacesTypes ==
    ASSUME TypeInv, NEW n \in Nums, CorePlaces(n)
    PROVE  TypeInv'
<1>1. CoreTypes /\ AppTypes /\ BudgetTypes /\ GhostTypes /\ World
  BY TypeParts DEF TypeInv
<1>2. PICK m \in Ids : m = NextId /\ core[m].state = "none"
  BY NextIdIs DEF CorePlaces
<1>3. PICK g : g = host[n]
  OBVIOUS
<1>4. PICK h : h = [g EXCEPT !.place = "made", !.made = m]
  OBVIOUS
<1>5. /\ g \in Host /\ HostFits(g) /\ g.place = "asked"
      /\ g.stage = "held" => Current(n)
      /\ Current(n) /\ g.stage # "none" => g.stage \in Running
  BY <1>3, CurrentHost DEF CorePlaces
<1>6. /\ h \in Host /\ h.stage = g.stage /\ h.msg = g.msg /\ h.place = "made" /\ h.made = m
      /\ h.accept = g.accept /\ h.page = g.page /\ h.drop = g.drop /\ h.quiet = g.quiet
      /\ h.ending_call = g.ending_call /\ h.ended = g.ended /\ h.ending = g.ending
  BY <1>4, <1>5 DEF Host, Msg
<1>7. HostFits(h) /\ g.stage # "none"
  BY <1>5, <1>6 DEF HostFits, Untouched
<1>8. GoesOn(n, h)
  BY <1>3, <1>5, <1>6, <1>7 DEF GoesOn
<1>9. host' = [host EXCEPT ![n] = h]
  BY <1>1, <1>2, <1>3, <1>4 DEF CorePlaces, AppTypes
<1>10. AppTypes' /\ World'
  BY <1>8, <1>9, HostTypes DEF CorePlaces
<1>11. CoreTypes' /\ GhostTypes' /\ BudgetTypes'
  BY <1>1, <1>2 DEF CorePlaces, CoreTypes, CoreCall, GhostTypes, BudgetTypes
<1>12. QED
  BY <1>10, <1>11, TypePartsNext DEF TypeInv

LEMMA CoreRefusesTypes ==
    ASSUME TypeInv, NEW n \in Nums, CoreRefuses(n)
    PROVE  TypeInv'
<1>1. CoreTypes /\ AppTypes /\ BudgetTypes /\ GhostTypes /\ World
  BY TypeParts DEF TypeInv
<1>2. PICK g : g = host[n]
  OBVIOUS
<1>3. PICK h : h = [g EXCEPT !.place = "done"]
  OBVIOUS
<1>4. /\ g \in Host /\ HostFits(g) /\ g.place \in {"asked", "made"}
      /\ g.stage = "held" => Current(n)
      /\ Current(n) /\ g.stage # "none" => g.stage \in Running
  BY <1>2, CurrentHost DEF CoreRefuses
<1>5. /\ h \in Host /\ h.stage = g.stage /\ h.msg = g.msg /\ h.place = "done" /\ h.made = g.made
      /\ h.accept = g.accept /\ h.page = g.page /\ h.drop = g.drop /\ h.quiet = g.quiet
      /\ h.ending_call = g.ending_call /\ h.ended = g.ended /\ h.ending = g.ending
  BY <1>3, <1>4 DEF Host
<1>6. HostFits(h) /\ g.stage # "none"
  BY <1>4, <1>5 DEF HostFits, Untouched
<1>7. GoesOn(n, h)
  BY <1>2, <1>4, <1>5, <1>6 DEF GoesOn
<1>8. host' = [host EXCEPT ![n] = h]
  BY <1>1, <1>2, <1>3 DEF CoreRefuses, AppTypes
<1>9. AppTypes' /\ World'
  BY <1>7, <1>8, HostTypes DEF CoreRefuses, ReportKinds
<1>10. g.made \in Msg /\ untold' = untold \cup ({g.made} \ {0})
  BY <1>2, <1>4 DEF Host, CoreRefuses
<1>11. GhostTypes'
  BY <1>1, <1>10 DEF CoreRefuses, GhostTypes, Msg
<1>12. CoreTypes' /\ BudgetTypes'
  BY <1>1, SpendTypes, Kinds DEF CoreRefuses, CoreTypes, coreVars
<1>13. QED
  BY <1>9, <1>11, <1>12, TypePartsNext DEF TypeInv

LEMMA CoreAcceptsTypes ==
    ASSUME TypeInv, NEW n \in Nums, NEW ok \in BOOLEAN, NEW done \in BOOLEAN,
           CoreAccepts(n, ok, done)
    PROVE  TypeInv'
<1>1. CoreTypes /\ AppTypes /\ BudgetTypes /\ GhostTypes /\ World
  BY TypeParts DEF TypeInv
<1>2. PICK g : g = host[n]
  OBVIOUS
<1>3. PICK h : h = [g EXCEPT !.accept = "done"]
  OBVIOUS
<1>4. /\ g \in Host /\ HostFits(g) /\ g.accept = "asked" /\ g.msg \in Ids
      /\ g.stage = "held" => Current(n)
      /\ Current(n) /\ g.stage # "none" => g.stage \in Running
  BY <1>2, CurrentHost DEF CoreAccepts, HostFits
<1>5. /\ h \in Host /\ h.stage = g.stage /\ h.msg = g.msg /\ h.place = g.place /\ h.made = g.made
      /\ h.accept = "done" /\ h.page = g.page /\ h.drop = g.drop /\ h.quiet = g.quiet
      /\ h.ending_call = g.ending_call /\ h.ended = g.ended /\ h.ending = g.ending
  BY <1>3, <1>4 DEF Host
<1>6. HostFits(h) /\ g.stage # "none"
  BY <1>4, <1>5 DEF HostFits, Untouched
<1>7. GoesOn(n, h)
  BY <1>2, <1>4, <1>5, <1>6 DEF GoesOn
<1>8. host' = [host EXCEPT ![n] = h]
  BY <1>1, <1>2, <1>3 DEF CoreAccepts, AppTypes
<1>9. AppTypes' /\ World'
  <2>1. PICK k \in ReportKinds : Reports(n, k, 0) /\ k # "placed"
    BY DEF CoreAccepts, ReportKinds
  <2>2. QED
    BY <1>7, <1>8, <2>1, HostTypes DEF CoreAccepts
<1>10. CoreTypes'
  <2>1. PICK m \in Ids : m = host[n].msg
    BY <1>2, <1>4
  <2>2. CASE done /\ core[m].state = "alerting"
    <3>1. /\ core' = [core EXCEPT ![m].state = "active", ![m].device = "here"]
          /\ Tell("IncomingCallAccepted", m, TRUE)
      BY <2>1, <2>2 DEF CoreAccepts
    <3>2. core' \in [Ids -> CoreCall]
      BY <1>1, <3>1 DEF CoreTypes, CoreCall
    <3>3. QED
      BY <1>1, <3>1, <3>2, TellTypes DEF CoreTypes
  <2>3. CASE ~(done /\ core[m].state = "alerting")
    BY <1>1, <2>1, <2>3 DEF CoreAccepts, CoreTypes, coreVars
  <2>4. QED
    BY <2>2, <2>3
<1>11. GhostTypes' /\ BudgetTypes'
  BY <1>1, AnsweredTypes DEF CoreAccepts, GhostTypes, ghostVars
<1>12. QED
  BY <1>9, <1>10, <1>11, TypePartsNext DEF TypeInv

\* A host whose ending is through.
LEMMA EndedHost ==
    ASSUME NEW h \in Host, HostFits(h), NEW who \in {"place", "page", "drop"}, h[who] = "ending"
    PROVE  LET g == Ended(h, who) IN
           /\ g \in Host /\ HostFits(g) /\ g[who] = "done" /\ g.ending_call = "no"
           /\ g.stage = h.stage /\ g.msg = h.msg /\ g.made = h.made /\ g.accept = h.accept
           /\ g.ended = h.ended /\ g.ending = h.ending /\ g.quiet = h.quiet
           /\ g.answered = h.answered
           /\ \A w \in {"place", "page", "drop"} : w # who => g[w] = h[w]
<1>1. PICK g : g = Ended(h, who)
  OBVIOUS
<1>2. CASE who = "place"
  <2>1. g = [h EXCEPT !.place = "done", !.ending_call = "no"]
    BY <1>1, <1>2 DEF Ended
  <2>2. /\ g \in Host /\ g.place = "done" /\ g.ending_call = "no" /\ g.page = h.page
        /\ g.drop = h.drop
        /\ g.stage = h.stage /\ g.msg = h.msg /\ g.made = h.made /\ g.accept = h.accept
        /\ g.ended = h.ended /\ g.ending = h.ending /\ g.quiet = h.quiet
        /\ g.answered = h.answered
    BY <2>1 DEF Host
  <2>3. HostFits(g)
    BY <1>2, <2>2 DEF HostFits, Untouched
  <2>4. QED
    BY <1>1, <1>2, <2>2, <2>3
<1>3. CASE who = "page"
  <2>1. g = [h EXCEPT !.page = "done", !.ending_call = "no"]
    BY <1>1, <1>3 DEF Ended
  <2>2. /\ g \in Host /\ g.page = "done" /\ g.ending_call = "no" /\ g.place = h.place
        /\ g.drop = h.drop
        /\ g.stage = h.stage /\ g.msg = h.msg /\ g.made = h.made /\ g.accept = h.accept
        /\ g.ended = h.ended /\ g.ending = h.ending /\ g.quiet = h.quiet
        /\ g.answered = h.answered
    BY <2>1 DEF Host
  <2>3. HostFits(g)
    BY <1>3, <2>2 DEF HostFits, Untouched
  <2>4. QED
    BY <1>1, <1>3, <2>2, <2>3
<1>4. CASE who = "drop"
  <2>1. g = [h EXCEPT !.drop = "done", !.ending_call = "no"]
    BY <1>1, <1>4 DEF Ended
  <2>2. /\ g \in Host /\ g.drop = "done" /\ g.ending_call = "no" /\ g.place = h.place
        /\ g.page = h.page
        /\ g.stage = h.stage /\ g.msg = h.msg /\ g.made = h.made /\ g.accept = h.accept
        /\ g.ended = h.ended /\ g.ending = h.ending /\ g.quiet = h.quiet
        /\ g.answered = h.answered
    BY <2>1 DEF Host
  <2>3. HostFits(g)
    BY <1>4, <2>2 DEF HostFits, Untouched
  <2>4. QED
    BY <1>1, <1>4, <2>2, <2>3
<1>5. QED
  BY <1>2, <1>3, <1>4

LEMMA EndedGoesOn ==
    ASSUME TypeInv, NEW n \in Nums, NEW who \in {"place", "page", "drop"},
           host[n][who] = "ending"
    PROVE  /\ GoesOn(n, Ended(host[n], who))
           /\ who = "place" => /\ Ended(host[n], who).place = "done"
                               /\ Ended(host[n], who).msg = host[n].msg /\ host[n].msg \in Ids
<1>1. PICK g : g = host[n]
  OBVIOUS
<1>2. PICK h : h = Ended(g, who)
  OBVIOUS
<1>3. /\ g \in Host /\ HostFits(g) /\ g[who] = "ending"
      /\ g.stage = "held" => Current(n)
      /\ Current(n) /\ g.stage # "none" => g.stage \in Running
  BY <1>1, CurrentHost
<1>4. /\ h \in Host /\ HostFits(h) /\ h[who] = "done"
      /\ h.stage = g.stage /\ h.msg = g.msg /\ h.made = g.made /\ h.accept = g.accept
      /\ \A w \in {"place", "page", "drop"} : w # who => h[w] = g[w]
  BY <1>2, <1>3, EndedHost
<1>5. g.stage # "none"
  BY <1>3 DEF HostFits, Untouched
<1>6. who # "place" => h.place = g.place
  BY <1>4
<1>7. who = "place" => g.place = "ending" /\ h.place = "done"
  BY <1>3, <1>4
<1>8. GoesOn(n, h)
  BY <1>1, <1>3, <1>4, <1>5, <1>6, <1>7 DEF GoesOn
<1>9. who = "place" => g.msg \in Ids
  BY <1>3, <1>7 DEF HostFits
<1>10. QED
  BY <1>1, <1>2, <1>4, <1>7, <1>8, <1>9

LEMMA EndedTypes ==
    ASSUME TypeInv, NEW n \in Nums, NEW who \in {"place", "page", "drop"},
           host[n][who] = "ending", host' = [host EXCEPT ![n] = Ended(@, who)],
           EndReported(n, who), call' = call, tasks' = tasks
    PROVE  AppTypes' /\ World'
<1>1. PICK h : h = Ended(host[n], who)
  OBVIOUS
<1>2. /\ GoesOn(n, h)
      /\ who = "place" => h.place = "done" /\ h.msg = host[n].msg /\ h.msg \in Ids
  BY <1>1, EndedGoesOn
<1>3. host' = [host EXCEPT ![n] = h]
  BY <1>1 DEF TypeInv, TypeOK
<1>4. CASE who = "place"
  BY <1>2, <1>3, <1>4, HostTypes DEF EndReported
<1>5. CASE who = "page"
  BY <1>2, <1>3, <1>5, HostTypes DEF EndReported, ReportKinds
<1>6. CASE who = "drop"
  BY <1>2, <1>3, <1>6, HostTypes DEF EndReported
<1>7. QED
  BY <1>4, <1>5, <1>6

LEMMA EndingHolds ==
    ASSUME TypeInv, NEW n \in Nums, host[n].ending_call # "no"
    PROVE  /\ host[n].ending_call \in {"place", "page", "drop"}
           /\ host[n][host[n].ending_call] = "ending" /\ host[n].msg \in Ids /\ host[n].ended
<1>1. host[n] \in Host /\ HostFits(host[n])
  BY CurrentHost
<1>2. PICK g : g = host[n]
  OBVIOUS
<1>3. g.ending_call \in {"place", "page", "drop"} /\ g.ended /\ g.msg \in Ids
  BY <1>1, <1>2 DEF Host, HostFits
<1>4. g[g.ending_call] = "ending"
  <2>1. CASE g.ending_call = "place"
    BY <1>1, <1>2, <2>1 DEF HostFits
  <2>2. CASE g.ending_call = "page"
    BY <1>1, <1>2, <2>2 DEF HostFits
  <2>3. CASE g.ending_call = "drop"
    BY <1>1, <1>2, <2>3 DEF HostFits
  <2>4. QED
    BY <1>3, <2>1, <2>2, <2>3
<1>5. QED
  BY <1>2, <1>3, <1>4

LEMMA CoreEndsCallTypes ==
    ASSUME TypeInv, NEW n \in Nums, NEW ok \in BOOLEAN, CoreEndsCall(n, ok)
    PROVE  TypeInv'
<1>1. CoreTypes /\ AppTypes /\ BudgetTypes /\ GhostTypes /\ World
  BY TypeParts DEF TypeInv
<1>2. PICK who : who = host[n].ending_call
  OBVIOUS
<1>3. /\ who \in {"place", "page", "drop"} /\ host[n][who] = "ending" /\ host[n].msg \in Ids
  BY <1>2, EndingHolds DEF CoreEndsCall
<1>4. PICK m \in Ids : m = host[n].msg
  BY <1>3
<1>5. /\ host' = [host EXCEPT ![n] = Ended(@, who)] /\ EndReported(n, who)
      /\ Answered(ok) /\ UNCHANGED <<call, tasks, tells, mine, handed, begun, late, lost>>
      /\ IF ok THEN Over(m) /\ UNCHANGED untold
         ELSE UNCHANGED coreVars /\ untold' = untold \cup {m}
  BY <1>2, <1>4 DEF CoreEndsCall
<1>6. AppTypes' /\ World'
  BY <1>3, <1>5, EndedTypes
<1>7. CoreTypes'
  BY <1>1, <1>5, OverTypes DEF CoreTypes, coreVars
<1>8. GhostTypes' /\ BudgetTypes'
  BY <1>1, <1>5, AnsweredTypes DEF GhostTypes
<1>9. QED
  BY <1>6, <1>7, <1>8, TypePartsNext DEF TypeInv

LEMMA CoreDeclinesTypes ==
    ASSUME TypeInv, NEW t \in tasks, NEW ok \in BOOLEAN, CoreDeclines(t, ok)
    PROVE  TypeInv'
<1>1. CoreTypes /\ AppTypes /\ BudgetTypes /\ GhostTypes /\ World
  BY TypeParts DEF TypeInv
<1>2. PICK m \in Ids : m = t.msg
  BY <1>1 DEF AppTypes, Task
<1>3. IF ok THEN Over(m) /\ UNCHANGED untold
      ELSE UNCHANGED coreVars /\ untold' = untold \cup {m}
  BY <1>2 DEF CoreDeclines
<1>4. CoreTypes' /\ GhostTypes'
  BY <1>1, <1>3, OverTypes DEF CoreDeclines, CoreTypes, coreVars, GhostTypes
<1>5. AppTypes' /\ World' /\ BudgetTypes'
  BY <1>1, SameWorld, AnsweredTypes DEF CoreDeclines, AppTypes
<1>6. QED
  BY <1>4, <1>5, TypePartsNext DEF TypeInv

LEMMA CoreSaysTypes ==
    ASSUME TypeInv, NEW t \in tasks, NEW found \in {"", "Alerting", "Declined", "other"},
           CoreSays(t, found)
    PROVE  TypeInv'
<1>1. CoreTypes /\ AppTypes /\ BudgetTypes /\ GhostTypes /\ World
  BY TypeParts DEF TypeInv
<1>2. t \in Task
  BY <1>1 DEF AppTypes
<1>3. [t EXCEPT !.phase = "answered", !.found = found] \in Task
  BY <1>2 DEF Task
<1>4. AppTypes' /\ World'
  BY <1>1, <1>3, SameWorld DEF CoreSays, AppTypes
<1>5. CoreTypes' /\ GhostTypes'
  BY <1>1 DEF CoreSays, CoreTypes, coreVars, GhostTypes, ghostVars
<1>6. BudgetTypes'
  BY <1>1, SpendTypes, Kinds DEF CoreSays, BudgetTypes
<1>7. QED
  BY <1>4, <1>5, <1>6, TypePartsNext DEF TypeInv

LEMMA HostStartsTypes ==
    ASSUME TypeInv, NEW n \in Nums, NEW ok \in BOOLEAN, HostStarts(n, ok)
    PROVE  TypeInv'
<1>1. CoreTypes /\ AppTypes /\ BudgetTypes /\ GhostTypes /\ World
  BY TypeParts DEF TypeInv
<1>2. PICK g : g = host[n]
  OBVIOUS
<1>3. PICK st : st = IF ok THEN "started" ELSE "failed"
  OBVIOUS
<1>4. PICK h : h = [g EXCEPT !.stage = st]
  OBVIOUS
<1>5. /\ g \in Host /\ HostFits(g) /\ g.stage = "starting"
  BY <1>2, CurrentHost DEF HostStarts
<1>6. /\ h \in Host /\ h.stage = st /\ h.msg = g.msg /\ h.place = g.place /\ h.made = g.made
      /\ h.accept = g.accept /\ h.page = g.page /\ h.drop = g.drop /\ h.quiet = g.quiet
      /\ h.ending_call = g.ending_call /\ h.ended = g.ended /\ h.ending = g.ending
      /\ h.answered = g.answered
  BY <1>3, <1>4, <1>5 DEF Host
<1>7. HostFits(h)
  BY <1>3, <1>5, <1>6 DEF HostFits, Untouched
<1>8. GoesOn(n, h)
  BY <1>2, <1>3, <1>5, <1>6, <1>7 DEF GoesOn, Running
<1>9. host' = [host EXCEPT ![n] = h]
  BY <1>1, <1>2, <1>3, <1>4 DEF HostStarts, AppTypes
<1>10. AppTypes' /\ World'
  BY <1>8, <1>9, HostTypes DEF HostStarts
<1>11. CoreTypes' /\ GhostTypes' /\ BudgetTypes'
  BY <1>1, AnsweredTypes DEF HostStarts, CoreTypes, coreVars, GhostTypes, ghostVars
<1>12. QED
  BY <1>10, <1>11, TypePartsNext DEF TypeInv

LEMMA PagePlacesTypes ==
    ASSUME TypeInv, NEW n \in Nums, PagePlaces(n)
    PROVE  TypeInv'
<1>1. CoreTypes /\ AppTypes /\ BudgetTypes /\ GhostTypes /\ World
  BY TypeParts DEF TypeInv
<1>2. PICK g : g = host[n]
  OBVIOUS
<1>3. PICK h : h = [g EXCEPT !.place = "asked"]
  OBVIOUS
<1>4. /\ g \in Host /\ HostFits(g) /\ g.place = "no" /\ g.stage = "held" /\ Current(n)
      /\ ~call.incoming
  BY <1>2, CurrentHost DEF PagePlaces
<1>5. /\ h \in Host /\ h.stage = g.stage /\ h.msg = g.msg /\ h.place = "asked" /\ h.made = g.made
      /\ h.accept = g.accept /\ h.page = g.page /\ h.drop = g.drop /\ h.quiet = g.quiet
      /\ h.ending_call = g.ending_call /\ h.ended = g.ended /\ h.ending = g.ending
  BY <1>3, <1>4 DEF Host
<1>6. n = call.num /\ call.num > 0
  BY <1>4, NumsNat DEF Current, Nums
<1>7. g.msg = 0 /\ g.accept = "no"
  BY <1>1, <1>2, <1>4, <1>6 DEF World, CallFits
<1>8. HostFits(h)
  BY <1>4, <1>5, <1>7 DEF HostFits, Untouched
<1>9. GoesOn(n, h)
  BY <1>2, <1>4, <1>5, <1>8 DEF GoesOn, Running
<1>10. host' = [host EXCEPT ![n] = h]
  BY <1>1, <1>2, <1>3 DEF PagePlaces, AppTypes
<1>11. AppTypes' /\ World'
  BY <1>9, <1>10, HostTypes DEF PagePlaces
<1>12. CoreTypes' /\ GhostTypes' /\ BudgetTypes'
  BY <1>1 DEF PagePlaces, CoreTypes, coreVars, GhostTypes, ghostVars, BudgetTypes
<1>13. QED
  BY <1>11, <1>12, TypePartsNext DEF TypeInv

LEMMA PlaceAnsweredTypes ==
    ASSUME TypeInv, NEW n \in Nums, PlaceAnswered(n)
    PROVE  TypeInv'
<1>1. CoreTypes /\ AppTypes /\ BudgetTypes /\ GhostTypes /\ World
  BY TypeParts DEF TypeInv
<1>2. PICK g : g = host[n]
  OBVIOUS
<1>3. PICK h : h = [g EXCEPT !.msg = g.made, !.place = "stored"]
  OBVIOUS
<1>4. /\ g \in Host /\ HostFits(g) /\ g.place = "made" /\ g.made \in Ids
      /\ g.stage = "held" => Current(n)
      /\ Current(n) /\ g.stage # "none" => g.stage \in Running
  BY <1>2, CurrentHost DEF PlaceAnswered, HostFits
<1>5. /\ h \in Host /\ h.stage = g.stage /\ h.msg = g.made /\ h.place = "stored" /\ h.made = g.made
      /\ h.accept = g.accept /\ h.page = g.page /\ h.drop = g.drop /\ h.quiet = g.quiet
      /\ h.ending_call = g.ending_call /\ h.ended = g.ended /\ h.ending = g.ending
  BY <1>3, <1>4 DEF Host
<1>6. HostFits(h) /\ g.stage # "none"
  BY <1>4, <1>5 DEF HostFits, Untouched
<1>7. GoesOn(n, h)
  BY <1>2, <1>4, <1>5, <1>6 DEF GoesOn
<1>8. host' = [host EXCEPT ![n] = h]
  BY <1>1, <1>2, <1>3 DEF PlaceAnswered, AppTypes
<1>9. AppTypes' /\ World'
  BY <1>7, <1>8, HostTypes DEF PlaceAnswered
<1>10. CoreTypes' /\ GhostTypes' /\ BudgetTypes'
  BY <1>1 DEF PlaceAnswered, CoreTypes, coreVars, GhostTypes, ghostVars, BudgetTypes
<1>11. QED
  BY <1>9, <1>10, TypePartsNext DEF TypeInv

LEMMA PlaceChecksTypes ==
    ASSUME TypeInv, NEW n \in Nums, PlaceChecks(n)
    PROVE  TypeInv'
<1>1. CoreTypes /\ AppTypes /\ BudgetTypes /\ GhostTypes /\ World
  BY TypeParts DEF TypeInv
<1>2. PICK g : g = host[n]
  OBVIOUS
<1>3. PICK st : st = IF g.ending THEN "ending" ELSE "done"
  OBVIOUS
<1>4. PICK h : h = [g EXCEPT !.place = st]
  OBVIOUS
<1>5. /\ g \in Host /\ HostFits(g) /\ g.place = "stored" /\ g.msg \in Ids
      /\ g.stage = "held" => Current(n)
      /\ Current(n) /\ g.stage # "none" => g.stage \in Running
  BY <1>2, CurrentHost DEF PlaceChecks, HostFits
<1>6. /\ h \in Host /\ h.stage = g.stage /\ h.msg = g.msg /\ h.place = st /\ h.made = g.made
      /\ h.accept = g.accept /\ h.page = g.page /\ h.drop = g.drop /\ h.quiet = g.quiet
      /\ h.ending_call = g.ending_call /\ h.ended = g.ended /\ h.ending = g.ending
  BY <1>3, <1>4, <1>5 DEF Host
<1>7. HostFits(h) /\ g.stage # "none"
  BY <1>3, <1>5, <1>6 DEF HostFits, Untouched
<1>8. GoesOn(n, h)
  BY <1>2, <1>3, <1>5, <1>6, <1>7 DEF GoesOn
<1>9. /\ host' = [host EXCEPT ![n] = h]
      /\ reports' = reports \/ (Reports(n, "placed", h.msg) /\ h.place = "done" /\ h.msg \in Ids)
  <2>1. CASE g.ending
    BY <1>1, <1>2, <1>3, <1>4, <2>1 DEF PlaceChecks, AppTypes
  <2>2. CASE ~g.ending
    BY <1>1, <1>2, <1>3, <1>4, <1>5, <1>6, <2>2 DEF PlaceChecks, AppTypes
  <2>3. QED
    BY <2>1, <2>2
<1>10. AppTypes' /\ World'
  BY <1>8, <1>9, HostTypes DEF PlaceChecks
<1>11. CoreTypes' /\ GhostTypes' /\ BudgetTypes'
  BY <1>1 DEF PlaceChecks, CoreTypes, coreVars, GhostTypes, ghostVars, BudgetTypes
<1>12. QED
  BY <1>10, <1>11, TypePartsNext DEF TypeInv

LEMMA PageAcceptsTypes ==
    ASSUME TypeInv, NEW n \in Nums, PageAccepts(n)
    PROVE  TypeInv'
<1>1. CoreTypes /\ AppTypes /\ BudgetTypes /\ GhostTypes /\ World
  BY TypeParts DEF TypeInv
<1>2. PICK g : g = host[n]
  OBVIOUS
<1>3. PICK h : h = [g EXCEPT !.accept = "asked"]
  OBVIOUS
<1>4. /\ g \in Host /\ HostFits(g) /\ g.accept = "no" /\ g.stage = "held" /\ Current(n)
      /\ call.incoming
  BY <1>2, CurrentHost DEF PageAccepts
<1>5. /\ h \in Host /\ h.stage = g.stage /\ h.msg = g.msg /\ h.accept = "asked" /\ h.made = g.made
      /\ h.place = g.place /\ h.page = g.page /\ h.drop = g.drop /\ h.quiet = g.quiet
      /\ h.ending_call = g.ending_call /\ h.ended = g.ended /\ h.ending = g.ending
  BY <1>3, <1>4 DEF Host
<1>6. n = call.num /\ call.num > 0
  BY <1>4, NumsNat DEF Current, Nums
<1>7. g.msg \in Ids /\ g.place = "no"
  BY <1>1, <1>2, <1>4, <1>6 DEF World, CallFits
<1>8. HostFits(h)
  BY <1>4, <1>5, <1>7 DEF HostFits, Untouched
<1>9. GoesOn(n, h)
  BY <1>2, <1>4, <1>5, <1>7, <1>8 DEF GoesOn, Running
<1>10. host' = [host EXCEPT ![n] = h]
  BY <1>1, <1>2, <1>3 DEF PageAccepts, AppTypes
<1>11. AppTypes' /\ World'
  BY <1>9, <1>10, HostTypes DEF PageAccepts
<1>12. CoreTypes' /\ GhostTypes' /\ BudgetTypes'
  BY <1>1 DEF PageAccepts, CoreTypes, coreVars, GhostTypes, ghostVars, BudgetTypes
<1>13. QED
  BY <1>11, <1>12, TypePartsNext DEF TypeInv

LEMMA PageEndsTypes ==
    ASSUME TypeInv, NEW n \in Nums, PageEnds(n)
    PROVE  TypeInv'
<1>1. CoreTypes /\ AppTypes /\ BudgetTypes /\ GhostTypes /\ World
  BY TypeParts DEF TypeInv
<1>2. PICK g : g = host[n]
  OBVIOUS
<1>3. PICK h : h = [g EXCEPT !.page = "ending", !.ending = TRUE]
  OBVIOUS
<1>4. /\ g \in Host /\ HostFits(g) /\ g.stage = "held" /\ Current(n) /\ g.page = "no"
  BY <1>2, CurrentHost DEF PageEnds
<1>5. /\ h \in Host /\ h.stage = g.stage /\ h.msg = g.msg /\ h.accept = g.accept /\ h.made = g.made
      /\ h.place = g.place /\ h.page = "ending" /\ h.drop = g.drop /\ h.quiet = g.quiet
      /\ h.ending_call = g.ending_call /\ h.ended = g.ended /\ h.ending
  BY <1>3, <1>4 DEF Host
<1>6. HostFits(h)
  BY <1>4, <1>5 DEF HostFits, Untouched
<1>7. GoesOn(n, h)
  BY <1>2, <1>4, <1>5, <1>6 DEF GoesOn, Running
<1>8. host' = [host EXCEPT ![n] = h]
  BY <1>1, <1>2, <1>3 DEF PageEnds, AppTypes
<1>9. AppTypes' /\ World'
  BY <1>7, <1>8, HostTypes DEF PageEnds
<1>10. CoreTypes' /\ GhostTypes' /\ BudgetTypes'
  BY <1>1, SpendTypes, Kinds DEF PageEnds, CoreTypes, coreVars, GhostTypes, ghostVars
<1>11. QED
  BY <1>9, <1>10, TypePartsNext DEF TypeInv

LEMMA PageConnectsTypes ==
    ASSUME TypeInv, NEW n \in Nums, NEW k \in {"connected", "disconnected", "gave up"},
           PageConnects(n, k)
    PROVE  TypeInv'
<1>1. CoreTypes /\ AppTypes /\ BudgetTypes /\ GhostTypes /\ World
  BY TypeParts DEF TypeInv
<1>2. PICK h : h = host[n]
  OBVIOUS
<1>3. /\ h \in Host /\ HostFits(h) /\ h.stage = "held" /\ Current(n)
  BY <1>2, CurrentHost DEF PageConnects
<1>4. GoesOn(n, h)
  BY <1>2, <1>3 DEF GoesOn, Running
<1>5. host' = [host EXCEPT ![n] = h]
  BY <1>1, <1>2 DEF PageConnects, AppTypes
<1>6. k \in ReportKinds /\ k # "placed" /\ Reports(n, k, 0)
  BY DEF ReportKinds, PageConnects
<1>7. AppTypes' /\ World'
  BY <1>4, <1>5, <1>6, HostTypes DEF PageConnects
<1>8. CoreTypes' /\ GhostTypes' /\ BudgetTypes'
  BY <1>1, SpendTypes, Kinds DEF PageConnects, CoreTypes, coreVars, GhostTypes, ghostVars
<1>9. QED
  BY <1>7, <1>8, TypePartsNext DEF TypeInv

\* A host that tells the core that its call is over.
Ending(h, who) == [h EXCEPT !.ending_call = who, !.ended = TRUE]

LEMMA EndingHost ==
    ASSUME NEW h \in Host, HostFits(h), NEW who \in {"place", "page", "drop"}, h[who] = "ending",
           h.msg \in Ids
    PROVE  LET g == Ending(h, who) IN
           /\ g \in Host /\ HostFits(g) /\ g.ending_call = who
           /\ g.stage = h.stage /\ g.msg = h.msg /\ g.made = h.made /\ g.accept = h.accept
           /\ g.ended /\ g.ending = h.ending /\ g.quiet = h.quiet
           /\ g.answered = h.answered
           /\ g.place = h.place /\ g.page = h.page /\ g.drop = h.drop
<1>1. PICK g : g = Ending(h, who)
  OBVIOUS
<1>2. /\ g \in Host /\ g.ending_call = who
      /\ g.stage = h.stage /\ g.msg = h.msg /\ g.made = h.made /\ g.accept = h.accept
      /\ g.ended /\ g.ending = h.ending /\ g.quiet = h.quiet
      /\ g.answered = h.answered
      /\ g.place = h.place /\ g.page = h.page /\ g.drop = h.drop
  BY <1>1 DEF Ending, Host
<1>3. (who = "place" => h.place = "ending") /\ (who = "page" => h.page = "ending")
      /\ (who = "drop" => h.drop = "ending")
  OBVIOUS
<1>4. h.stage \in {"held", "dropped"}
  BY <1>3 DEF HostFits, Untouched
<1>5. HostFits(g)
  BY <1>2, <1>3, <1>4 DEF HostFits, Untouched
<1>6. QED
  BY <1>1, <1>2, <1>5

LEMMA EndBeginsTypes ==
    ASSUME TypeInv, NEW n \in Nums, NEW who \in {"place", "page", "drop"}, EndBegins(n, who)
    PROVE  TypeInv'
<1>1. CoreTypes /\ AppTypes /\ BudgetTypes /\ GhostTypes /\ World
  BY TypeParts DEF TypeInv
<1>2. PICK g : g = host[n]
  OBVIOUS
<1>3. /\ g \in Host /\ HostFits(g) /\ g[who] = "ending"
      /\ g.stage = "held" => Current(n)
      /\ Current(n) /\ g.stage # "none" => g.stage \in Running
  BY <1>2, CurrentHost DEF EndBegins, Enders
<1>4. CoreTypes' /\ BudgetTypes' /\ call' = call /\ tasks' = tasks
      /\ UNCHANGED <<mine, untold, handed, begun, late, lost>>
  BY <1>1 DEF EndBegins, CoreTypes, coreVars, BudgetTypes
<1>5. CASE g.msg = 0 \/ g.ended
  <2>1. host' = [host EXCEPT ![n] = Ended(@, who)] /\ EndReported(n, who) /\ tells' = tells
    BY <1>2, <1>5 DEF EndBegins
  <2>2. AppTypes' /\ World'
    BY <1>2, <1>3, <1>4, <2>1, EndedTypes
  <2>3. GhostTypes'
    BY <1>1, <1>4, <2>1 DEF GhostTypes
  <2>4. QED
    BY <1>4, <2>2, <2>3, TypePartsNext DEF TypeInv
<1>6. CASE ~(g.msg = 0 \/ g.ended)
  <2>1. PICK m \in Ids : m = g.msg
    BY <1>3, <1>6 DEF Host, Msg
  <2>2. /\ host' = [host EXCEPT ![n].ending_call = who, ![n].ended = TRUE]
        /\ reports' = reports /\ Told(m)
    BY <1>2, <1>6, <2>1 DEF EndBegins
  <2>3. PICK h : h = Ending(g, who)
    OBVIOUS
  <2>4. /\ h \in Host /\ HostFits(h) /\ h.ending_call = who
        /\ h.stage = g.stage /\ h.msg = g.msg /\ h.made = g.made /\ h.accept = g.accept
        /\ h.place = g.place
    BY <1>3, <2>1, <2>3, EndingHost
  <2>5. g.stage # "none"
    BY <1>3 DEF HostFits, Untouched
  <2>6. GoesOn(n, h)
    BY <1>2, <1>3, <2>4, <2>5 DEF GoesOn
  <2>7. host' = [host EXCEPT ![n] = h]
    BY <1>1, <1>2, <2>2, <2>3 DEF Ending, AppTypes
  <2>8. AppTypes' /\ World'
    BY <1>4, <2>2, <2>6, <2>7, HostTypes
  <2>9. tells' \in [Ids -> Nat]
    BY <1>1, <2>2, ToldTypes
  <2>10. GhostTypes'
    BY <1>1, <1>4, <2>9 DEF GhostTypes
  <2>11. QED
    BY <1>4, <2>8, <2>10, TypePartsNext DEF TypeInv
<1>7. QED
  BY <1>5, <1>6

\* A host that did not come up: its call, if it is the app's, is over.
FailedHost(h) == [h EXCEPT !.stage = "none"]

LEMMA FailedHostIs ==
    ASSUME NEW h \in Host, HostFits(h), h.stage = "failed"
    PROVE  LET g == FailedHost(h) IN
           /\ g \in Host /\ HostFits(g)
           /\ g.stage = "none" /\ g.msg = h.msg /\ g.made = h.made /\ g.accept = h.accept
           /\ g.ended = h.ended /\ g.ending = h.ending /\ g.quiet = h.quiet
           /\ g.answered = h.answered /\ g.ending_call = h.ending_call
           /\ g.place = h.place /\ g.page = h.page /\ g.drop = h.drop
<1>1. PICK g : g = FailedHost(h)
  OBVIOUS
<1>2. /\ g \in Host
      /\ g.stage = "none" /\ g.msg = h.msg /\ g.made = h.made /\ g.accept = h.accept
      /\ g.ended = h.ended /\ g.ending = h.ending /\ g.quiet = h.quiet
      /\ g.answered = h.answered /\ g.ending_call = h.ending_call
      /\ g.place = h.place /\ g.page = h.page /\ g.drop = h.drop
  BY <1>1 DEF FailedHost, Host
<1>3. HostFits(g)
  BY <1>2 DEF HostFits, Untouched
<1>4. QED
  BY <1>1, <1>2, <1>3

\* What HostLands does, in the app's own terms.
IsLanded(n) ==
    LET h == host[n] IN
    /\ tasks' = tasks /\ host' \in [Nums -> Host] /\ call' \in Call
    /\ \A k \in Nums : k # n => host'[k] = host[k]
    /\ \/ /\ h.stage = "started" /\ call' = call /\ untold' = untold
          /\ host'[n] = IF Current(n) THEN [h EXCEPT !.stage = "held"]
                        ELSE Drop([h EXCEPT !.ended = h.quiet])
       \/ /\ h.stage = "failed" /\ untold' = untold \cup ({h.msg} \ {0})
          /\ host'[n] = FailedHost(h)
          /\ IF Current(n)
             THEN call' = [call EXCEPT !.state = "ended", !.reason = call'.reason]
             ELSE call' = call

LEMMA LandedIs ==
    ASSUME TypeInv, NEW n \in Nums, HostLands(n)
    PROVE  IsLanded(n)
<1>1. CoreTypes /\ AppTypes /\ BudgetTypes /\ GhostTypes /\ World /\ TypeOK
  BY TypeParts DEF TypeInv
<1>2. PICK h : h = host[n]
  OBVIOUS
<1>3. h \in Host /\ HostFits(h)
  BY <1>2, CurrentHost
<1>4. CASE h.stage = "started"
  <2>1. PICK g : g = IF Current(n) THEN [h EXCEPT !.stage = "held"]
                     ELSE Drop([h EXCEPT !.ended = h.quiet])
    OBVIOUS
  <2>2. g \in Host
    <3>1. [h EXCEPT !.stage = "held"] \in Host /\ [h EXCEPT !.ended = h.quiet] \in Host
      BY <1>3 DEF Host
    <3>2. QED
      BY <2>1, <3>1, DropHost
  <2>3. host' = [host EXCEPT ![n] = g] /\ UNCHANGED <<call, tasks, untold>>
    BY <1>1, <1>2, <1>4, <2>1 DEF HostLands, AppTypes
  <2>4. host' \in [Nums -> Host] /\ host'[n] = g /\ \A k \in Nums : k # n => host'[k] = host[k]
    BY <1>1, <2>2, <2>3 DEF AppTypes
  <2>5. QED
    BY <1>1, <1>2, <1>4, <2>1, <2>3, <2>4 DEF IsLanded, AppTypes
<1>5. CASE h.stage = "failed"
  <2>1. PICK gone : gone = [Now EXCEPT !.host[n].stage = "none"]
    OBVIOUS
  <2>2. PICK g : g = FailedHost(h)
    OBVIOUS
  <2>3. g \in Host /\ g.stage = "none"
    BY <1>3, <1>5, <2>2, FailedHostIs
  <2>4. gone.call = call /\ gone.tasks = tasks /\ gone.host = [host EXCEPT ![n] = g]
        /\ gone = [call |-> call, host |-> [host EXCEPT ![n] = g], tasks |-> tasks]
    BY <1>1, <1>2, <2>1, <2>2 DEF Now, FailedHost, AppTypes
  <2>5. gone \in State
    BY <1>1, <2>3, <2>4 DEF State, AppTypes
  <2>6. /\ Becomes(IF Current(n) THEN Finish(gone, "failed") ELSE gone)
        /\ untold' = untold \cup ({h.msg} \ {0})
    BY <1>2, <1>5, <2>1 DEF HostLands
  <2>7. CASE ~Current(n)
    <3>1. call' = call /\ tasks' = tasks /\ host' = [host EXCEPT ![n] = g]
      BY <2>4, <2>6, <2>7 DEF Becomes
    <3>2. host' \in [Nums -> Host] /\ host'[n] = g /\ \A k \in Nums : k # n => host'[k] = host[k]
      BY <1>1, <2>3, <3>1 DEF AppTypes
    <3>3. QED
      BY <1>1, <1>2, <1>5, <2>2, <2>6, <2>7, <3>1, <3>2 DEF IsLanded, AppTypes
  <2>8. CASE Current(n)
    <3>1. n = call.num /\ BusyIn(gone.call)
      BY <2>4, <2>8 DEF Current, Busy
    <3>2. PICK t : t = Finish(gone, "failed")
      OBVIOUS
    <3>3. /\ t \in State /\ IsOver(gone, t)
      <4>1. "failed" \in Reasons
        BY DEF Reasons
      <4>2. QED
        BY <2>5, <3>1, <3>2, <4>1, OverIs
    <3>4. /\ call' = t.call /\ host' = t.host /\ tasks' = t.tasks
      BY <2>6, <2>8, <3>2 DEF Becomes
    <3>5. /\ tasks' = tasks
          /\ call' = [call EXCEPT !.state = "ended", !.reason = call'.reason]
          /\ \A k \in Nums : host'[k] = IF k = n THEN LetGo(gone.host[k]) ELSE gone.host[k]
          /\ host' \in [Nums -> Host] /\ call' \in Call
      BY <2>4, <3>1, <3>3, <3>4 DEF IsOver, State
    <3>6. gone.host[n] = g /\ \A k \in Nums : k # n => gone.host[k] = host[k]
      BY <1>1, <2>4 DEF AppTypes
    <3>7. host'[n] = g /\ \A k \in Nums : k # n => host'[k] = host[k]
      BY <2>3, <3>5, <3>6 DEF LetGo
    <3>8. QED
      BY <1>2, <1>5, <2>2, <2>6, <2>8, <3>5, <3>7 DEF IsLanded
  <2>9. QED
    BY <2>7, <2>8
<1>6. QED
  BY <1>2, <1>4, <1>5 DEF HostLands

\* A host that nobody waits for any more.
LateHost(h) == Drop([h EXCEPT !.ended = h.quiet])

LEMMA LateHostIs ==
    ASSUME NEW h \in Host, HostFits(h), h.stage = "started"
    PROVE  LET g == LateHost(h) IN
           /\ g \in Host /\ HostFits(g)
           /\ g.stage = "dropped" /\ g.msg = h.msg /\ g.made = h.made /\ g.accept = h.accept
           /\ g.ended = h.quiet /\ g.ending /\ g.quiet = h.quiet
           /\ g.answered = h.answered /\ g.ending_call = h.ending_call
           /\ g.place = h.place /\ g.page = h.page /\ g.drop = "ending"
<1>1. PICK k : k = [h EXCEPT !.ended = h.quiet]
  OBVIOUS
<1>2. /\ k \in Host /\ k.ended = h.quiet /\ k.msg = h.msg /\ k.made = h.made
      /\ k.accept = h.accept /\ k.quiet = h.quiet
      /\ k.answered = h.answered /\ k.ending_call = h.ending_call
      /\ k.place = h.place /\ k.page = h.page
  BY <1>1 DEF Host
<1>3. PICK g : g = Drop(k)
  OBVIOUS
<1>4. /\ g \in Host
      /\ g.stage = "dropped" /\ g.msg = h.msg /\ g.made = h.made /\ g.accept = h.accept
      /\ g.ended = h.quiet /\ g.ending /\ g.quiet = h.quiet
      /\ g.answered = h.answered /\ g.ending_call = h.ending_call
      /\ g.place = h.place /\ g.page = h.page /\ g.drop = "ending"
  BY <1>2, <1>3, DropHost
<1>5. HostFits(g)
  BY <1>4 DEF HostFits, Untouched
<1>6. QED
  BY <1>1, <1>3, <1>4, <1>5 DEF LateHost

LEMMA HeldHostIs ==
    ASSUME NEW h \in Host, HostFits(h), h.stage = "started"
    PROVE  LET g == [h EXCEPT !.stage = "held"] IN
           /\ g \in Host /\ HostFits(g)
           /\ g.stage = "held" /\ g.msg = h.msg /\ g.made = h.made /\ g.accept = h.accept
           /\ g.ended = h.ended /\ g.ending = h.ending /\ g.quiet = h.quiet
           /\ g.answered = h.answered /\ g.ending_call = h.ending_call
           /\ g.place = h.place /\ g.page = h.page /\ g.drop = h.drop
<1>1. PICK g : g = [h EXCEPT !.stage = "held"]
  OBVIOUS
<1>2. /\ g \in Host
      /\ g.stage = "held" /\ g.msg = h.msg /\ g.made = h.made /\ g.accept = h.accept
      /\ g.ended = h.ended /\ g.ending = h.ending /\ g.quiet = h.quiet
      /\ g.answered = h.answered /\ g.ending_call = h.ending_call
      /\ g.place = h.place /\ g.page = h.page /\ g.drop = h.drop
  BY <1>1 DEF Host
<1>3. HostFits(g)
  BY <1>2 DEF HostFits, Untouched
<1>4. QED
  BY <1>1, <1>2, <1>3

LEMMA LandedWorld ==
    ASSUME TypeInv, NEW n \in Nums, IsLanded(n), reports' = reports
    PROVE  World'
<1>1. TypeOK /\ World
  BY DEF TypeInv
<1>2. PICK h : h = host[n]
  OBVIOUS
<1>3. /\ h \in Host /\ HostFits(h)
      /\ Current(n) /\ h.stage # "none" => h.stage \in Running
  BY <1>2, CurrentHost
<1>4. PICK g : g = host'[n]
  OBVIOUS
<1>5. host' = [host EXCEPT ![n] = g]
  BY <1>1, <1>4 DEF IsLanded, TypeOK
<1>6. CASE h.stage = "started"
  <2>1. /\ call' = call
        /\ g = IF Current(n) THEN [h EXCEPT !.stage = "held"] ELSE LateHost(h)
    BY <1>2, <1>4, <1>6 DEF IsLanded, LateHost
  <2>2. /\ g \in Host /\ HostFits(g) /\ g.msg = h.msg /\ g.place = h.place
        /\ g.accept = h.accept
        /\ g.stage = IF Current(n) THEN "held" ELSE "dropped"
    <3>1. CASE Current(n)
      BY <1>3, <1>6, <2>1, <3>1, HeldHostIs
    <3>2. CASE ~Current(n)
      BY <1>3, <1>6, <2>1, <3>2, LateHostIs
    <3>3. QED
      BY <3>1, <3>2
  <2>3. GoesOn(n, g)
    BY <1>2, <1>6, <2>2 DEF GoesOn, Running
  <2>4. QED
    BY <1>1, <1>5, <2>1, <2>3, HostWorld
<1>7. CASE h.stage = "failed"
  <2>1. /\ g = FailedHost(h)
        /\ IF Current(n)
           THEN call' = [call EXCEPT !.state = "ended", !.reason = call'.reason]
           ELSE call' = call
    BY <1>2, <1>4, <1>7 DEF IsLanded
  <2>2. /\ g \in Host /\ HostFits(g)
        /\ g.stage = "none" /\ g.msg = h.msg /\ g.accept = h.accept
        /\ g.place = h.place
    BY <1>3, <1>7, <2>1, FailedHostIs
  <2>3. /\ call'.num = call.num /\ call'.msg = call.msg /\ call'.incoming = call.incoming
        /\ call'.early = call.early
        /\ Current(n) => ~BusyIn(call')
        /\ ~Current(n) => call' = call
    <3>1. CASE Current(n)
      BY <1>1, <2>1, <3>1 DEF TypeOK, Call, BusyIn
    <3>2. CASE ~Current(n)
      BY <2>1, <3>2
    <3>3. QED
      BY <3>1, <3>2
  <2>4. h # NoHost /\ ~(n > call.num)
    BY <1>1, <1>2, <1>7 DEF NoHost, World, Hosts
  <2>5. \A k \in Nums : host'[k] = IF k = n THEN g ELSE host[k]
    BY <1>1, <1>5 DEF TypeOK
  <2>6. Busy' <=> BusyIn(call')
    BY DEF Busy
  <2>7. CallFits'
    <3>1. CASE n = call.num
      <4>1. call.num > 0 /\ call.num # 0
        BY <3>1, NumsNat DEF Nums
      <4>2. ~BusyIn(call')
        <5>1. CASE Current(n)
          BY <2>3, <5>1
        <5>2. CASE ~Current(n)
          BY <2>3, <3>1, <5>2 DEF Current, Busy
        <5>3. QED
          BY <5>1, <5>2
      <4>3. call'.state # "ringing"
        BY <4>2 DEF BusyIn
      <4>4. QED
        BY <1>1, <1>2, <1>7, <2>2, <2>3, <2>5, <2>6, <3>1, <4>1, <4>2, <4>3
           DEF World, CallFits
    <3>2. CASE n # call.num
      <4>1. call' = call
        BY <2>3, <3>2 DEF Current
      <4>2. call.num = 0 \/ call.num \in Nums
        BY <1>1, CurrentIs, NumsNat DEF Nums
      <4>3. call.num \in Nums => host'[call.num] = host[call.num]
        BY <2>5, <3>2
      <4>4. call.num = 0 => ~Busy /\ call.state # "ringing"
        BY <1>1 DEF World, CallFits, Busy, BusyIn
      <4>5. ~(0 > 0)
        OBVIOUS
      <4>6. QED
        BY <1>1, <2>6, <4>1, <4>2, <4>3, <4>4, <4>5 DEF World, CallFits, Busy
    <3>3. QED
      BY <3>1, <3>2
  <2>8. Hosts'
    <3>1. ASSUME NEW k \in Nums
          PROVE  HostFits(host'[k]) /\ (k > call.num => host'[k] = NoHost)
                 /\ (host'[k].stage = "held" => k = call.num /\ Busy')
      <4>1. CASE k = n
        BY <2>2, <2>4, <2>5, <4>1
      <4>2. CASE k # n
        <5>1. host[k].stage = "held" => k = call.num /\ ~Current(n) /\ Busy
          BY <1>1, <4>2 DEF World, Hosts, Current
        <5>2. QED
          BY <1>1, <2>3, <2>5, <2>6, <4>2, <5>1 DEF World, Hosts, Busy
      <4>3. QED
        BY <4>1, <4>2
    <3>2. QED
      BY <2>3, <3>1 DEF Hosts, Current
  <2>9. ReportsFit'
    <3>1. \A r \in reports : r.num \in Nums
      BY <1>1 DEF TypeOK, Report
    <3>2. \A k \in Nums : host'[k].msg = host[k].msg /\ host'[k].place = host[k].place
      BY <1>2, <2>2, <2>5
    <3>3. QED
      BY <1>1, <2>3, <3>1, <3>2 DEF World, ReportsFit
  <2>10. QED
    BY <2>7, <2>8, <2>9 DEF World
<1>8. QED
  BY <1>2, <1>6, <1>7 DEF IsLanded

LEMMA HostLandsTypes ==
    ASSUME TypeInv, NEW n \in Nums, HostLands(n)
    PROVE  TypeInv'
<1>1. CoreTypes /\ AppTypes /\ BudgetTypes /\ GhostTypes /\ World
  BY TypeParts DEF TypeInv
<1>2. IsLanded(n) /\ reports' = reports
  BY LandedIs DEF HostLands
<1>3. AppTypes' /\ World'
  BY <1>1, <1>2, LandedWorld DEF IsLanded, AppTypes
<1>4. host[n].msg \in Msg
  BY <1>1 DEF AppTypes, Host
<1>5. GhostTypes'
  BY <1>1, <1>2, <1>4 DEF IsLanded, HostLands, GhostTypes, Msg
<1>6. CoreTypes' /\ BudgetTypes'
  BY <1>1 DEF HostLands, CoreTypes, coreVars, BudgetTypes
<1>7. QED
  BY <1>3, <1>5, <1>6, TypePartsNext DEF TypeInv

-----------------------------------------------------------------------------
(* Every step keeps the types and World: the Qt thread *)

LEMMA BecomesIs ==
    ASSUME NEW t \in State, Becomes(t)
    PROVE  Now' = t /\ call' = t.call /\ host' = t.host /\ tasks' = t.tasks
BY DEF Becomes, Now, State

LEMMA NowNext ==
    ASSUME Now' \in State
    PROVE  /\ Now'.call = call' /\ Now'.host = host' /\ Now'.tasks = tasks'
           /\ call' \in Call /\ host' \in [Nums -> Host] /\ tasks' \subseteq Task
BY DEF Now, State

LEMMA TakenUpTypes ==
    ASSUME GhostTypes, TakenUp, call'.num = call.num \/ call'.msg \in Ids
    PROVE  begun' \subseteq Ids /\ late' \subseteq Ids
BY DEF GhostTypes, TakenUp

LEMMA HandleEventIs ==
    ASSUME TypeInv, HandleEvent
    PROVE  /\ Head(events) \in Event /\ Now' \in State
           /\ IsHandled(Now, Head(events), Now')
           /\ events \in Seq(Event) /\ events # <<>> /\ events' = Tail(events)
<1>1. events \in Seq(Event) /\ events # <<>> /\ events' = Tail(events)
  BY DEF TypeInv, TypeOK, HandleEvent
<1>2. Head(events) \in Event
  BY <1>1
<1>3. PICK e \in Event : e = Head(events)
  BY <1>2
<1>4. PICK t : t = Handle(Now, e)
  OBVIOUS
<1>5. Now \in State
  BY NowIsState DEF TypeInv
<1>6. t \in State /\ IsHandled(Now, e, t)
  BY <1>4, <1>5, HandleIs
<1>7. Becomes(t)
  BY <1>3, <1>4 DEF HandleEvent
<1>8. Now' = t
  BY <1>6, <1>7, BecomesIs
<1>9. QED
  BY <1>1, <1>2, <1>3, <1>6, <1>8

\* What the app rings for, in its own terms.
IsRinging(m) ==
    /\ ~Busy /\ call.num < MaxCalls /\ host' = host
    /\ call' = [num |-> call.num + 1, state |-> "ringing", reason |-> "",
                msg |-> m, incoming |-> TRUE, early |-> <<>>]

LEMMA RungIs ==
    ASSUME TypeOK, NEW e \in Event, Now' \in State, IsRung(Now, e, Now')
    PROVE  /\ IsRinging(e.msg) /\ e.msg \in Ids /\ e.kind = "IncomingCall"
           /\ tasks' = tasks \cup {NewTask("watch", call.num + 1, e.msg)}
<1>1. Now \in State /\ Now.call = call /\ Now.host = host /\ Now.tasks = tasks
  BY NowIsState
<1>2. e.msg \in Ids
  BY DEF Event
<1>3. call.num < MaxCalls /\ ~BusyIn(call) /\ Now' = Ring(Now, e.msg) /\ e.kind = "IncomingCall"
  BY <1>1 DEF IsRung
<1>4. PICK t : t = Ring(Now, e.msg)
  OBVIOUS
<1>5. /\ t.tasks = Now.tasks \cup {NewTask("watch", Now.call.num + 1, e.msg)}
      /\ t.host = Now.host
      /\ t.call = [num |-> Now.call.num + 1, state |-> "ringing", reason |-> "",
                   msg |-> e.msg, incoming |-> TRUE, early |-> <<>>]
  BY <1>1, <1>2, <1>3, <1>4, RingIs
<1>6. Now'.call = call' /\ Now'.host = host' /\ Now'.tasks = tasks' /\ Now' = t
  BY <1>3, <1>4, NowNext
<1>7. QED
  BY <1>1, <1>2, <1>3, <1>5, <1>6 DEF IsRinging, Busy

\* The call's end, in the app's own terms: its host is h, and dropped if it was the call's.
IsClosed(h) ==
    /\ Busy /\ (h = host[call.num] \/ (h = Settled(host[call.num]) /\ call.msg \in Ids))
    /\ call' = [call EXCEPT !.state = "ended", !.reason = call'.reason]
    /\ \A k \in Nums : host'[k] = IF k = call.num THEN LetGo(h) ELSE host[k]

LEMMA EndedIsClosed ==
    ASSUME TypeOK, NEW e \in Event, Now' \in State, IsEnded(Now, e, Now')
    PROVE  /\ IsClosed(Settled(host[call.num])) /\ EndsIt(e, call.msg) /\ call.msg \in Ids
           /\ \/ tasks' = tasks
              \/ call.state = "ringing"
                 /\ tasks' = tasks \cup {NewTask("why", call.num, call.msg)}
<1>1. Now \in State /\ Now.call = call /\ Now.host = host /\ Now.tasks = tasks
  BY NowIsState
<1>2. Now'.call = call' /\ Now'.host = host' /\ Now'.tasks = tasks'
  BY NowNext
<1>3. EndsIt(e, call.msg) /\ call.msg \in Ids
  BY <1>1 DEF IsEnded, EndsIt, Event
<1>4. /\ Busy
      /\ call' = [call EXCEPT !.state = "ended", !.reason = call'.reason]
      /\ \A k \in Nums : host'[k] = IF k = call.num THEN LetGo(Settled(host[k])) ELSE host[k]
      /\ \/ tasks' = tasks
         \/ call.state = "ringing"
            /\ tasks' = tasks \cup {NewTask("why", call.num, call.msg)}
  BY <1>1, <1>2 DEF IsEnded, Busy
<1>5. IsClosed(Settled(host[call.num]))
  BY <1>3, <1>4 DEF IsClosed
<1>6. QED
  BY <1>3, <1>4, <1>5

LEMMA ClosedWorld ==
    ASSUME TypeOK, World, NEW h, IsClosed(h), host' \in [Nums -> Host], reports' \subseteq reports
    PROVE  World'
BY OverWorld DEF IsClosed

LEMMA HandledWorld ==
    ASSUME TypeOK, World, NEW e \in Event, Now' \in State, IsHandled(Now, e, Now'),
           reports' = reports
    PROVE  World' /\ (call'.num = call.num \/ call'.msg \in Ids)
<1>1. Now \in State /\ Now.call = call /\ Now.host = host /\ Now.tasks = tasks /\ call \in Call
  BY NowIsState DEF TypeOK
<1>2. Now'.call = call' /\ Now'.host = host' /\ Now'.tasks = tasks' /\ call' \in Call
      /\ host' \in [Nums -> Host]
  BY NowNext
<1>3. CASE IsKept(Now, e, Now')
  <2>1. /\ e.kind # "IncomingCall" /\ Unnamed(call) /\ host' = host
        /\ call' = [call EXCEPT !.early = call'.early]
        /\ call'.early \in {call.early, Append(call.early, e)}
    BY <1>1, <1>2, <1>3 DEF IsKept
  <2>2. call'.num = call.num
    BY <1>1, <2>1 DEF Call
  <2>3. QED
    BY <2>1, <2>2, KeptWorld
<1>4. CASE IsRung(Now, e, Now')
  <2>1. IsRinging(e.msg) /\ e.msg \in Ids
    BY <1>4, RungIs
  <2>2. PICK m \in Ids : m = e.msg
    BY <2>1
  <2>3. /\ ~Busy /\ call.num < MaxCalls /\ host' = host
        /\ call' = [num |-> call.num + 1, state |-> "ringing", reason |-> "",
                    msg |-> m, incoming |-> TRUE, early |-> <<>>]
    BY <2>1, <2>2 DEF IsRinging
  <2>4. call'.msg = m
    BY <2>3
  <2>5. World'
    BY <2>3, RungWorld
  <2>6. QED
    BY <2>4, <2>5
<1>5. CASE IsEnded(Now, e, Now')
  <2>1. PICK h : h = Settled(host[call.num])
    OBVIOUS
  <2>2. IsClosed(h)
    BY <1>5, <2>1, EndedIsClosed
  <2>3. World'
    BY <1>2, <2>2, ClosedWorld
  <2>4. call'.num = call.num
    BY <1>1, <2>2 DEF IsClosed, Call
  <2>5. QED
    BY <2>3, <2>4
<1>6. CASE IsAnswered(Now, e, Now')
  <2>1. World'
    BY <1>6, AnsweredWorld
  <2>2. call' = [call EXCEPT !.state = call'.state]
    BY <1>1, <1>2, <1>6 DEF IsAnswered
  <2>3. call'.num = call.num
    BY <1>1, <2>2 DEF Call
  <2>4. QED
    BY <2>1, <2>3
<1>7. CASE IsIgnored(Now, e, Now')
  <2>1. call' = call /\ host' = host
    BY <1>1, <1>2, <1>7 DEF IsIgnored
  <2>2. QED
    BY <2>1, SameWorld
<1>8. QED
  BY <1>3, <1>4, <1>5, <1>6, <1>7 DEF IsHandled

LEMMA HandleEventTypes ==
    ASSUME TypeInv, HandleEvent
    PROVE  TypeInv'
<1>1. CoreTypes /\ AppTypes /\ BudgetTypes /\ GhostTypes /\ World /\ TypeOK
  BY TypeParts DEF TypeInv
<1>2. PICK e \in Event : e = Head(events)
  BY HandleEventIs
<1>3. /\ Now' \in State /\ IsHandled(Now, e, Now')
      /\ events' = Tail(events) /\ events \in Seq(Event) /\ events # <<>>
  BY <1>2, HandleEventIs
<1>4. World' /\ (call'.num = call.num \/ call'.msg \in Ids)
  BY <1>1, <1>3, HandledWorld DEF HandleEvent
<1>5. AppTypes' /\ CoreTypes' /\ BudgetTypes'
  BY <1>1, <1>3, NowNext DEF AppTypes, CoreTypes, BudgetTypes, HandleEvent
<1>6. handed' \subseteq Ids
  BY <1>1 DEF HandleEvent, HeardElsewhere, GhostTypes
<1>7. begun' \subseteq Ids /\ late' \subseteq Ids
  BY <1>1, <1>4, TakenUpTypes DEF HandleEvent
<1>8. GhostTypes'
  BY <1>1, <1>6, <1>7 DEF HandleEvent, GhostTypes
<1>9. QED
  BY <1>4, <1>5, <1>8, TypePartsNext DEF TypeInv

LEMMA ReportLandsIs ==
    ASSUME TypeInv, NEW r \in reports, ReportLands(r)
    PROVE  /\ r \in Report /\ Now' \in State
           /\ IF Current(r.num) THEN IsTaken(Now, r, Now') ELSE Now' = Now
<1>1. TypeOK /\ World
  BY DEF TypeInv
<1>2. r \in Report
  BY <1>1 DEF TypeOK
<1>3. Now \in State /\ Now.call = call /\ Now.host = host /\ Now.tasks = tasks
  BY <1>1, NowIsState
<1>4. CASE ~Current(r.num)
  <2>1. Becomes(Now)
    BY <1>4 DEF ReportLands
  <2>2. PICK t : t = Now
    OBVIOUS
  <2>3. Now' = t
    BY <1>3, <2>1, <2>2, BecomesIs
  <2>4. QED
    BY <1>2, <1>3, <1>4, <2>2, <2>3
<1>5. CASE Current(r.num)
  <2>1. PICK t : t = Take(Now, r)
    OBVIOUS
  <2>2. Becomes(t)
    BY <1>5, <2>1 DEF ReportLands
  <2>3. BusyIn(Now.call)
    BY <1>3, <1>5 DEF Current, Busy
  <2>4. r.kind = "placed" => NamedState(NamedBy(Now, r))
    BY <1>1, <1>5, NamedByPlaced
  <2>5. \A i \in DOMAIN Now.call.early : Now.call.early[i].kind # "IncomingCall"
    BY <1>1, <1>3 DEF World, CallFits
  <2>6. t \in State /\ IsTaken(Now, r, t)
    BY <1>2, <1>3, <2>1, <2>3, <2>4, <2>5, TakeIs
  <2>7. Now' = t
    BY <2>2, <2>6, BecomesIs
  <2>8. QED
    BY <1>2, <1>5, <2>6, <2>7
<1>6. QED
  BY <1>4, <1>5

\* A report of the call: names it, moves it on, or ends it.
IsReported(r) ==
    \/ r.kind = "placed" /\ IsNamed(r)
    \/ /\ r.kind # "placed" /\ host' = host /\ tasks' = tasks
       /\ call' = [call EXCEPT !.state = call'.state]
       /\ Busy' /\ (call'.state = "ringing" <=> call.state = "ringing")
    \/ r.kind # "placed" /\ IsClosed(host[call.num]) /\ tasks' = tasks

LEMMA ReportedIs ==
    ASSUME TypeInv, NEW r \in reports, ReportLands(r)
    PROVE  IF Current(r.num) THEN IsReported(r) ELSE UNCHANGED <<call, host, tasks>>
<1>1. TypeOK /\ World
  BY DEF TypeInv
<1>2. Now \in State /\ Now.call = call /\ Now.host = host /\ Now.tasks = tasks
  BY <1>1, NowIsState
<1>3. r \in Report /\ Now' \in State
  BY ReportLandsIs
<1>4. Now'.call = call' /\ Now'.host = host' /\ Now'.tasks = tasks'
  BY <1>3, NowNext
<1>5. CASE ~Current(r.num)
  BY <1>2, <1>4, <1>5, ReportLandsIs
<1>6. CASE Current(r.num)
  <2>1. IsTaken(Now, r, Now') /\ Busy
    BY <1>6, ReportLandsIs DEF Current
  <2>2. CASE r.kind = "placed"
    <3>1. IsFed(NamedBy(Now, r), Now.call.early, Len(Now.call.early), Now')
      BY <2>1, <2>2 DEF IsTaken
    <3>2. IsNamed(r)
      BY <1>1, <1>3, <1>6, <2>2, <3>1, FedIsNamed
    <3>3. QED
      BY <1>6, <2>2, <3>2 DEF IsReported
  <2>3. CASE r.kind # "placed" /\ IsMoved(Now, Now')
    <3>1. /\ host' = host /\ tasks' = tasks
          /\ call' = [call EXCEPT !.state = call'.state]
          /\ BusyIn(call') /\ (call'.state = "ringing" <=> call.state = "ringing")
      BY <1>2, <1>4, <2>3 DEF IsMoved
    <3>2. Busy'
      BY <3>1 DEF Busy
    <3>3. QED
      BY <1>6, <2>3, <3>1, <3>2 DEF IsReported
  <2>4. CASE r.kind # "placed" /\ IsOver(Now, Now')
    <3>1. /\ tasks' = tasks
          /\ call' = [call EXCEPT !.state = "ended", !.reason = call'.reason]
          /\ \A k \in Nums : host'[k] = IF k = call.num THEN LetGo(host[k]) ELSE host[k]
      BY <1>2, <1>4, <2>4 DEF IsOver
    <3>2. IsClosed(host[call.num])
      BY <2>1, <3>1 DEF IsClosed
    <3>3. QED
      BY <1>6, <2>4, <3>1, <3>2 DEF IsReported
  <2>5. QED
    BY <2>1, <2>2, <2>3, <2>4 DEF IsTaken
<1>7. QED
  BY <1>5, <1>6

LEMMA ReportLandsTypes ==
    ASSUME TypeInv, NEW r \in reports, ReportLands(r)
    PROVE  TypeInv'
<1>1. CoreTypes /\ AppTypes /\ BudgetTypes /\ GhostTypes /\ World /\ TypeOK
  BY TypeParts DEF TypeInv
<1>2. reports' \subseteq reports /\ r \in Report /\ Now' \in State
  BY ReportLandsIs DEF ReportLands
<1>3. call' \in Call /\ host' \in [Nums -> Host] /\ tasks' \subseteq Task
  BY <1>2, NowNext
<1>4. World'
  <2>1. CASE ~Current(r.num)
    <3>1. UNCHANGED <<call, host>>
      BY <2>1, ReportedIs
    <3>2. QED
      BY <1>1, <1>2, <3>1 DEF World, CallFits, Hosts, ReportsFit, Current, Busy
  <2>2. CASE Current(r.num)
    <3>1. IsReported(r) /\ Busy
      BY <2>2, ReportedIs DEF Current
    <3>2. CASE r.kind = "placed" /\ IsNamed(r)
      BY <1>1, <1>2, <2>2, <3>2, NamedWorld
    <3>3. CASE /\ host' = host
               /\ call' = [call EXCEPT !.state = call'.state]
               /\ Busy' /\ (call'.state = "ringing" <=> call.state = "ringing")
      <4>1. call' = [call EXCEPT !.state = call'.state, !.reason = call'.reason]
        BY <1>1, <3>3 DEF AppTypes, Call
      <4>2. call.num > 0
        BY <1>1, <3>1, BusyNum, NumsNat DEF Nums
      <4>3. QED
        BY <1>1, <1>2, <3>1, <3>3, <4>1, <4>2, MovedWorld
    <3>4. CASE IsClosed(host[call.num])
      <4>1. PICK h : h = host[call.num]
        OBVIOUS
      <4>2. QED
        BY <1>1, <1>2, <1>3, <3>4, <4>1, ClosedWorld
    <3>5. QED
      BY <3>1, <3>2, <3>3, <3>4 DEF IsReported
  <2>3. QED
    BY <2>1, <2>2
<1>5. AppTypes'
  BY <1>1, <1>2, <1>3 DEF AppTypes
<1>6. CoreTypes' /\ BudgetTypes' /\ GhostTypes'
  BY <1>1 DEF ReportLands, CoreTypes, coreVars, BudgetTypes, GhostTypes, ghostVars
<1>7. QED
  BY <1>4, <1>5, <1>6, TypePartsNext DEF TypeInv

ServedHost(m) == [NoHost EXCEPT !.stage = "starting", !.msg = m]

LEMMA ServedHostIs ==
    ASSUME NEW m \in Msg
    PROVE  LET g == ServedHost(m) IN
           /\ g \in Host /\ HostFits(g)
           /\ g.stage = "starting" /\ g.msg = m /\ g.made = 0 /\ g.accept = "no"
           /\ ~g.ended /\ ~g.ending /\ ~g.quiet
           /\ ~g.answered /\ g.ending_call = "no"
           /\ g.place = "no" /\ g.page = "no" /\ g.drop = "no"
<1>1. PICK g : g = ServedHost(m)
  OBVIOUS
<1>2. PICK z : z = NoHost
  OBVIOUS
<1>3. /\ z \in Host /\ z.made = 0 /\ z.accept = "no"
      /\ ~z.ended /\ ~z.ending /\ ~z.quiet
      /\ ~z.answered /\ z.ending_call = "no"
      /\ z.place = "no" /\ z.page = "no" /\ z.drop = "no"
  BY <1>2, NoHostIs DEF NoHost
<1>4. g = [z EXCEPT !.stage = "starting", !.msg = m]
  BY <1>1, <1>2 DEF ServedHost
<1>5. /\ g \in Host /\ g.stage = "starting" /\ g.msg = m /\ g.made = 0 /\ g.accept = "no"
      /\ ~g.ended /\ ~g.ending /\ ~g.quiet
      /\ ~g.answered /\ g.ending_call = "no"
      /\ g.place = "no" /\ g.page = "no" /\ g.drop = "no"
  BY <1>3, <1>4 DEF Host
<1>6. HostFits(g)
  BY <1>5 DEF HostFits, Untouched
<1>7. QED
  BY <1>1, <1>5, <1>6

\* What Place does.
IsPlaced ==
    /\ ~Busy /\ call.num < MaxCalls /\ tasks' = tasks
    /\ host' = [host EXCEPT ![call.num + 1] = ServedHost(0)]
    /\ call' = [num |-> call.num + 1, state |-> "starting", reason |-> "",
                msg |-> 0, incoming |-> FALSE, early |-> <<>>]

LEMMA PlacedIs ==
    ASSUME TypeInv, Place
    PROVE  IsPlaced /\ Now' \in State
<1>1. Now \in State /\ Now.call = call /\ Now.host = host /\ Now.tasks = tasks
  BY NowIsState DEF TypeInv
<1>2. ~Busy /\ call.num < MaxCalls
  BY DEF Place
<1>3. PICK o : o = Begin(Now, "starting", 0, FALSE)
  OBVIOUS
<1>4. "starting" \in States /\ 0 \in Msg
  BY DEF States, Msg
<1>5. /\ o \in State /\ o.tasks = tasks /\ o.host = host
      /\ o.call = [num |-> call.num + 1, state |-> "starting", reason |-> "", msg |-> 0,
                   incoming |-> FALSE, early |-> <<>>]
  BY <1>1, <1>2, <1>3, <1>4, BeginIs
<1>6. call.num + 1 \in Nums
  BY <1>1, <1>2, NumNext
<1>7. PICK t : t = Serve(o)
  OBVIOUS
<1>8. /\ t \in State /\ t.tasks = tasks /\ t.call = o.call
      /\ \A k \in Nums : t.host[k] = IF k = call.num + 1 THEN ServedHost(0) ELSE host[k]
  <2>1. o.call.num = call.num + 1 /\ o.call.msg = 0
    <3>1. PICK k : k = call.num + 1
      OBVIOUS
    <3>2. PICK c : c = o.call
      OBVIOUS
    <3>3. c = [num |-> k, state |-> "starting", reason |-> "", msg |-> 0,
               incoming |-> FALSE, early |-> <<>>]
      BY <1>5, <3>1, <3>2
    <3>4. c.num = k /\ c.msg = 0
      BY <3>3
    <3>5. QED
      BY <3>1, <3>2, <3>4
  <2>2. o.call.num \in Nums
    BY <1>6, <2>1
  <2>3. /\ Serve(o) \in State /\ Serve(o).tasks = o.tasks /\ Serve(o).call = o.call
        /\ \A k \in Nums : Serve(o).host[k] = IF k = o.call.num THEN ServedHost(o.call.msg)
                                              ELSE o.host[k]
    BY <1>5, <2>2, ServeIs DEF ServedHost
  <2>4. QED
    BY <1>5, <1>7, <2>1, <2>3
<1>9. t.host = [host EXCEPT ![call.num + 1] = ServedHost(0)]
  <2>1. t.host \in [Nums -> Host] /\ host \in [Nums -> Host]
    BY <1>1, <1>8 DEF State
  <2>2. QED
    BY <1>8, <2>1
<1>10. Becomes(t)
  BY <1>3, <1>7 DEF Place
<1>11. Now' = t /\ call' = t.call /\ host' = t.host /\ tasks' = t.tasks
  BY <1>8, <1>10, BecomesIs
<1>12. QED
  BY <1>2, <1>5, <1>8, <1>9, <1>11 DEF IsPlaced

LEMMA PlaceTypes ==
    ASSUME TypeInv, Place
    PROVE  TypeInv'
<1>1. CoreTypes /\ AppTypes /\ BudgetTypes /\ GhostTypes /\ World /\ TypeOK
  BY TypeParts DEF TypeInv
<1>2. IsPlaced /\ Now' \in State
  BY PlacedIs
<1>3. call' \in Call /\ host' \in [Nums -> Host] /\ tasks' \subseteq Task
  BY <1>2, NowNext
<1>4. PICK c \in 0..MaxCalls : c = call.num /\ c < MaxCalls
  BY <1>1, <1>2 DEF AppTypes, Call, IsPlaced
<1>5. /\ c + 1 \in Nums /\ c + 1 # 0 /\ c + 1 > 0 /\ c + 1 > c
      /\ \A k \in Nums : (k > c + 1 => k > c) /\ (k <= c => k <= c + 1)
  BY <1>4, NextNum
<1>6. PICK n \in Nums : n = c + 1 /\ n # 0 /\ n > 0 /\ n > c
  BY <1>5
<1>7. PICK g : g = ServedHost(0)
  OBVIOUS
<1>8. /\ g \in Host /\ HostFits(g) /\ g.stage = "starting" /\ g.msg = 0 /\ g.place = "no"
      /\ g.accept = "no"
  BY <1>7, ServedHostIs DEF Msg
<1>9. /\ call'.num = n /\ call'.state = "starting" /\ call'.msg = 0 /\ ~call'.incoming
      /\ call'.early = <<>>
  BY <1>2, <1>4, <1>6 DEF IsPlaced
<1>10. host'[n] = g /\ \A k \in Nums : k # n => host'[k] = host[k]
  <2>1. host' = [host EXCEPT ![n] = g]
    BY <1>2, <1>4, <1>6, <1>7 DEF IsPlaced
  <2>2. QED
    BY <1>1, <2>1 DEF AppTypes
<1>11. host[n] = NoHost
  BY <1>1, <1>4, <1>6 DEF World, Hosts
<1>12. Busy'
  BY <1>9 DEF Busy, BusyIn
<1>13. CallFits'
  BY <1>6, <1>8, <1>9, <1>10, NoEntries DEF CallFits, Running
<1>14. ~Busy
  BY <1>2 DEF IsPlaced
<1>15. Hosts'
  <2>1. ASSUME NEW k \in Nums
        PROVE  HostFits(host'[k]) /\ (k > n => host'[k] = NoHost) /\ host'[k].stage # "held"
    <3>1. CASE k = n
      <4>1. ~(n > n)
        BY NumsNat
      <4>2. QED
        BY <1>8, <1>10, <3>1, <4>1
    <3>2. CASE k # n
      <4>1. k > n => k > c
        BY <1>5, <1>6
      <4>2. QED
        BY <1>1, <1>4, <1>10, <1>14, <3>2, <4>1 DEF World, Hosts, Current
    <3>3. QED
      BY <3>1, <3>2
  <2>2. QED
    BY <1>9, <2>1 DEF Hosts
<1>16. ReportsFit'
  <2>1. ASSUME NEW r \in reports
        PROVE  /\ r.num <= n
               /\ r.kind = "placed" => /\ r.msg \in Ids /\ r.msg = host'[r.num].msg
                                       /\ host'[r.num].place = "done"
    <3>1. r.num \in Nums
      BY <1>1 DEF AppTypes, Report
    <3>2. r.num <= c /\ (r.kind = "placed" => /\ r.msg \in Ids /\ r.msg = host[r.num].msg
                                              /\ host[r.num].place = "done")
      BY <1>1, <1>4, <2>1 DEF World, ReportsFit
    <3>3. r.num # n
      BY <1>6, <3>1, <3>2, NumsNat
    <3>4. QED
      BY <1>5, <1>6, <1>10, <3>1, <3>2, <3>3
  <2>2. QED
    BY <1>9, <2>1 DEF ReportsFit, Place
<1>17. AppTypes' /\ World'
  BY <1>1, <1>3, <1>13, <1>15, <1>16 DEF World, AppTypes, Place
<1>18. CoreTypes' /\ BudgetTypes' /\ GhostTypes'
  BY <1>1, SpendTypes, Kinds DEF Place, CoreTypes, coreVars, GhostTypes, ghostVars
<1>19. QED
  BY <1>17, <1>18, TypePartsNext DEF TypeInv

LEMMA PickUpTypes ==
    ASSUME TypeInv, NEW m \in Ids, PickUp(m)
    PROVE  TypeInv'
<1>1. CoreTypes /\ AppTypes /\ BudgetTypes /\ GhostTypes /\ World /\ TypeOK
  BY TypeParts DEF TypeInv
<1>2. PICK t : t = NewTask("pick", 0, m)
  OBVIOUS
<1>3. t \in Task
  <2>1. 0 \in 0..MaxCalls
    BY NumsNat
  <2>2. QED
    BY <1>2, <2>1, WhyTask
<1>4. PICK o : o = Started(Now, t)
  OBVIOUS
<1>5. /\ o \in State /\ o.call = call /\ o.host = host /\ o.tasks = tasks \cup {t}
  BY <1>1, <1>3, <1>4, StartedIs, NowIsState
<1>6. Becomes(o)
  BY <1>2, <1>4 DEF PickUp
<1>7. call' = call /\ host' = host /\ tasks' = tasks \cup {t}
  BY <1>5, <1>6, BecomesIs
<1>8. AppTypes' /\ World'
  BY <1>1, <1>3, <1>7, SameWorld DEF PickUp, AppTypes
<1>9. CoreTypes' /\ BudgetTypes' /\ GhostTypes'
  BY <1>1, SpendTypes, Kinds DEF PickUp, CoreTypes, coreVars, GhostTypes, ghostVars
<1>10. QED
  BY <1>8, <1>9, TypePartsNext DEF TypeInv

\* s without one of its tasks.
LEMMA Without ==
    ASSUME TypeInv, NEW t
    PROVE  LET s == [Now EXCEPT !.tasks = @ \ {t}] IN
           s \in State /\ s.call = call /\ s.host = host /\ s.tasks = tasks \ {t}
<1>1. Now \in State /\ Now.call = call /\ Now.host = host /\ Now.tasks = tasks
  BY NowIsState DEF TypeInv
<1>2. QED
  BY <1>1 DEF State

LEMMA PickedUpIs ==
    ASSUME TypeInv, NEW t \in tasks, PickUpLands(t)
    PROVE  /\ t.msg \in Ids /\ Now' \in State
           /\ \/ UNCHANGED <<call, host>> /\ tasks' = tasks \ {t}
              \/ /\ t.found = "Alerting" /\ IsRinging(t.msg)
                 /\ tasks' = (tasks \ {t}) \cup {NewTask("watch", call.num + 1, t.msg)}
<1>1. t.msg \in Ids
  BY DEF TypeInv, TypeOK, Task
<1>2. PICK s : s = [Now EXCEPT !.tasks = @ \ {t}]
  OBVIOUS
<1>3. s \in State /\ s.call = call /\ s.host = host /\ s.tasks = tasks \ {t}
  BY <1>2, Without
<1>4. Becomes(IF t.found = "Alerting" /\ ~Busy /\ call.num < MaxCalls THEN Ring(s, t.msg) ELSE s)
  BY <1>2 DEF PickUpLands
<1>5. CASE t.found = "Alerting" /\ ~Busy /\ call.num < MaxCalls
  <2>1. PICK o : o = Ring(s, t.msg)
    OBVIOUS
  <2>2. /\ o \in State /\ o.tasks = s.tasks \cup {NewTask("watch", s.call.num + 1, t.msg)}
        /\ o.host = s.host
        /\ o.call = [num |-> s.call.num + 1, state |-> "ringing", reason |-> "",
                     msg |-> t.msg, incoming |-> TRUE, early |-> <<>>]
    BY <1>1, <1>3, <1>5, <2>1, RingIs
  <2>3. Becomes(o)
    BY <1>4, <1>5, <2>1
  <2>4. Now' = o /\ call' = o.call /\ host' = o.host /\ tasks' = o.tasks
    BY <2>2, <2>3, BecomesIs
  <2>5. QED
    BY <1>1, <1>3, <1>5, <2>2, <2>4 DEF IsRinging
<1>6. CASE ~(t.found = "Alerting" /\ ~Busy /\ call.num < MaxCalls)
  <2>1. Becomes(s)
    BY <1>4, <1>6
  <2>2. QED
    BY <1>1, <1>3, <2>1, BecomesIs
<1>7. QED
  BY <1>5, <1>6

LEMMA PickUpLandsTypes ==
    ASSUME TypeInv, NEW t \in tasks, PickUpLands(t)
    PROVE  TypeInv'
<1>1. CoreTypes /\ AppTypes /\ BudgetTypes /\ GhostTypes /\ World /\ TypeOK
  BY TypeParts DEF TypeInv
<1>2. PICK m \in Ids : m = t.msg
  BY PickedUpIs
<1>3. /\ call' \in Call /\ host' \in [Nums -> Host] /\ tasks' \subseteq Task
      /\ UNCHANGED <<call, host>> \/ IsRinging(m)
  BY <1>2, PickedUpIs, NowNext
<1>4. World' /\ (call'.num = call.num \/ call'.msg \in Ids)
  <2>1. CASE UNCHANGED <<call, host>>
    BY <1>1, <2>1, SameWorld DEF PickUpLands
  <2>2. CASE IsRinging(m)
    <3>1. reports' = reports
      BY DEF PickUpLands
    <3>2. call'.msg = m
      BY <2>2 DEF IsRinging
    <3>3. World'
      BY <1>1, <2>2, <3>1, RungWorld DEF IsRinging
    <3>4. QED
      BY <3>2, <3>3
  <2>3. QED
    BY <1>3, <2>1, <2>2
<1>5. begun' \subseteq Ids /\ late' \subseteq Ids
  BY <1>1, <1>4, TakenUpTypes DEF PickUpLands
<1>6. AppTypes' /\ CoreTypes' /\ BudgetTypes' /\ GhostTypes'
  BY <1>1, <1>3, <1>5 DEF PickUpLands, AppTypes, CoreTypes, coreVars, BudgetTypes, GhostTypes
<1>7. QED
  BY <1>4, <1>6, TypePartsNext DEF TypeInv

\* What Answer does.
IsAccepted ==
    /\ call.state = "ringing" /\ call.num \in Nums /\ tasks' = tasks
    /\ host' = [host EXCEPT ![call.num] = ServedHost(call.msg)]
    /\ call' = [call EXCEPT !.state = "starting"]

LEMMA AcceptedIs ==
    ASSUME TypeInv, Answer
    PROVE  IsAccepted /\ Now' \in State
<1>1. Now \in State /\ Now.call = call /\ Now.host = host /\ Now.tasks = tasks
  BY NowIsState DEF TypeInv
<1>2. call.state = "ringing" /\ Busy
  BY DEF Answer, Busy, BusyIn
<1>3. call.num \in Nums
  BY <1>2, BusyNum DEF TypeInv
<1>4. PICK o : o = [Now EXCEPT !.call.state = "starting"]
  OBVIOUS
<1>5. /\ o \in State /\ o.tasks = tasks /\ o.host = host
      /\ o.call = [call EXCEPT !.state = "starting"] /\ o.call.num = call.num
      /\ o.call.msg = call.msg
  <2>1. PICK c : c = [call EXCEPT !.state = "starting"]
    OBVIOUS
  <2>2. c \in Call /\ c.num = call.num /\ c.msg = call.msg
    BY <1>1, <2>1 DEF State, Call, States
  <2>3. o = [Now EXCEPT !.call = c]
    BY <1>1, <1>4, <2>1
  <2>4. QED
    BY <1>1, <2>1, <2>2, <2>3 DEF State
<1>6. PICK t : t = Serve(o)
  OBVIOUS
<1>7. /\ t \in State /\ t.tasks = tasks /\ t.call = o.call
      /\ \A k \in Nums : t.host[k] = IF k = call.num THEN ServedHost(call.msg) ELSE host[k]
  <2>1. o.call.num = call.num /\ o.call.msg = call.msg
    BY <1>5
  <2>2. o.call.num \in Nums
    BY <1>3, <2>1
  <2>3. /\ Serve(o) \in State /\ Serve(o).tasks = o.tasks /\ Serve(o).call = o.call
        /\ \A k \in Nums : Serve(o).host[k] = IF k = o.call.num THEN ServedHost(o.call.msg)
                                              ELSE o.host[k]
    BY <1>5, <2>2, ServeIs DEF ServedHost
  <2>4. QED
    BY <1>5, <1>6, <2>1, <2>3
<1>8. t.host = [host EXCEPT ![call.num] = ServedHost(call.msg)]
  <2>1. t.host \in [Nums -> Host] /\ host \in [Nums -> Host]
    BY <1>1, <1>7 DEF State
  <2>2. QED
    BY <1>7, <2>1
<1>9. Becomes(t)
  BY <1>4, <1>6 DEF Answer
<1>10. Now' = t /\ call' = t.call /\ host' = t.host /\ tasks' = t.tasks
  BY <1>7, <1>9, BecomesIs
<1>11. QED
  BY <1>2, <1>3, <1>5, <1>7, <1>8, <1>10 DEF IsAccepted

LEMMA AnswerTypes ==
    ASSUME TypeInv, Answer
    PROVE  TypeInv'
<1>1. CoreTypes /\ AppTypes /\ BudgetTypes /\ GhostTypes /\ World /\ TypeOK
  BY TypeParts DEF TypeInv
<1>2. IsAccepted /\ Now' \in State
  BY AcceptedIs
<1>3. call' \in Call /\ host' \in [Nums -> Host] /\ tasks' \subseteq Task
  BY <1>2, NowNext
<1>4. PICK n \in Nums : n = call.num /\ n > 0 /\ n # 0
  BY <1>2, NumsNat DEF IsAccepted, Nums
<1>5. call.incoming /\ call.msg \in Ids /\ host[n] = NoHost
  BY <1>1, <1>2, <1>4 DEF World, CallFits, IsAccepted
<1>6. PICK g : g = ServedHost(call.msg)
  OBVIOUS
<1>7. /\ g \in Host /\ HostFits(g) /\ g.stage = "starting" /\ g.msg = call.msg /\ g.place = "no"
      /\ g.accept = "no"
  BY <1>5, <1>6, ServedHostIs DEF Msg
<1>8. /\ call'.num = n /\ call'.state = "starting" /\ call'.msg = call.msg /\ call'.incoming
      /\ call'.early = call.early
  BY <1>1, <1>2, <1>4, <1>5 DEF IsAccepted, AppTypes, Call
<1>9. host'[n] = g /\ \A k \in Nums : k # n => host'[k] = host[k]
  <2>1. host' = [host EXCEPT ![n] = g]
    BY <1>2, <1>4, <1>6 DEF IsAccepted
  <2>2. QED
    BY <1>1, <2>1 DEF AppTypes
<1>10. CallFits'
  BY <1>1, <1>4, <1>5, <1>7, <1>8, <1>9 DEF World, CallFits, Running
<1>11. Busy'
  BY <1>8 DEF Busy, BusyIn
<1>12. Hosts'
  <2>1. ASSUME NEW k \in Nums
        PROVE  HostFits(host'[k]) /\ (k > n => host'[k] = NoHost) /\ host'[k].stage # "held"
    <3>1. CASE k = n
      <4>1. ~(n > n)
        BY NumsNat
      <4>2. QED
        BY <1>7, <1>9, <3>1, <4>1
    <3>2. CASE k # n
      BY <1>1, <1>4, <1>9, <3>2 DEF World, Hosts, Current
    <3>3. QED
      BY <3>1, <3>2
  <2>2. QED
    BY <1>8, <2>1 DEF Hosts
<1>13. ReportsFit'
  <2>1. ASSUME NEW r \in reports
        PROVE  /\ r.num <= n
               /\ r.kind = "placed" => /\ r.msg \in Ids /\ r.msg = host'[r.num].msg
                                       /\ host'[r.num].place = "done"
    <3>1. r.num \in Nums
      BY <1>1 DEF AppTypes, Report
    <3>2. r.num <= n /\ (r.kind = "placed" => /\ r.msg \in Ids /\ r.msg = host[r.num].msg
                                              /\ host[r.num].place = "done")
      BY <1>1, <1>4, <2>1 DEF World, ReportsFit
    <3>3. r.kind = "placed" => r.num # n
      BY <1>5, <3>2 DEF NoHost
    <3>4. QED
      BY <1>9, <3>1, <3>2, <3>3
  <2>2. QED
    BY <1>8, <2>1 DEF ReportsFit, Answer
<1>14. AppTypes' /\ World'
  BY <1>1, <1>3, <1>10, <1>12, <1>13 DEF World, AppTypes, Answer
<1>15. CoreTypes' /\ BudgetTypes' /\ GhostTypes'
  BY <1>1, <1>5 DEF Answer, CoreTypes, coreVars, BudgetTypes, GhostTypes
<1>16. QED
  BY <1>14, <1>15, TypePartsNext DEF TypeInv

\* What HangUp does.
IsHungUp ==
    /\ IsClosed(host[call.num])
    /\ IF call.state = "ringing"
       THEN tasks' = tasks \cup {NewTask("decline", call.num, call.msg)}
       ELSE tasks' = tasks

LEMMA HungUpIs ==
    ASSUME TypeInv, HangUp
    PROVE  IsHungUp /\ Now' \in State
<1>1. Now \in State /\ Now.call = call /\ Now.host = host /\ Now.tasks = tasks
  BY NowIsState DEF TypeInv
<1>2. Busy /\ BusyIn(call)
  BY DEF HangUp, Busy
<1>3. ASSUME NEW s \in State, s.call = call, s.host = host, NEW reason \in Reasons,
             Becomes(Finish(s, reason))
      PROVE  IsClosed(host[call.num]) /\ tasks' = s.tasks /\ Now' \in State
  <2>1. PICK t : t = Finish(s, reason)
    OBVIOUS
  <2>2. t \in State /\ IsOver(s, t)
    BY <1>2, <1>3, <2>1, OverIs
  <2>3. Now' = t /\ call' = t.call /\ host' = t.host /\ tasks' = t.tasks
    BY <1>3, <2>1, <2>2, BecomesIs
  <2>4. /\ tasks' = s.tasks
        /\ call' = [call EXCEPT !.state = "ended", !.reason = call'.reason]
        /\ \A k \in Nums : host'[k] = IF k = call.num THEN LetGo(host[k]) ELSE host[k]
    BY <1>3, <2>2, <2>3 DEF IsOver
  <2>5. QED
    BY <1>2, <2>2, <2>3, <2>4 DEF IsClosed
<1>4. CASE call.state = "ringing"
  <2>1. call.msg \in Ids /\ call.num \in 0..MaxCalls
    BY <1>4, CurrentIs DEF TypeInv, World, CallFits, TypeOK, Call
  <2>2. PICK d : d = NewTask("decline", call.num, call.msg)
    OBVIOUS
  <2>3. d \in Task
    BY <2>1, <2>2, WhyTask
  <2>4. PICK s : s = Started(Now, d)
    OBVIOUS
  <2>5. s \in State /\ s.call = call /\ s.host = host /\ s.tasks = tasks \cup {d}
    BY <1>1, <2>3, <2>4, StartedIs
  <2>6. Becomes(Finish(s, "declined")) /\ "declined" \in Reasons
    BY <1>4, <2>2, <2>4 DEF HangUp, Reasons
  <2>7. IsClosed(host[call.num]) /\ tasks' = s.tasks /\ Now' \in State
    BY <1>3, <2>5, <2>6
  <2>8. QED
    BY <1>4, <2>2, <2>5, <2>7 DEF IsHungUp
<1>5. CASE call.state # "ringing"
  <2>1. PICK s : s = Now
    OBVIOUS
  <2>2. Becomes(Finish(s, "hung-up")) /\ "hung-up" \in Reasons
    BY <1>5, <2>1 DEF HangUp, Reasons
  <2>3. IsClosed(host[call.num]) /\ tasks' = s.tasks /\ Now' \in State
    BY <1>1, <1>3, <2>1, <2>2
  <2>4. QED
    BY <1>1, <1>5, <2>1, <2>3 DEF IsHungUp
<1>6. QED
  BY <1>4, <1>5

LEMMA HangUpTypes ==
    ASSUME TypeInv, HangUp
    PROVE  TypeInv'
<1>1. CoreTypes /\ AppTypes /\ BudgetTypes /\ GhostTypes /\ World /\ TypeOK
  BY TypeParts DEF TypeInv
<1>2. IsClosed(host[call.num]) /\ Now' \in State
  BY HungUpIs DEF IsHungUp
<1>3. call' \in Call /\ host' \in [Nums -> Host] /\ tasks' \subseteq Task
  BY <1>2, NowNext
<1>4. PICK h : h = host[call.num]
  OBVIOUS
<1>5. World'
  BY <1>1, <1>2, <1>3, <1>4, ClosedWorld DEF HangUp
<1>6. tells' \in [Ids -> Nat] /\ mine' \subseteq Ids
  <2>1. CASE call.state = "ringing"
    <3>1. PICK m \in Ids : m = call.msg
      BY <1>1, <2>1 DEF World, CallFits
    <3>2. Told(m) /\ mine' = mine \cup {m}
      BY <2>1, <3>1 DEF HangUp
    <3>3. QED
      BY <1>1, <3>2, ToldTypes DEF GhostTypes
  <2>2. CASE call.state # "ringing"
    BY <1>1, <2>2 DEF HangUp, GhostTypes
  <2>3. QED
    BY <2>1, <2>2
<1>7. AppTypes' /\ CoreTypes' /\ BudgetTypes' /\ GhostTypes'
  BY <1>1, <1>3, <1>6 DEF HangUp, AppTypes, CoreTypes, coreVars, BudgetTypes, GhostTypes
<1>8. QED
  BY <1>5, <1>7, TypePartsNext DEF TypeInv

LEMMA ResetTypes ==
    ASSUME TypeInv, Reset
    PROVE  /\ TypeInv' /\ host' = host /\ tasks' = tasks
           /\ call' = [call EXCEPT !.state = call'.state, !.reason = call'.reason]
           /\ ~Busy /\ ~Busy'
<1>1. CoreTypes /\ AppTypes /\ BudgetTypes /\ GhostTypes /\ World /\ TypeOK
  BY TypeParts DEF TypeInv
<1>2. PICK c : c = [call EXCEPT !.state = "", !.reason = ""]
  OBVIOUS
<1>3. c \in Call /\ c.state = "" /\ c.reason = "" /\ c.num = call.num
  BY <1>1, <1>2 DEF AppTypes, Call, States, Reasons
<1>4. PICK t : t = [Now EXCEPT !.call.state = "", !.call.reason = ""]
  OBVIOUS
<1>5. t \in State /\ t.call = c /\ t.host = host /\ t.tasks = tasks
  <2>1. Now \in State /\ Now.call = call /\ Now.host = host /\ Now.tasks = tasks
    BY <1>1, NowIsState
  <2>2. t = [Now EXCEPT !.call = c]
    BY <1>2, <1>4, <2>1 DEF State
  <2>3. QED
    BY <1>3, <2>1, <2>2 DEF State
<1>6. Becomes(t)
  BY <1>4 DEF Reset
<1>7. call' = c /\ host' = host /\ tasks' = tasks
  BY <1>5, <1>6, BecomesIs
<1>8. call' = [call EXCEPT !.state = call'.state, !.reason = call'.reason]
  BY <1>2, <1>3, <1>7
<1>9. ~Busy /\ ~Busy' /\ call'.state # "ringing" /\ call.state # "ringing"
  BY <1>3, <1>7 DEF Reset, Busy, BusyIn
<1>10. call.num > 0
  <2>1. call.num # 0
    BY <1>1 DEF Reset, World, CallFits
  <2>2. QED
    BY <1>1, <2>1, CurrentIs, NumsNat DEF AppTypes, Call
<1>11. World'
  BY <1>1, <1>7, <1>8, <1>9, <1>10, MovedWorld DEF Reset
<1>12. AppTypes' /\ CoreTypes' /\ BudgetTypes' /\ GhostTypes'
  BY <1>1, <1>3, <1>7
     DEF Reset, AppTypes, CoreTypes, coreVars, BudgetTypes, GhostTypes, ghostVars
<1>13. QED
  BY <1>7, <1>8, <1>9, <1>11, <1>12, TypePartsNext DEF TypeInv

LEMMA RingLimitIs ==
    ASSUME TypeInv, NEW t \in tasks, RingLimit(t)
    PROVE  /\ Now' \in State
           /\ \/ UNCHANGED <<call, host>> /\ tasks' = tasks \ {t}
              \/ /\ IsClosed(host[call.num]) /\ call.state = "ringing"
                 /\ tasks' = (tasks \ {t}) \cup {NewTask("why", call.num, call.msg)}
<1>1. PICK s : s = [Now EXCEPT !.tasks = @ \ {t}]
  OBVIOUS
<1>2. s \in State /\ s.call = call /\ s.host = host /\ s.tasks = tasks \ {t}
  BY <1>1, Without
<1>3. Becomes(IF Current(t.num) /\ call.state = "ringing" THEN FinishUnanswered(s) ELSE s)
  BY <1>1 DEF RingLimit
<1>4. CASE Current(t.num) /\ call.state = "ringing"
  <2>1. call.msg \in Ids /\ Busy
    BY <1>4 DEF TypeInv, World, CallFits, Current
  <2>2. PICK o : o = FinishUnanswered(s)
    OBVIOUS
  <2>3. /\ o \in State
        /\ o.tasks = s.tasks \cup {NewTask("why", s.call.num, s.call.msg)}
        /\ o.call = [s.call EXCEPT !.state = "ended", !.reason = ""]
        /\ \A k \in Nums : o.host[k] = IF k = s.call.num THEN LetGo(s.host[k]) ELSE s.host[k]
    <3>1. s.call.msg \in Ids
      BY <1>2, <2>1
    <3>2. /\ FinishUnanswered(s) \in State
          /\ FinishUnanswered(s).tasks = s.tasks \cup {NewTask("why", s.call.num, s.call.msg)}
          /\ FinishUnanswered(s).call = [s.call EXCEPT !.state = "ended", !.reason = ""]
          /\ \A k \in Nums : FinishUnanswered(s).host[k] =
                                IF k = s.call.num THEN LetGo(s.host[k]) ELSE s.host[k]
      BY <1>2, <3>1, FinishUnansweredIs
    <3>3. QED
      BY <2>2, <3>2
  <2>4. Becomes(o)
    BY <1>3, <1>4, <2>2
  <2>5. Now' = o /\ call' = o.call /\ host' = o.host /\ tasks' = o.tasks
    BY <2>3, <2>4, BecomesIs
  <2>6. call' = [call EXCEPT !.state = "ended", !.reason = ""]
    BY <1>2, <2>3, <2>5
  <2>7. call'.reason = ""
    BY <2>6 DEF TypeInv, TypeOK, Call
  <2>8. call' = [call EXCEPT !.state = "ended", !.reason = call'.reason]
    BY <2>6, <2>7
  <2>9. \A k \in Nums : host'[k] = IF k = call.num THEN LetGo(host[k]) ELSE host[k]
    BY <1>2, <2>3, <2>5
  <2>10. IsClosed(host[call.num])
    BY <2>1, <2>8, <2>9 DEF IsClosed
  <2>11. QED
    BY <1>2, <1>4, <2>3, <2>5, <2>10
<1>5. CASE ~(Current(t.num) /\ call.state = "ringing")
  <2>1. Becomes(s)
    BY <1>3, <1>5
  <2>2. QED
    BY <1>2, <2>1, BecomesIs
<1>6. QED
  BY <1>4, <1>5

LEMMA RingLimitTypes ==
    ASSUME TypeInv, NEW t \in tasks, RingLimit(t)
    PROVE  TypeInv'
<1>1. CoreTypes /\ AppTypes /\ BudgetTypes /\ GhostTypes /\ World /\ TypeOK
  BY TypeParts DEF TypeInv
<1>2. /\ call' \in Call /\ host' \in [Nums -> Host] /\ tasks' \subseteq Task
      /\ UNCHANGED <<call, host>> \/ IsClosed(host[call.num])
  BY RingLimitIs, NowNext
<1>3. World'
  <2>1. CASE UNCHANGED <<call, host>>
    BY <1>1, <2>1, SameWorld DEF RingLimit
  <2>2. CASE IsClosed(host[call.num])
    <3>1. PICK h : h = host[call.num]
      OBVIOUS
    <3>2. QED
      BY <1>1, <1>2, <2>2, <3>1, ClosedWorld DEF RingLimit
  <2>3. QED
    BY <1>2, <2>1, <2>2
<1>4. AppTypes' /\ CoreTypes' /\ BudgetTypes' /\ GhostTypes'
  BY <1>1, <1>2
     DEF RingLimit, AppTypes, CoreTypes, coreVars, BudgetTypes, GhostTypes, ghostVars
<1>5. QED
  BY <1>3, <1>4, TypePartsNext DEF TypeInv

\* What WhyLands does.
IsExplained(t) ==
    /\ host' = host /\ tasks' = tasks \ {t}
    /\ call' = [call EXCEPT !.reason = call'.reason]

LEMMA ExplainedIs ==
    ASSUME TypeInv, NEW t \in tasks, WhyLands(t)
    PROVE  IsExplained(t) /\ Now' \in State
<1>1. PICK s : s = [Now EXCEPT !.tasks = @ \ {t}]
  OBVIOUS
<1>2. s \in State /\ s.call = call /\ s.host = host /\ s.tasks = tasks \ {t} /\ call \in Call
  BY <1>1, Without DEF TypeInv, TypeOK
<1>3. PICK reason : reason = IF t.found = "Declined" THEN "declined" ELSE "missed"
  OBVIOUS
<1>4. Becomes(IF t.num # call.num THEN s ELSE [s EXCEPT !.call.reason = reason])
  BY <1>1, <1>3 DEF WhyLands
<1>5. CASE t.num # call.num
  <2>1. Now' \in State /\ call' = call /\ host' = host /\ tasks' = tasks \ {t}
    BY <1>2, <1>4, <1>5, BecomesIs
  <2>2. call = [call EXCEPT !.reason = call.reason]
    BY <1>2 DEF Call
  <2>3. QED
    BY <2>1, <2>2 DEF IsExplained
<1>6. CASE t.num = call.num
  <2>1. PICK c : c = [call EXCEPT !.reason = reason]
    OBVIOUS
  <2>2. c \in Call /\ c.reason = reason
    BY <1>2, <1>3, <2>1 DEF Call, Reasons
  <2>3. PICK o : o = [s EXCEPT !.call.reason = reason]
    OBVIOUS
  <2>4. o = [s EXCEPT !.call = c]
    BY <1>2, <2>1, <2>3
  <2>5. o \in State /\ o.call = c /\ o.host = host /\ o.tasks = tasks \ {t}
    BY <1>2, <2>2, <2>4 DEF State
  <2>6. Now' \in State /\ call' = c /\ host' = host /\ tasks' = tasks \ {t}
    BY <1>4, <1>6, <2>3, <2>5, BecomesIs
  <2>7. QED
    BY <2>1, <2>2, <2>6 DEF IsExplained
<1>7. QED
  BY <1>5, <1>6

LEMMA WhyLandsTypes ==
    ASSUME TypeInv, NEW t \in tasks, WhyLands(t)
    PROVE  TypeInv'
<1>1. CoreTypes /\ AppTypes /\ BudgetTypes /\ GhostTypes /\ World /\ TypeOK
  BY TypeParts DEF TypeInv
<1>2. IsExplained(t) /\ call' \in Call /\ host' \in [Nums -> Host] /\ tasks' \subseteq Task
  BY ExplainedIs, NowNext
<1>3. call'.state = call.state
      /\ call' = [call EXCEPT !.state = call'.state, !.reason = call'.reason]
  BY <1>1, <1>2 DEF IsExplained, AppTypes, Call
<1>4. Busy' <=> Busy
  BY <1>3 DEF Busy, BusyIn
<1>5. World'
  BY <1>1, <1>2, <1>3, <1>4, MovedWorld DEF IsExplained, WhyLands
<1>6. AppTypes' /\ CoreTypes' /\ BudgetTypes' /\ GhostTypes'
  BY <1>1, <1>2
     DEF WhyLands, AppTypes, CoreTypes, coreVars, BudgetTypes, GhostTypes, ghostVars
<1>7. QED
  BY <1>5, <1>6, TypePartsNext DEF TypeInv

-----------------------------------------------------------------------------
(* The types hold *)

LEMMA InitTypes ==
    ASSUME Init
    PROVE  TypeInv
<1>1. CoreTypes
  <2>1. <<>> \in Seq(Event)
    OBVIOUS
  <2>2. \A m \in Ids : [state |-> "none", incoming |-> FALSE, device |-> "none"] \in CoreCall
    BY DEF CoreCall
  <2>3. QED
    BY <2>1, <2>2 DEF Init, CoreTypes
<1>2. AppTypes
  BY NoCallIs, NoHostIs DEF Init, AppTypes
<1>3. BudgetTypes
  BY CallsAssumption DEF Init, BudgetTypes
<1>4. GhostTypes
  BY DEF Init, GhostTypes
<1>5. call = NoCall /\ call.num = 0 /\ call.state = "" /\ call.msg = 0 /\ ~call.incoming
      /\ call.early = <<>> /\ ~Busy
  BY NoCallIs DEF Init, NoCall, Busy
<1>6. \A n \in Nums : host[n] = NoHost /\ NoHost.stage = "none"
  BY DEF Init, NoHost
<1>7. CallFits
  <2>1. ~(0 > 0)
    OBVIOUS
  <2>2. QED
    BY <1>5, <2>1, NoEntries DEF CallFits
<1>8. Hosts
  BY <1>6, NoHostFits DEF Hosts
<1>9. ReportsFit
  BY DEF Init, ReportsFit
<1>10. QED
  BY <1>1, <1>2, <1>3, <1>4, <1>7, <1>8, <1>9, TypeParts DEF TypeInv, World

LEMMA SystemTypes ==
    ASSUME TypeInv, System
    PROVE  TypeInv'
<1>1. ASSUME NEW n \in Nums, NEW ok \in BOOLEAN, NEW done \in BOOLEAN, CoreAccepts(n, ok, done)
      PROVE  TypeInv'
  BY <1>1, CoreAcceptsTypes
<1>2. ASSUME NEW n \in Nums, NEW ok \in BOOLEAN, CoreEndsCall(n, ok) \/ HostStarts(n, ok)
      PROVE  TypeInv'
  BY <1>2, CoreEndsCallTypes, HostStartsTypes
<1>3. ASSUME NEW n \in Nums,
             \/ CorePlaces(n) \/ CoreRefuses(n) \/ HostLands(n) \/ PlaceAnswered(n)
             \/ PlaceChecks(n)
      PROVE  TypeInv'
  BY <1>3, CorePlacesTypes, CoreRefusesTypes, HostLandsTypes, PlaceAnsweredTypes,
     PlaceChecksTypes
<1>4. ASSUME NEW n \in Nums, NEW who \in {"place", "page", "drop"}, EndBegins(n, who)
      PROVE  TypeInv'
  BY <1>4, EndBeginsTypes
<1>5. ASSUME NEW t \in tasks, NEW ok \in BOOLEAN, CoreDeclines(t, ok)
      PROVE  TypeInv'
  BY <1>5, CoreDeclinesTypes
<1>6. ASSUME NEW t \in tasks, NEW found \in {"", "Alerting", "Declined", "other"},
             CoreSays(t, found)
      PROVE  TypeInv'
  BY <1>6, CoreSaysTypes
<1>7. ASSUME NEW t \in tasks, PickUpLands(t) \/ RingLimit(t) \/ WhyLands(t)
      PROVE  TypeInv'
  BY <1>7, PickUpLandsTypes, RingLimitTypes, WhyLandsTypes
<1>8. ASSUME NEW r \in reports, ReportLands(r)
      PROVE  TypeInv'
  BY <1>8, ReportLandsTypes
<1>9. CASE HandleEvent
  BY <1>9, HandleEventTypes
<1>10. QED
  BY <1>1, <1>2, <1>3, <1>4, <1>5, <1>6, <1>7, <1>8, <1>9 DEF System

LEMMA OthersTypes ==
    ASSUME TypeInv, Others
    PROVE  TypeInv'
<1>1. CASE CoreRings \/ CoreLosesEvents
  BY <1>1, CoreRingsTypes, CoreLosesEventsTypes
<1>2. ASSUME NEW m \in Ids, CoreTaken(m) \/ CoreAnswered(m) \/ CoreEnds(m) \/ PickUp(m)
      PROVE  TypeInv'
  BY <1>2, CoreTakenTypes, CoreAnsweredTypes, CoreEndsTypes, PickUpTypes
<1>3. ASSUME NEW n \in Nums, PagePlaces(n) \/ PageAccepts(n) \/ PageEnds(n)
      PROVE  TypeInv'
  BY <1>3, PagePlacesTypes, PageAcceptsTypes, PageEndsTypes
<1>4. ASSUME NEW n \in Nums, NEW k \in {"connected", "disconnected", "gave up"},
             PageConnects(n, k)
      PROVE  TypeInv'
  BY <1>4, PageConnectsTypes
<1>5. CASE Place \/ Answer \/ HangUp \/ Reset
  BY <1>5, PlaceTypes, AnswerTypes, HangUpTypes, ResetTypes
<1>6. QED
  BY <1>1, <1>2, <1>3, <1>4, <1>5 DEF Others

LEMMA StutterTypes ==
    ASSUME TypeInv, UNCHANGED vars
    PROVE  TypeInv'
<1>1. CoreTypes /\ AppTypes /\ BudgetTypes /\ GhostTypes /\ World
  BY TypeParts DEF TypeInv
<1>2. CoreTypes' /\ AppTypes' /\ BudgetTypes' /\ GhostTypes' /\ World'
  BY <1>1, SameWorld DEF vars, coreVars, appVars, ghostVars,
     CoreTypes, AppTypes, BudgetTypes, GhostTypes
<1>3. QED
  BY <1>2, TypePartsNext DEF TypeInv

\* However calls are begun, answered, placed and ended, and whatever of it comes in which
\* order: the call, its hosts, their tasks and reports stay of their type, every host is
\* of the call it was begun for, and none is held but the one of the call the app is in.
THEOREM TypesHold == Spec => [](TypeOK /\ World)
<1>1. Init => TypeInv
  BY InitTypes
<1>2. TypeInv /\ [Next]_vars => TypeInv'
  BY SystemTypes, OthersTypes, StutterTypes DEF Next
<1>3. Spec => []TypeInv
  BY <1>1, <1>2, PTL DEF Spec
<1>4. TypeInv <=> TypeOK /\ World
  BY DEF TypeInv
<1>5. QED
  BY <1>3, <1>4, PTL

-----------------------------------------------------------------------------
(* The inductive invariant: whose call it is *)

\* The core has m, as a call that came in, or as one that was placed.
CameIn(m) == core[m].state # "none" /\ core[m].incoming
WentOut(m) == core[m].state # "none" /\ ~core[m].incoming

BegunWay == /\ \A m \in begun : CameIn(m)
            /\ handed \subseteq begun

ToldWay == \A m \in Ids : tells[m] > 0 => m \in begun \/ WentOut(m)

CallWay == call.msg \in Ids => IF call.incoming THEN call.msg \in begun ELSE WentOut(call.msg)

HostWay(h) == /\ h.made \in Ids => WentOut(h.made)
              /\ h.place = "no" /\ h.msg \in Ids => h.msg \in begun

TaskWay == \A t \in tasks : t.kind = "pick" => CameIn(t.msg)

EventWay ==
    \A i \in DOMAIN events :
        events[i].kind \in {"IncomingCall", "IncomingCallAccepted"} => CameIn(events[i].msg)

\* Every call is spoken of only as what it is.
Ways == /\ BegunWay /\ ToldWay /\ CallWay /\ TaskWay /\ EventWay
        /\ \A n \in Nums : HostWay(host[n])

RingingNow(m) == call.state = "ringing" /\ call.msg = m
HasHost(n, m) == m \in {host[n].msg, host[n].made}
Holds(n, m) == HasHost(n, m) \/ (n = call.num /\ call.incoming /\ call.msg = m)

\* One host has a call, unless it was taken up once more.
OneHost == \A m \in Ids \ late : \A n, k \in Nums : Holds(n, m) /\ Holds(k, m) => n = k

\* A call whose end the core was told neither rings nor has a host that would tell it.
ToldInv ==
    \A m \in Ids \ late :
        tells[m] = 0 \/ (/\ tells[m] = 1 /\ ~RingingNow(m)
                         /\ \A n \in Nums : HasHost(n, m) => host[n].ended)

\* A host that has ended its call, or will have when it comes up.
Hushed(n) == \/ host[n].ended
             \/ host[n].quiet /\ host[n].stage \notin {"held", "dropped"} /\ ~Current(n)

\* A call seen to be another device's neither rings nor has a host that would end it.
HandedInv ==
    \A m \in handed \ late : ~RingingNow(m) /\ \A n \in Nums : HasHost(n, m) => Hushed(n)

Due == OneHost /\ ToldInv /\ HandedInv

DueInv == TypeInv /\ Ways /\ Due

-----------------------------------------------------------------------------
(* Steps that bring no call to anyone *)

\* What the core has, it keeps.
Grows == \A m \in Ids : (CameIn(m) => CameIn(m)') /\ (WentOut(m) => WentOut(m)')

\* Host n goes on from g to h: for the same calls, and hushed if it was.
Tame(n, g, h) ==
    /\ h.made = g.made /\ h.msg \in {g.msg, g.made}
    /\ h.place = "no" => g.place = "no" /\ h.msg = g.msg
    /\ g.ended => h.ended
    /\ g.quiet => h.quiet
    /\ h.stage \in {"held", "dropped"} =>
          g.stage \in {"held", "dropped"} \/ ~g.quiet \/ Current(n) \/ h.ended

CalmApp ==
    /\ call'.num = call.num /\ call'.incoming = call.incoming
    /\ call'.msg = call.msg \/ (~call.incoming /\ \A m \in Ids : call'.msg = m => WentOut(m))
    /\ call'.state = "ringing" => call.state = "ringing"
    /\ Busy' => Busy
    /\ \A n \in Nums : Tame(n, host[n], host'[n])
    /\ \A t \in tasks' \ tasks : t.kind = "pick" => CameIn(t.msg)

CalmGhosts == UNCHANGED <<tells, handed, begun, late>>

LEMMA WaysNext ==
    ASSUME TypeInv, Ways, Grows
    PROVE  /\ \A m \in begun : m \in Ids /\ CameIn(m)'
           /\ \A m \in Ids : tells[m] > 0 => m \in begun \/ WentOut(m)'
           /\ \A t \in tasks : t.kind = "pick" => CameIn(t.msg) /\ t.msg \in Ids
           /\ handed \subseteq begun
<1>1. begun \subseteq Ids /\ tasks \subseteq Task
  BY TypeParts DEF TypeInv, GhostTypes, AppTypes
<1>2. \A t \in tasks : t.msg \in Ids
  BY <1>1 DEF Task
<1>3. QED
  BY <1>1, <1>2 DEF Ways, BegunWay, ToldWay, TaskWay, Grows

LEMMA CalmWays ==
    ASSUME TypeInv, TypeInv', Ways, Grows, EventWay', CalmApp, ToldWay',
           begun' = begun, handed' \subseteq begun
    PROVE  Ways'
<1>1. /\ \A m \in begun : m \in Ids /\ CameIn(m)'
      /\ \A m \in Ids : tells[m] > 0 => m \in begun \/ WentOut(m)'
      /\ \A t \in tasks : t.kind = "pick" => CameIn(t.msg) /\ t.msg \in Ids
      /\ handed \subseteq begun
  BY WaysNext
<1>2. BegunWay'
  BY <1>1 DEF BegunWay
<1>3. CallWay'
  <2>1. PICK m : m = call'.msg
    OBVIOUS
  <2>2. ASSUME m \in Ids PROVE IF call.incoming THEN m \in begun ELSE WentOut(m)
    BY <2>1, <2>2 DEF Ways, CallWay, CalmApp
  <2>3. m \in Ids => IF call.incoming THEN m \in begun ELSE WentOut(m)'
    BY <2>2 DEF Grows
  <2>4. QED
    BY <2>1, <2>3 DEF CallWay, CalmApp, WentOut
<1>4. TaskWay'
  <2>1. ASSUME NEW t \in tasks', t.kind = "pick"
        PROVE  CameIn(t.msg)'
    <3>1. CameIn(t.msg)
      BY <1>1, <2>1 DEF CalmApp
    <3>2. t.msg \in Ids
      BY <2>1 DEF TypeInv, TypeOK, Task
    <3>3. QED
      BY <3>1, <3>2 DEF Grows
  <2>2. QED
    BY <2>1 DEF TaskWay
<1>5. ASSUME NEW n \in Nums PROVE HostWay(host[n])'
  <2>1. PICK g : g = host[n]
    OBVIOUS
  <2>2. PICK h : h = host'[n]
    OBVIOUS
  <2>3. HostWay(g) /\ Tame(n, g, h)
    BY <2>1, <2>2 DEF Ways, CalmApp
  <2>4. h.made \in Ids => WentOut(h.made)'
    BY <2>3 DEF HostWay, Tame, Grows
  <2>5. h.place = "no" /\ h.msg \in Ids => h.msg \in begun'
    BY <2>3 DEF HostWay, Tame
  <2>6. QED
    BY <2>2, <2>4, <2>5 DEF HostWay, WentOut
<1>6. QED
  BY <1>2, <1>3, <1>4, <1>5 DEF Ways

\* What a calm step leaves: who has a call, and who is hushed.
LEMMA CalmHolds ==
    ASSUME TypeInv, CalmApp, NEW m \in Ids, NEW n \in Nums
    PROVE  /\ HasHost(n, m)' => HasHost(n, m)
           /\ Holds(n, m)' => Holds(n, m)
           /\ RingingNow(m)' => RingingNow(m)
           /\ host[n].ended => host'[n].ended
           /\ Hushed(n) => Hushed(n)'
<1>1. Tame(n, host[n], host'[n])
  BY DEF CalmApp
<1>2. HasHost(n, m)' => HasHost(n, m)
  BY <1>1 DEF HasHost, Tame
<1>3. Holds(n, m)' => Holds(n, m)
  BY <1>2 DEF Holds, CalmApp
<1>4. call.state = "ringing" => call.incoming
  BY DEF TypeInv, World, CallFits
<1>5. RingingNow(m)' => RingingNow(m)
  BY <1>4 DEF RingingNow, CalmApp
<1>6. Current(n)' => Current(n)
  BY DEF Current, CalmApp
<1>7. Hushed(n) => Hushed(n)'
  BY <1>1, <1>6 DEF Hushed, Tame
<1>8. QED
  BY <1>1, <1>2, <1>3, <1>5, <1>7 DEF Tame

LEMMA CalmOneHost ==
    ASSUME TypeInv, Due, CalmApp, late' = late
    PROVE  OneHost'
<1>1. ASSUME NEW m \in Ids \ late, NEW n \in Nums, NEW k \in Nums,
             Holds(n, m)', Holds(k, m)'
      PROVE  n = k
  BY <1>1, CalmHolds DEF Due, OneHost
<1>2. QED
  BY <1>1 DEF OneHost

LEMMA CalmTold ==
    ASSUME TypeInv, Due, CalmApp, NEW m \in Ids \ late, tells'[m] = tells[m]
    PROVE  tells'[m] = 0 \/ (/\ tells'[m] = 1 /\ ~RingingNow(m)'
                             /\ \A n \in Nums : HasHost(n, m)' => host'[n].ended)
<1>1. ASSUME NEW n \in Nums, HasHost(n, m)', host[n].ended \/ ~HasHost(n, m)
      PROVE  host'[n].ended
  BY <1>1, CalmHolds
<1>2. RingingNow(m)' => RingingNow(m)
  BY CalmHolds DEF RingingNow, CalmApp, TypeInv, World, CallFits
<1>3. QED
  BY <1>1, <1>2 DEF Due, ToldInv

LEMMA CalmHanded ==
    ASSUME TypeInv, Due, CalmApp, NEW m \in handed \ late
    PROVE  ~RingingNow(m)' /\ \A n \in Nums : HasHost(n, m)' => Hushed(n)'
<1>1. m \in Ids
  BY TypeParts DEF TypeInv, GhostTypes
<1>2. ASSUME NEW n \in Nums, HasHost(n, m)', Hushed(n) \/ ~HasHost(n, m)
      PROVE  Hushed(n)'
  BY <1>1, <1>2, CalmHolds
<1>3. RingingNow(m)' => RingingNow(m)
  BY <1>1, CalmHolds DEF RingingNow, CalmApp, TypeInv, World, CallFits
<1>4. QED
  BY <1>2, <1>3 DEF Due, HandedInv

LEMMA CalmStep ==
    ASSUME DueInv, TypeInv', Grows, EventWay', CalmApp, CalmGhosts
    PROVE  DueInv'
<1>1. TypeInv /\ Ways /\ Due
  BY DEF DueInv
<1>2. ToldWay'
  BY <1>1, WaysNext DEF ToldWay, CalmGhosts
<1>3. Ways'
  BY <1>1, <1>2, CalmWays DEF CalmGhosts, Ways, BegunWay
<1>4. OneHost'
  BY <1>1, CalmOneHost DEF CalmGhosts
<1>5. ToldInv'
  <2>1. \A m \in Ids \ late : tells[m] = 0 \/ (/\ tells[m] = 1 /\ ~RingingNow(m)'
                                /\ \A n \in Nums : HasHost(n, m)' => host'[n].ended)
    BY <1>1, CalmTold DEF CalmGhosts
  <2>2. QED
    BY <2>1 DEF ToldInv, CalmGhosts
<1>6. HandedInv'
  <2>1. \A m \in handed \ late :
           ~RingingNow(m)' /\ \A n \in Nums : HasHost(n, m)' => Hushed(n)'
    BY <1>1, CalmHanded
  <2>2. QED
    BY <2>1 DEF HandedInv, CalmGhosts
<1>7. QED
  BY <1>3, <1>4, <1>5, <1>6 DEF DueInv, Due

\* The core is told that m is over, by one that had it.
LEMMA ToldStep ==
    ASSUME DueInv, TypeInv', Grows, EventWay', CalmApp, UNCHANGED <<handed, begun, late>>,
           NEW m \in Ids, Told(m), m \in begun \/ WentOut(m),
           m \notin late => /\ tells[m] = 0 /\ ~RingingNow(m)'
                           /\ \A n \in Nums : HasHost(n, m)' => host'[n].ended
    PROVE  DueInv'
<1>1. TypeInv /\ Ways /\ Due
  BY DEF DueInv
<1>2. \A k \in Ids : tells'[k] = IF k = m THEN tells[m] + 1 ELSE tells[k]
  BY <1>1, TypeParts DEF Told, TypeInv, GhostTypes
<1>3. ToldWay'
  <2>1. m \in begun \/ WentOut(m)'
    BY DEF Grows
  <2>2. \A k \in Ids : tells[k] > 0 => k \in begun \/ WentOut(k)'
    BY <1>1, WaysNext
  <2>3. QED
    BY <1>2, <2>1, <2>2 DEF ToldWay
<1>4. Ways'
  BY <1>1, <1>3, CalmWays DEF Ways, BegunWay
<1>5. OneHost'
  BY <1>1, CalmOneHost
<1>6. ToldInv'
  <2>1. ASSUME NEW k \in Ids \ late
        PROVE  tells'[k] = 0 \/ (/\ tells'[k] = 1 /\ ~RingingNow(k)'
                                 /\ \A n \in Nums : HasHost(n, k)' => host'[n].ended)
    <3>1. CASE k = m
      BY <1>2, <3>1
    <3>2. CASE k # m
      BY <1>1, <1>2, <3>2, CalmTold
    <3>3. QED
      BY <3>1, <3>2
  <2>2. QED
    BY <2>1 DEF ToldInv
<1>7. HandedInv'
  <2>1. \A k \in handed \ late :
           ~RingingNow(k)' /\ \A n \in Nums : HasHost(n, k)' => Hushed(n)'
    BY <1>1, CalmHanded
  <2>2. QED
    BY <2>1 DEF HandedInv
<1>8. QED
  BY <1>4, <1>5, <1>6, <1>7 DEF DueInv, Due

\* Events and what the core has.
LEMMA SameCore ==
    ASSUME core' = core
    PROVE  Grows /\ (EventWay /\ events' = events => EventWay')
BY DEF Grows, CameIn, WentOut, EventWay

\* A call of the core's that goes on in its own way, or is new.
LEMMA CoreMoves ==
    ASSUME CoreTypes, NEW m \in Ids, NEW c, core' = [core EXCEPT ![m] = c],
           CameIn(m) => c.state # "none" /\ c.incoming,
           WentOut(m) => c.state # "none" /\ ~c.incoming
    PROVE  Grows
<1>1. \A k \in Ids : core'[k] = IF k = m THEN c ELSE core[k]
  BY DEF CoreTypes
<1>2. QED
  BY <1>1 DEF Grows, CameIn, WentOut

LEMMA EventTold ==
    ASSUME CoreTypes, EventWay, Grows, NEW m \in Ids, NEW kind, NEW here, Tell(kind, m, here),
           kind \in {"IncomingCall", "IncomingCallAccepted"} => CameIn(m)'
    PROVE  EventWay'
<1>1. PICK e : e = [kind |-> kind, msg |-> m, here |-> here]
  OBVIOUS
<1>2. events \in Seq(Event) /\ events' = Append(events, e)
  BY <1>1 DEF CoreTypes, Tell
<1>3. ASSUME NEW i \in DOMAIN events', 
             events'[i].kind \in {"IncomingCall", "IncomingCallAccepted"}
      PROVE  \E k \in Ids : k = events'[i].msg /\ CameIn(k)'
  <2>1. CASE i \in DOMAIN events
    <3>1. events'[i] = events[i] /\ events[i] \in Event
      BY <1>2, <2>1
    <3>2. PICK k \in Ids : k = events[i].msg
      BY <3>1 DEF Event
    <3>3. CameIn(k)
      BY <1>3, <2>1, <3>1, <3>2 DEF EventWay
    <3>4. CameIn(k)'
      BY <3>3 DEF Grows
    <3>5. QED
      BY <3>1, <3>2, <3>4
  <2>2. CASE i \notin DOMAIN events
    <3>1. i = Len(events) + 1 /\ events'[i] = e
      BY <1>2, <1>3, <2>2
    <3>2. QED
      BY <1>1, <1>3, <3>1
  <2>3. QED
    BY <2>1, <2>2
<1>4. QED
  BY <1>3 DEF EventWay, CameIn

LEMMA OverWay ==
    ASSUME CoreTypes, EventWay, NEW m \in Ids, Over(m)
    PROVE  Grows /\ EventWay'
<1>1. CASE core[m].state \in {"alerting", "active"}
  <2>1. core' = [core EXCEPT ![m].state = "ended"] /\ Tell("CallEnded", m, FALSE)
    BY <1>1 DEF Over
  <2>2. PICK c : c = [core[m] EXCEPT !.state = "ended"]
    OBVIOUS
  <2>3. c.state = "ended" /\ c.incoming = core[m].incoming /\ core' = [core EXCEPT ![m] = c]
    BY <2>1, <2>2 DEF CoreTypes, CoreCall
  <2>4. Grows
    BY <2>3, CoreMoves DEF CameIn, WentOut
  <2>5. EventWay'
    BY <2>1, <2>4, EventTold
  <2>6. QED
    BY <2>4, <2>5
<1>2. CASE core[m].state \notin {"alerting", "active"}
  BY <1>2, SameCore DEF Over, coreVars
<1>3. QED
  BY <1>1, <1>2

\* The app goes on as it was, but for answers that landed.
LEMMA SameApp ==
    ASSUME call' = call, host' = host,
           \A t \in tasks' \ tasks : t.kind = "pick" => CameIn(t.msg)
    PROVE  CalmApp
BY DEF CalmApp, Tame, Busy

LEMMA SameDue ==
    ASSUME DueInv, TypeInv', UNCHANGED <<call, host, tasks, tells, handed, begun, late>>,
           Grows, EventWay'
    PROVE  DueInv'
<1>1. CalmApp
  BY SameApp
<1>2. QED
  BY <1>1, CalmStep DEF CalmGhosts

-----------------------------------------------------------------------------
(* Every step keeps whose call it is: the core *)

LEMMA DueParts ==
    ASSUME DueInv
    PROVE  /\ CoreTypes /\ AppTypes /\ BudgetTypes /\ GhostTypes /\ World /\ TypeOK /\ TypeInv
           /\ BegunWay /\ ToldWay /\ CallWay /\ TaskWay /\ EventWay /\ Due /\ Ways
           /\ \A n \in Nums : HostWay(host[n])
BY TypeParts DEF DueInv, TypeInv, Ways

LEMMA CoreRingsDue ==
    ASSUME DueInv, CoreRings
    PROVE  DueInv'
<1>1. PICK m \in Ids : m = NextId /\ core[m].state = "none"
  BY NextIdIs DEF CoreRings
<1>2. PICK c : c = [state |-> "alerting", incoming |-> TRUE, device |-> "none"]
  OBVIOUS
<1>3. core' = [core EXCEPT ![m] = c] /\ Tell("IncomingCall", m, FALSE)
  BY <1>1, <1>2 DEF CoreRings
<1>4. c.state = "alerting" /\ c.incoming
  BY <1>2
<1>5. Grows
  BY <1>1, <1>3, <1>4, CoreMoves, DueParts DEF CameIn, WentOut
<1>6. CameIn(m)'
  BY <1>3, <1>4, DueParts DEF CoreTypes, CameIn
<1>7. EventWay'
  BY <1>3, <1>5, <1>6, EventTold, DueParts
<1>8. TypeInv'
  BY CoreRingsTypes DEF DueInv
<1>9. QED
  BY <1>5, <1>7, <1>8, SameDue DEF CoreRings, appVars, ghostVars

LEMMA CoreTakenDue ==
    ASSUME DueInv, NEW m \in Ids, CoreTaken(m)
    PROVE  DueInv'
<1>1. PICK c : c = [core[m] EXCEPT !.state = "active", !.device = "elsewhere"]
  OBVIOUS
<1>2. c.state = "active" /\ c.incoming /\ core[m].incoming /\ core[m].state # "none"
  BY <1>1, DueParts DEF CoreTaken, CoreTypes, CoreCall
<1>3. core' = [core EXCEPT ![m] = c] /\ Tell("IncomingCallAccepted", m, FALSE)
  BY <1>1, DueParts DEF CoreTaken, CoreTypes, CoreCall
<1>4. Grows
  BY <1>2, <1>3, CoreMoves, DueParts DEF CameIn, WentOut
<1>5. CameIn(m)'
  BY <1>2, <1>4 DEF CameIn, Grows
<1>6. EventWay'
  BY <1>3, <1>4, <1>5, EventTold, DueParts
<1>7. TypeInv'
  BY CoreTakenTypes DEF DueInv
<1>8. QED
  BY <1>4, <1>6, <1>7, SameDue DEF CoreTaken, appVars, ghostVars

LEMMA CoreAnsweredDue ==
    ASSUME DueInv, NEW m \in Ids, CoreAnswered(m)
    PROVE  DueInv'
<1>1. PICK c : c = [core[m] EXCEPT !.state = "active", !.device = "here"]
  OBVIOUS
<1>2. c.state = "active" /\ ~c.incoming /\ ~core[m].incoming
  BY <1>1, DueParts DEF CoreAnswered, CoreTypes, CoreCall
<1>3. core' = [core EXCEPT ![m] = c] /\ Tell("OutgoingCallAccepted", m, TRUE)
  BY <1>1, DueParts DEF CoreAnswered, CoreTypes, CoreCall
<1>4. Grows
  BY <1>2, <1>3, CoreMoves, DueParts DEF CameIn, WentOut
<1>5. EventWay'
  BY <1>3, <1>4, EventTold, DueParts
<1>6. TypeInv'
  BY CoreAnsweredTypes DEF DueInv
<1>7. QED
  BY <1>4, <1>5, <1>6, SameDue DEF CoreAnswered, appVars, ghostVars

LEMMA CoreEndsDue ==
    ASSUME DueInv, NEW m \in Ids, CoreEnds(m)
    PROVE  DueInv'
<1>1. Grows /\ EventWay'
  BY OverWay, DueParts DEF CoreEnds
<1>2. TypeInv'
  BY CoreEndsTypes DEF DueInv
<1>3. QED
  BY <1>1, <1>2, SameDue DEF CoreEnds, appVars, ghostVars

LEMMA CoreLosesEventsDue ==
    ASSUME DueInv, CoreLosesEvents
    PROVE  DueInv'
<1>1. Grows
  BY SameCore DEF CoreLosesEvents
<1>2. events' = <<>>
  BY DEF CoreLosesEvents
<1>3. DOMAIN events' = {}
  BY <1>2
<1>4. EventWay'
  BY <1>3 DEF EventWay
<1>5. TypeInv'
  BY CoreLosesEventsTypes DEF DueInv
<1>6. QED
  BY <1>1, <1>4, <1>5, SameDue DEF CoreLosesEvents, appVars

\* A task of the app goes on.
LEMMA TaskDue ==
    ASSUME DueInv, TypeInv', call' = call, host' = host,
           UNCHANGED <<tells, handed, begun, late>>, Grows, EventWay',
           \A t \in tasks' \ tasks : t.kind = "pick" => CameIn(t.msg)
    PROVE  DueInv'
<1>1. CalmApp
  BY SameApp
<1>2. QED
  BY <1>1, CalmStep DEF CalmGhosts

LEMMA CoreDeclinesDue ==
    ASSUME DueInv, NEW t \in tasks, NEW ok \in BOOLEAN, CoreDeclines(t, ok)
    PROVE  DueInv'
<1>1. PICK m \in Ids : m = t.msg
  BY DueParts DEF AppTypes, Task
<1>2. Grows /\ EventWay'
  <2>1. CASE ok
    BY <1>1, <2>1, OverWay, DueParts DEF CoreDeclines
  <2>2. CASE ~ok
    BY <2>2, SameCore, DueParts DEF CoreDeclines, coreVars
  <2>3. QED
    BY <2>1, <2>2
<1>3. TypeInv'
  BY CoreDeclinesTypes DEF DueInv
<1>4. QED
  BY <1>2, <1>3, TaskDue DEF CoreDeclines

LEMMA CoreSaysDue ==
    ASSUME DueInv, NEW t \in tasks, NEW found \in {"", "Alerting", "Declined", "other"},
           CoreSays(t, found)
    PROVE  DueInv'
<1>1. Grows /\ EventWay'
  BY SameCore, DueParts DEF CoreSays, coreVars
<1>2. TypeInv'
  BY CoreSaysTypes DEF DueInv
<1>3. PICK u : u = [t EXCEPT !.phase = "answered", !.found = found]
  OBVIOUS
<1>4. u.kind = t.kind /\ u.msg = t.msg
  BY <1>3, DueParts DEF AppTypes, Task
<1>5. tasks' = (tasks \ {t}) \cup {u}
  BY <1>3 DEF CoreSays
<1>6. \A v \in tasks' \ tasks : v.kind = "pick" => CameIn(v.msg)
  BY <1>4, <1>5, DueParts DEF TaskWay
<1>7. QED
  BY <1>1, <1>2, <1>6, TaskDue DEF CoreSays, ghostVars

-----------------------------------------------------------------------------
(* Every step keeps whose call it is: hosts *)

LEMMA HostDue ==
    ASSUME DueInv, TypeInv', NEW n \in Nums, NEW h, Tame(n, host[n], h),
           host' = [host EXCEPT ![n] = h], call' = call, tasks' = tasks,
           UNCHANGED <<tells, handed, begun, late>>, Grows, EventWay'
    PROVE  DueInv'
<1>1. \A k \in Nums : host'[k] = IF k = n THEN h ELSE host[k]
  BY DueParts DEF AppTypes
<1>2. \A k \in Nums : Tame(k, host[k], host'[k])
  BY <1>1 DEF Tame
<1>3. CalmApp
  BY <1>2 DEF CalmApp, Busy
<1>4. QED
  BY <1>3, CalmStep DEF CalmGhosts

LEMMA CoreRefusesDue ==
    ASSUME DueInv, NEW n \in Nums, CoreRefuses(n)
    PROVE  DueInv'
<1>1. PICK g \in Host : g = host[n]
  BY DueParts DEF AppTypes
<1>2. PICK h : h = [g EXCEPT !.place = "done"]
  OBVIOUS
<1>3. Tame(n, g, h)
  BY <1>2 DEF Tame, Host
<1>4. host' = [host EXCEPT ![n] = h]
  BY <1>1, <1>2, DueParts DEF CoreRefuses, AppTypes
<1>5. Grows /\ EventWay'
  BY SameCore, DueParts DEF CoreRefuses, coreVars
<1>6. TypeInv'
  BY CoreRefusesTypes DEF DueInv
<1>7. QED
  BY <1>1, <1>3, <1>4, <1>5, <1>6, HostDue DEF CoreRefuses

LEMMA CoreAcceptsDue ==
    ASSUME DueInv, NEW n \in Nums, NEW ok \in BOOLEAN, NEW done \in BOOLEAN,
           CoreAccepts(n, ok, done)
    PROVE  DueInv'
<1>1. PICK g \in Host : g = host[n]
  BY DueParts DEF AppTypes
<1>2. PICK h : h = [g EXCEPT !.accept = "done"]
  OBVIOUS
<1>3. Tame(n, g, h)
  BY <1>2 DEF Tame, Host
<1>4. host' = [host EXCEPT ![n] = h]
  BY <1>1, <1>2, DueParts DEF CoreAccepts, AppTypes
<1>5. HostFits(g) /\ HostWay(g) /\ g.accept = "asked"
  BY <1>1, DueParts DEF World, Hosts, CoreAccepts
<1>6. PICK m \in Ids : m = g.msg /\ m \in begun
  BY <1>5 DEF HostFits, HostWay
<1>7. CameIn(m)
  BY <1>6, DueParts DEF BegunWay
<1>8. Grows /\ EventWay'
  <2>1. CASE done /\ core[m].state = "alerting"
    <3>1. PICK c : c = [core[m] EXCEPT !.state = "active", !.device = "here"]
      OBVIOUS
    <3>2. c.state = "active" /\ c.incoming /\ core[m].incoming
      BY <1>7, <3>1, DueParts DEF CoreTypes, CoreCall, CameIn
    <3>3. core' = [core EXCEPT ![m] = c] /\ Tell("IncomingCallAccepted", m, TRUE)
      BY <1>1, <1>6, <2>1, <3>1, DueParts DEF CoreAccepts, CoreTypes, CoreCall
    <3>4. Grows
      BY <3>2, <3>3, CoreMoves, DueParts DEF WentOut
    <3>5. CameIn(m)'
      BY <1>7, <3>4 DEF Grows
    <3>6. EventWay'
      BY <3>3, <3>4, <3>5, EventTold, DueParts
    <3>7. QED
      BY <3>4, <3>6
  <2>2. CASE ~(done /\ core[m].state = "alerting")
    BY <1>1, <1>6, <2>2, SameCore, DueParts DEF CoreAccepts, coreVars
  <2>3. QED
    BY <2>1, <2>2
<1>9. TypeInv'
  BY CoreAcceptsTypes DEF DueInv
<1>10. QED
  BY <1>1, <1>3, <1>4, <1>8, <1>9, HostDue DEF CoreAccepts, ghostVars

LEMMA EndedTame ==
    ASSUME NEW n \in Nums, NEW g \in Host, HostFits(g), NEW who \in {"place", "page", "drop"},
           g[who] = "ending"
    PROVE  Tame(n, g, Ended(g, who))
<1>1. PICK h : h = Ended(g, who)
  OBVIOUS
<1>2. /\ h[who] = "done" /\ h.stage = g.stage /\ h.msg = g.msg /\ h.made = g.made
      /\ h.ended = g.ended /\ h.quiet = g.quiet
      /\ \A w \in {"place", "page", "drop"} : w # who => h[w] = g[w]
  BY <1>1, EndedHost
<1>3. h.place = "no" => g.place = "no"
  BY <1>2
<1>4. QED
  BY <1>1, <1>2, <1>3 DEF Tame

LEMMA CoreEndsCallDue ==
    ASSUME DueInv, NEW n \in Nums, NEW ok \in BOOLEAN, CoreEndsCall(n, ok)
    PROVE  DueInv'
<1>1. PICK g \in Host : g = host[n] /\ HostFits(g)
  BY DueParts DEF AppTypes, World, Hosts
<1>2. PICK who : who = g.ending_call
  OBVIOUS
<1>3. /\ who \in {"place", "page", "drop"} /\ g[who] = "ending" /\ g.msg \in Ids
  BY <1>1, <1>2, EndingHolds, DueParts DEF CoreEndsCall
<1>4. PICK m \in Ids : m = g.msg
  BY <1>3
<1>5. PICK h : h = Ended(g, who)
  OBVIOUS
<1>6. /\ host' = [host EXCEPT ![n] = h]
      /\ UNCHANGED <<call, tasks, tells, handed, begun, late>>
      /\ IF ok THEN Over(m) ELSE UNCHANGED coreVars
  BY <1>1, <1>2, <1>4, <1>5, DueParts DEF CoreEndsCall, AppTypes
<1>7. Tame(n, g, h)
  BY <1>1, <1>3, <1>5, EndedTame
<1>8. Grows /\ EventWay'
  <2>1. CASE ok
    BY <1>6, <2>1, OverWay, DueParts
  <2>2. CASE ~ok
    BY <1>6, <2>2, SameCore, DueParts DEF coreVars
  <2>3. QED
    BY <2>1, <2>2
<1>9. TypeInv'
  BY CoreEndsCallTypes DEF DueInv
<1>10. QED
  BY <1>1, <1>6, <1>7, <1>8, <1>9, HostDue

LEMMA HostStartsDue ==
    ASSUME DueInv, NEW n \in Nums, NEW ok \in BOOLEAN, HostStarts(n, ok)
    PROVE  DueInv'
<1>1. PICK g \in Host : g = host[n]
  BY DueParts DEF AppTypes
<1>2. PICK st : st = IF ok THEN "started" ELSE "failed"
  OBVIOUS
<1>3. PICK h : h = [g EXCEPT !.stage = st]
  OBVIOUS
<1>4. Tame(n, g, h)
  BY <1>2, <1>3 DEF Tame, Host
<1>5. host' = [host EXCEPT ![n] = h]
  BY <1>1, <1>2, <1>3, DueParts DEF HostStarts, AppTypes
<1>6. Grows /\ EventWay'
  BY SameCore, DueParts DEF HostStarts, coreVars
<1>7. TypeInv'
  BY HostStartsTypes DEF DueInv
<1>8. QED
  BY <1>1, <1>4, <1>5, <1>6, <1>7, HostDue DEF HostStarts, ghostVars

LEMMA HostLandsDue ==
    ASSUME DueInv, NEW n \in Nums, HostLands(n)
    PROVE  DueInv'
<1>1. PICK g \in Host : g = host[n] /\ HostFits(g)
  BY DueParts DEF AppTypes, World, Hosts
<1>2. IsLanded(n)
  BY LandedIs, DueParts
<1>3. PICK h : h = host'[n]
  OBVIOUS
<1>4. Tame(n, g, h)
  <2>1. CASE g.stage = "started" /\ Current(n)
    <3>1. h = [g EXCEPT !.stage = "held"]
      BY <1>1, <1>2, <1>3, <2>1 DEF IsLanded
    <3>2. QED
      BY <1>1, <2>1, <3>1, HeldHostIs DEF Tame
  <2>2. CASE g.stage = "started" /\ ~Current(n)
    <3>1. h = LateHost(g)
      BY <1>1, <1>2, <1>3, <2>2 DEF IsLanded, LateHost
    <3>2. /\ h.msg = g.msg /\ h.made = g.made /\ h.place = g.place /\ h.quiet = g.quiet
          /\ h.ended = g.quiet /\ h.stage = "dropped" /\ ~g.ended
      BY <1>1, <2>2, <3>1, LateHostIs DEF HostFits, Untouched
    <3>3. QED
      BY <3>2 DEF Tame
  <2>3. CASE g.stage = "failed"
    <3>1. h = FailedHost(g)
      BY <1>1, <1>2, <1>3, <2>3 DEF IsLanded
    <3>2. /\ h.msg = g.msg /\ h.made = g.made /\ h.place = g.place /\ h.quiet = g.quiet
          /\ h.ended = g.ended /\ h.stage = "none"
      BY <1>1, <2>3, <3>1, FailedHostIs
    <3>3. QED
      BY <3>2 DEF Tame
  <2>4. QED
    BY <1>1, <1>2, <2>1, <2>2, <2>3 DEF IsLanded
<1>5. /\ call'.num = call.num /\ call'.incoming = call.incoming /\ call'.msg = call.msg
      /\ call'.state = "ringing" => call.state = "ringing"
      /\ Busy' => Busy
  <2>1. CASE call' = call
    BY <2>1 DEF Busy
  <2>2. CASE call' = [call EXCEPT !.state = "ended", !.reason = call'.reason]
    BY <2>2, DueParts DEF AppTypes, Call, Busy, BusyIn
  <2>3. QED
    BY <1>2, <2>1, <2>2 DEF IsLanded
<1>6. \A k \in Nums : Tame(k, host[k], host'[k])
  BY <1>1, <1>2, <1>3, <1>4 DEF IsLanded, Tame
<1>7. CalmApp
  BY <1>2, <1>5, <1>6 DEF IsLanded, CalmApp
<1>8. Grows /\ EventWay'
  BY SameCore, DueParts DEF HostLands, coreVars
<1>9. TypeInv'
  BY HostLandsTypes DEF DueInv
<1>10. QED
  BY <1>7, <1>8, <1>9, CalmStep DEF HostLands, CalmGhosts

LEMMA PagePlacesDue ==
    ASSUME DueInv, NEW n \in Nums, PagePlaces(n)
    PROVE  DueInv'
<1>1. PICK g \in Host : g = host[n] /\ g.place = "no"
  BY DueParts DEF AppTypes, PagePlaces
<1>2. PICK h : h = [g EXCEPT !.place = "asked"]
  OBVIOUS
<1>3. Tame(n, g, h)
  BY <1>2 DEF Tame, Host
<1>4. host' = [host EXCEPT ![n] = h]
  BY <1>1, <1>2, DueParts DEF PagePlaces, AppTypes
<1>5. Grows /\ EventWay'
  BY SameCore, DueParts DEF PagePlaces, coreVars
<1>6. TypeInv'
  BY PagePlacesTypes DEF DueInv
<1>7. QED
  BY <1>1, <1>3, <1>4, <1>5, <1>6, HostDue DEF PagePlaces, ghostVars

LEMMA PlaceAnsweredDue ==
    ASSUME DueInv, NEW n \in Nums, PlaceAnswered(n)
    PROVE  DueInv'
<1>1. PICK g \in Host : g = host[n]
  BY DueParts DEF AppTypes
<1>2. PICK h : h = [g EXCEPT !.msg = g.made, !.place = "stored"]
  OBVIOUS
<1>3. Tame(n, g, h)
  BY <1>2 DEF Tame, Host
<1>4. host' = [host EXCEPT ![n] = h]
  BY <1>1, <1>2, DueParts DEF PlaceAnswered, AppTypes
<1>5. Grows /\ EventWay'
  BY SameCore, DueParts DEF PlaceAnswered, coreVars
<1>6. TypeInv'
  BY PlaceAnsweredTypes DEF DueInv
<1>7. QED
  BY <1>1, <1>3, <1>4, <1>5, <1>6, HostDue DEF PlaceAnswered, ghostVars

LEMMA PlaceChecksDue ==
    ASSUME DueInv, NEW n \in Nums, PlaceChecks(n)
    PROVE  DueInv'
<1>1. PICK g \in Host : g = host[n]
  BY DueParts DEF AppTypes
<1>2. PICK st : st = IF g.ending THEN "ending" ELSE "done"
  OBVIOUS
<1>3. PICK h : h = [g EXCEPT !.place = st]
  OBVIOUS
<1>4. Tame(n, g, h)
  BY <1>2, <1>3 DEF Tame, Host
<1>5. host' = [host EXCEPT ![n] = h]
  BY <1>1, <1>2, <1>3, DueParts DEF PlaceChecks, AppTypes
<1>6. Grows /\ EventWay'
  BY SameCore, DueParts DEF PlaceChecks, coreVars
<1>7. TypeInv'
  BY PlaceChecksTypes DEF DueInv
<1>8. QED
  BY <1>1, <1>4, <1>5, <1>6, <1>7, HostDue DEF PlaceChecks, ghostVars

LEMMA PageAcceptsDue ==
    ASSUME DueInv, NEW n \in Nums, PageAccepts(n)
    PROVE  DueInv'
<1>1. PICK g \in Host : g = host[n]
  BY DueParts DEF AppTypes
<1>2. PICK h : h = [g EXCEPT !.accept = "asked"]
  OBVIOUS
<1>3. Tame(n, g, h)
  BY <1>2 DEF Tame, Host
<1>4. host' = [host EXCEPT ![n] = h]
  BY <1>1, <1>2, DueParts DEF PageAccepts, AppTypes
<1>5. Grows /\ EventWay'
  BY SameCore, DueParts DEF PageAccepts, coreVars
<1>6. TypeInv'
  BY PageAcceptsTypes DEF DueInv
<1>7. QED
  BY <1>1, <1>3, <1>4, <1>5, <1>6, HostDue DEF PageAccepts, ghostVars

LEMMA PageEndsDue ==
    ASSUME DueInv, NEW n \in Nums, PageEnds(n)
    PROVE  DueInv'
<1>1. PICK g \in Host : g = host[n]
  BY DueParts DEF AppTypes
<1>2. PICK h : h = [g EXCEPT !.page = "ending", !.ending = TRUE]
  OBVIOUS
<1>3. Tame(n, g, h)
  BY <1>2 DEF Tame, Host
<1>4. host' = [host EXCEPT ![n] = h]
  BY <1>1, <1>2, DueParts DEF PageEnds, AppTypes
<1>5. Grows /\ EventWay'
  BY SameCore, DueParts DEF PageEnds, coreVars
<1>6. TypeInv'
  BY PageEndsTypes DEF DueInv
<1>7. QED
  BY <1>1, <1>3, <1>4, <1>5, <1>6, HostDue DEF PageEnds, ghostVars

LEMMA PageConnectsDue ==
    ASSUME DueInv, NEW n \in Nums, NEW kind \in {"connected", "disconnected", "gave up"},
           PageConnects(n, kind)
    PROVE  DueInv'
<1>1. Grows /\ EventWay'
  BY SameCore, DueParts DEF PageConnects, coreVars
<1>2. TypeInv'
  BY PageConnectsTypes DEF DueInv
<1>3. QED
  BY <1>1, <1>2, SameDue DEF PageConnects, ghostVars

\* A host tells the core that its call is over.
LEMMA EndTold ==
    ASSUME DueInv, NEW n \in Nums, NEW who \in {"place", "page", "drop"}, EndBegins(n, who),
           ~(host[n].msg = 0 \/ host[n].ended)
    PROVE  \E m \in Ids : /\ m = host[n].msg /\ Told(m)
                          /\ host' = [host EXCEPT ![n] = Ending(host[n], who)]
                          /\ m \notin late => tells[m] = 0 /\ ~RingingNow(m) /\ m \notin handed
                          /\ m \in begun \/ WentOut(m)
<1>1. PICK g \in Host : g = host[n] /\ HostFits(g) /\ HostWay(g)
  BY DueParts DEF AppTypes, World, Hosts
<1>2. g[who] = "ending" /\ g.msg # 0 /\ ~g.ended
  BY <1>1 DEF EndBegins, Enders
<1>3. PICK m \in Ids : m = g.msg
  BY <1>1, <1>2 DEF Host, Msg
<1>4. Told(m) /\ host' = [host EXCEPT ![n].ending_call = who, ![n].ended = TRUE]
  BY <1>1, <1>2, <1>3 DEF EndBegins
<1>5. host' = [host EXCEPT ![n] = Ending(host[n], who)]
  BY <1>4, DueParts DEF AppTypes, Ending
<1>6. g.stage \in {"held", "dropped"}
  BY <1>1, <1>2 DEF HostFits, Untouched
<1>7. m \in begun \/ WentOut(m)
  <2>1. CASE g.place = "no"
    BY <1>1, <1>3, <2>1 DEF HostWay
  <2>2. CASE g.place # "no"
    <3>1. g.msg = g.made
      BY <1>1, <1>2, <2>2 DEF HostFits, Host
    <3>2. QED
      BY <1>1, <1>3, <3>1 DEF HostWay
  <2>3. QED
    BY <2>1, <2>2
<1>8. HasHost(n, m)
  BY <1>1, <1>3 DEF HasHost
<1>9. ASSUME m \notin late
      PROVE  tells[m] = 0 /\ ~RingingNow(m) /\ m \notin handed
  <2>1. tells[m] = 0
    BY <1>1, <1>2, <1>8, <1>9, DueParts DEF Due, ToldInv
  <2>2. m \notin handed
    BY <1>1, <1>2, <1>6, <1>8, <1>9, DueParts DEF Due, HandedInv, Hushed
  <2>3. ASSUME RingingNow(m) PROVE FALSE
    <3>1. call.num \in Nums /\ call.incoming /\ call.msg = m /\ host[call.num] = NoHost
      BY <2>3, DueParts, BusyNum DEF RingingNow, World, CallFits, Busy, BusyIn
    <3>2. Holds(n, m) /\ Holds(call.num, m)
      BY <1>8, <3>1 DEF Holds
    <3>3. n = call.num
      BY <1>9, <3>1, <3>2, DueParts DEF Due, OneHost
    <3>4. g.stage = "none"
      BY <1>1, <3>1, <3>3 DEF NoHost
    <3>5. QED
      BY <1>6, <3>4
  <2>4. QED
    BY <2>1, <2>2, <2>3
<1>10. QED
  BY <1>1, <1>3, <1>4, <1>5, <1>7, <1>9

LEMMA EndBeginsDue ==
    ASSUME DueInv, NEW n \in Nums, NEW who \in {"place", "page", "drop"}, EndBegins(n, who)
    PROVE  DueInv'
<1>1. PICK g \in Host : g = host[n] /\ HostFits(g)
  BY DueParts DEF AppTypes, World, Hosts
<1>2. g[who] = "ending"
  BY <1>1 DEF EndBegins, Enders
<1>3. UNCHANGED <<coreVars, call, tasks, handed, begun, late>>
  BY DEF EndBegins
<1>4. Grows /\ EventWay'
  BY <1>3, SameCore, DueParts DEF coreVars
<1>5. TypeInv'
  BY EndBeginsTypes DEF DueInv
<1>6. CASE g.msg = 0 \/ g.ended
  <2>1. PICK h : h = Ended(g, who)
    OBVIOUS
  <2>2. host' = [host EXCEPT ![n] = h] /\ tells' = tells
    BY <1>1, <1>6, <2>1, DueParts DEF EndBegins, AppTypes
  <2>3. Tame(n, g, h)
    BY <1>1, <1>2, <2>1, EndedTame
  <2>4. QED
    BY <1>1, <1>3, <1>4, <1>5, <2>2, <2>3, HostDue
<1>7. CASE ~(g.msg = 0 \/ g.ended)
  <2>1. PICK m \in Ids : /\ m = g.msg /\ Told(m)
                         /\ host' = [host EXCEPT ![n] = Ending(g, who)]
                         /\ m \notin late => tells[m] = 0 /\ ~RingingNow(m) /\ m \notin handed
                         /\ m \in begun \/ WentOut(m)
    BY <1>1, <1>7, EndTold
  <2>2. PICK h : h = Ending(g, who)
    OBVIOUS
  <2>3. /\ h.ended /\ h.stage = g.stage /\ h.msg = g.msg /\ h.made = g.made
        /\ h.quiet = g.quiet /\ h.place = g.place
    BY <1>1, <1>2, <2>1, <2>2, EndingHost
  <2>4. \A k \in Nums : host'[k] = IF k = n THEN h ELSE host[k]
    BY <2>1, <2>2, DueParts DEF AppTypes
  <2>5. \A k \in Nums : Tame(k, host[k], host'[k])
    BY <1>1, <2>3, <2>4 DEF Tame
  <2>6. CalmApp
    BY <1>3, <2>5 DEF CalmApp, Busy
  <2>7. ASSUME m \notin late
        PROVE  /\ tells[m] = 0 /\ ~RingingNow(m)'
               /\ \A k \in Nums : HasHost(k, m)' => host'[k].ended
    <3>1. ASSUME NEW k \in Nums, HasHost(k, m)' PROVE host'[k].ended
      <4>1. HasHost(k, m) /\ HasHost(n, m)
        BY <1>1, <2>1, <2>6, <3>1, CalmHolds, DueParts DEF HasHost
      <4>2. k = n
        BY <2>7, <4>1, DueParts DEF Due, OneHost, Holds
      <4>3. QED
        BY <2>3, <2>4, <4>2
    <3>2. QED
      BY <1>3, <2>1, <2>7, <3>1 DEF RingingNow
  <2>8. QED
    BY <1>3, <1>4, <1>5, <2>1, <2>6, <2>7, ToldStep
<1>8. QED
  BY <1>6, <1>7

\* A message that is no call placed, and none the app was in, is nobody's.
LEMMA Unheard ==
    ASSUME DueInv, NEW m \in Ids, ~WentOut(m), m \notin begun
    PROVE  /\ tells[m] = 0 /\ m \notin handed /\ call.msg # m
           /\ \A k \in Nums : ~HasHost(k, m)
<1>1. ~WentOut(m)
  OBVIOUS
<1>2. m \notin begun /\ m \notin handed
  BY DueParts DEF BegunWay
<1>3. tells[m] = 0
  BY <1>1, <1>2, DueParts DEF ToldWay, GhostTypes
<1>4. call.msg # m
  BY <1>1, <1>2, DueParts DEF CallWay
<1>5. ASSUME NEW k \in Nums PROVE ~HasHost(k, m)
  <2>1. PICK g \in Host : g = host[k] /\ HostFits(g) /\ HostWay(g)
    BY DueParts DEF AppTypes, World, Hosts
  <2>2. g.made # m
    BY <1>1, <2>1 DEF HostWay
  <2>3. g.msg # m
    <3>1. CASE g.place = "no"
      BY <1>2, <2>1, <3>1 DEF HostWay
    <3>2. CASE g.place # "no"
      <4>1. g.msg \in {0, g.made}
        BY <2>1, <3>2 DEF HostFits, Host
      <4>2. QED
        BY <2>2, <4>1, NumsNat
    <3>3. QED
      BY <3>1, <3>2
  <2>4. QED
    BY <2>1, <2>2, <2>3 DEF HasHost
<1>6. QED
  BY <1>2, <1>3, <1>4, <1>5

LEMMA CorePlacesDue ==
    ASSUME DueInv, NEW n \in Nums, CorePlaces(n)
    PROVE  DueInv'
<1>1. PICK m \in Ids : m = NextId /\ core[m].state = "none"
  BY NextIdIs DEF CorePlaces
<1>2. PICK c : c = [state |-> "alerting", incoming |-> FALSE, device |-> "here"]
  OBVIOUS
<1>3. core' = [core EXCEPT ![m] = c] /\ c.state = "alerting" /\ ~c.incoming
  BY <1>1, <1>2 DEF CorePlaces
<1>4. Grows
  BY <1>1, <1>3, CoreMoves, DueParts DEF CameIn, WentOut
<1>5. WentOut(m)'
  BY <1>3, DueParts DEF CoreTypes, WentOut
<1>6. PICK g \in Host : g = host[n] /\ HostFits(g) /\ HostWay(g) /\ g.place = "asked"
  BY DueParts DEF AppTypes, World, Hosts, CorePlaces
<1>7. PICK h : h = [g EXCEPT !.place = "made", !.made = m]
  OBVIOUS
<1>8. /\ h.msg = 0 /\ g.msg = 0 /\ g.made = 0 /\ h.made = m /\ h.place = "made"
      /\ h.ended = g.ended /\ h.quiet = g.quiet /\ h.stage = g.stage
  BY <1>6, <1>7 DEF Host, HostFits
<1>9. \A k \in Nums : host'[k] = IF k = n THEN h ELSE host[k]
  BY <1>1, <1>6, <1>7, DueParts DEF CorePlaces, AppTypes
<1>10. UNCHANGED <<events, call, tasks, tells, handed, begun, late>>
  BY DEF CorePlaces
<1>11. /\ tells[m] = 0 /\ m \notin begun /\ m \notin handed /\ call.msg # m
       /\ \A k \in Nums : ~HasHost(k, m)
  <2>1. ~WentOut(m) /\ m \notin begun
    BY <1>1, DueParts DEF WentOut, CameIn, BegunWay
  <2>2. QED
    BY <2>1, Unheard
<1>12. Ways'
  <2>1. /\ \A k \in begun : k \in Ids /\ CameIn(k)'
        /\ \A k \in Ids : tells[k] > 0 => k \in begun \/ WentOut(k)'
        /\ \A t \in tasks : t.kind = "pick" => CameIn(t.msg) /\ t.msg \in Ids
        /\ handed \subseteq begun
    BY <1>4, WaysNext, DueParts
  <2>2. BegunWay' /\ ToldWay'
    BY <1>10, <2>1 DEF BegunWay, ToldWay
  <2>3. TaskWay'
    <3>1. ASSUME NEW t \in tasks', t.kind = "pick" PROVE CameIn(t.msg)'
      BY <1>4, <1>10, <2>1, <3>1 DEF Grows
    <3>2. QED
      BY <3>1 DEF TaskWay
  <2>4. CallWay'
    BY <1>4, <1>10, DueParts DEF CallWay, Grows, WentOut
  <2>5. EventWay'
    <3>1. ASSUME NEW i \in DOMAIN events,
                 events[i].kind \in {"IncomingCall", "IncomingCallAccepted"}
          PROVE  CameIn(events[i].msg)'
      <4>1. events[i] \in Event
        BY DueParts DEF CoreTypes
      <4>2. events[i].msg \in Ids /\ CameIn(events[i].msg)
        BY <3>1, <4>1, DueParts DEF Event, EventWay
      <4>3. QED
        BY <1>4, <1>10, <4>2 DEF Grows, CameIn
    <3>2. QED
      BY <1>10, <3>1 DEF EventWay, CameIn
  <2>6. ASSUME NEW k \in Nums PROVE HostWay(host[k])'
    <3>1. CASE k = n
      BY <1>5, <1>8, <1>9, <3>1, NumsNat DEF HostWay, WentOut
    <3>2. CASE k # n
      <4>1. host'[k] = host[k] /\ HostWay(host[k])
        BY <1>9, <3>2, DueParts
      <4>2. QED
        BY <1>4, <1>10, <4>1 DEF HostWay, Grows, WentOut
    <3>3. QED
      BY <3>1, <3>2
  <2>7. QED
    BY <2>2, <2>3, <2>4, <2>5, <2>6 DEF Ways
<1>13. \A k \in Nums, j \in Ids : HasHost(k, j)' => HasHost(k, j) \/ (k = n /\ j = m)
  BY <1>6, <1>8, <1>9, NumsNat DEF HasHost
<1>14. OneHost'
  <2>1. ASSUME NEW j \in Ids \ late, NEW k \in Nums, NEW l \in Nums, Holds(k, j)', Holds(l, j)'
        PROVE  k = l
    <3>1. CASE j = m
      BY <1>10, <1>11, <1>13, <2>1, <3>1 DEF Holds
    <3>2. CASE j # m
      <4>1. Holds(k, j) /\ Holds(l, j)
        BY <1>10, <1>13, <2>1, <3>2 DEF Holds
      <4>2. QED
        BY <4>1, DueParts DEF Due, OneHost
    <3>3. QED
      BY <3>1, <3>2
  <2>2. QED
    BY <1>10, <2>1 DEF OneHost
<1>15. ToldInv'
  <2>1. ASSUME NEW j \in Ids \ late, tells[j] # 0
        PROVE  /\ tells[j] = 1 /\ ~RingingNow(j)
               /\ \A k \in Nums : HasHost(k, j)' => host'[k].ended
    <3>1. /\ tells[j] = 1 /\ ~RingingNow(j)
          /\ \A k \in Nums : HasHost(k, j) => host[k].ended
      BY <2>1, DueParts DEF Due, ToldInv
    <3>2. ASSUME NEW k \in Nums, HasHost(k, j)' PROVE host'[k].ended
      BY <1>6, <1>8, <1>9, <1>11, <1>13, <2>1, <3>1, <3>2
    <3>3. QED
      BY <3>1, <3>2
  <2>2. QED
    BY <1>10, <2>1 DEF ToldInv, RingingNow
<1>16. HandedInv'
  <2>1. ASSUME NEW j \in handed \ late
        PROVE  /\ ~RingingNow(j) /\ \A k \in Nums : HasHost(k, j)' => Hushed(k)'
    <3>1. j \in Ids /\ j # m
      BY <1>11, <2>1, DueParts DEF GhostTypes
    <3>2. ~RingingNow(j) /\ \A k \in Nums : HasHost(k, j) => Hushed(k)
      BY <2>1, DueParts DEF Due, HandedInv
    <3>3. ASSUME NEW k \in Nums, HasHost(k, j)' PROVE Hushed(k)'
      <4>1. HasHost(k, j) /\ Hushed(k)
        BY <1>13, <3>1, <3>2, <3>3
      <4>2. host'[k].ended = host[k].ended /\ host'[k].quiet = host[k].quiet
            /\ host'[k].stage = host[k].stage
        BY <1>6, <1>8, <1>9
      <4>3. QED
        BY <1>10, <4>1, <4>2 DEF Hushed, Current, Busy
    <3>4. QED
      BY <3>2, <3>3
  <2>2. QED
    BY <1>10, <2>1 DEF HandedInv, RingingNow
<1>17. TypeInv'
  BY CorePlacesTypes DEF DueInv
<1>18. QED
  BY <1>12, <1>14, <1>15, <1>16, <1>17 DEF DueInv, Due

-----------------------------------------------------------------------------
(* Every step keeps whose call it is: the Qt thread *)

\* A new host, or none, holds nothing of the core's.
LEMMA NewHolds ==
    ASSUME DueInv, NEW k \in Nums, k > call.num, NEW m \in Ids
    PROVE  ~HasHost(k, m)
<1>1. host[k] = NoHost
  BY DueParts DEF World, Hosts
<1>2. QED
  BY <1>1, NumsNat DEF HasHost, NoHost

\* The app rings for m.
LEMMA RingDue ==
    ASSUME DueInv, TypeInv', NEW m \in Ids, IsRinging(m), CameIn(m), TakenUp, core' = core,
           UNCHANGED <<tells, handed>>, EventWay',
           \A t \in tasks' \ tasks : t.kind # "pick"
    PROVE  DueInv'
<1>1. PICK new : new = call.num + 1
  OBVIOUS
<1>2. /\ new \in Nums /\ new > call.num /\ host' = host
      /\ call'.num = new /\ call'.msg = m /\ call'.incoming /\ call'.state = "ringing"
  <2>1. call.num < MaxCalls
    BY DEF IsRinging
  <2>2. new \in Nums /\ new > call.num
    <3>1. call.num \in 0..MaxCalls
      BY DueParts DEF AppTypes, Call
    <3>2. QED
      BY <1>1, <2>1, <3>1, NextNum
  <2>3. /\ call'.num = new /\ call'.msg = m /\ call'.incoming /\ call'.state = "ringing"
        /\ host' = host
    BY <1>1 DEF IsRinging
  <2>4. QED
    BY <2>2, <2>3
<1>3. new # call.num
  BY <1>2, DueParts, NumsNat DEF AppTypes, Call
<1>4. /\ begun' = begun \cup {m}
      /\ late \subseteq late' /\ (m \notin late' => m \notin begun)
  BY <1>2, <1>3 DEF TakenUp
<1>5. \A j \in Ids : (CameIn(j)' <=> CameIn(j)) /\ (WentOut(j)' <=> WentOut(j))
  BY DEF CameIn, WentOut
<1>6. \A k \in Nums, j \in Ids : HasHost(k, j)' <=> HasHost(k, j)
  BY <1>2 DEF HasHost
<1>7. \A k \in Nums, j \in Ids : HasHost(k, j) => k # new
  BY <1>2, NewHolds
<1>8. Ways'
  <2>1. BegunWay'
    BY <1>4, <1>5, DueParts DEF BegunWay, GhostTypes
  <2>2. ToldWay'
    BY <1>4, <1>5, DueParts DEF ToldWay
  <2>3. CallWay'
    BY <1>2, <1>4 DEF CallWay
  <2>4. TaskWay'
    BY DueParts DEF TaskWay, CameIn
  <2>5. ASSUME NEW k \in Nums PROVE HostWay(host[k])'
    <3>1. HostWay(host[k])
      BY DueParts
    <3>2. QED
      BY <1>2, <1>4, <3>1 DEF HostWay, WentOut
  <2>6. QED
    BY <2>1, <2>2, <2>3, <2>4, <2>5 DEF Ways
<1>9. m \notin late' => /\ tells[m] = 0 /\ m \notin handed
                        /\ \A k \in Nums : ~HasHost(k, m)
  <2>1. ~WentOut(m)
    BY DEF CameIn, WentOut
  <2>2. QED
    BY <1>4, <2>1, Unheard
<1>10. OneHost'
  <2>1. ASSUME NEW j \in Ids \ late', NEW k \in Nums, NEW l \in Nums,
               HasHost(k, j) \/ (k = new /\ j = m), HasHost(l, j) \/ (l = new /\ j = m)
        PROVE  k = l
    <3>1. CASE j = m
      BY <1>9, <2>1, <3>1
    <3>2. CASE j # m
      <4>1. Holds(k, j) /\ Holds(l, j) /\ j \notin late
        BY <1>4, <2>1, <3>2 DEF Holds
      <4>2. QED
        BY <4>1, DueParts DEF Due, OneHost
    <3>3. QED
      BY <3>1, <3>2
  <2>2. \A k \in Nums, j \in Ids : Holds(k, j)' => HasHost(k, j) \/ (k = new /\ j = m)
    BY <1>2, <1>6 DEF Holds
  <2>3. QED
    BY <2>1, <2>2 DEF OneHost
<1>11. ToldInv'
  <2>1. ASSUME NEW j \in Ids \ late', tells[j] # 0
        PROVE  /\ tells[j] = 1 /\ j # m
               /\ \A k \in Nums : HasHost(k, j) => host[k].ended
    BY <1>4, <1>9, <2>1, DueParts DEF Due, ToldInv
  <2>2. QED
    BY <1>2, <1>6, <2>1 DEF ToldInv, RingingNow
<1>12. HandedInv'
  <2>1. ASSUME NEW j \in handed \ late'
        PROVE  /\ j \in Ids /\ j # m
               /\ \A k \in Nums : HasHost(k, j) => Hushed(k)'
    <3>1. /\ j \in Ids /\ j # m
          /\ \A k \in Nums : HasHost(k, j) => Hushed(k)
      BY <1>4, <1>9, <2>1, DueParts DEF Due, HandedInv, GhostTypes
    <3>2. ASSUME NEW k \in Nums, HasHost(k, j) PROVE Hushed(k)'
      BY <1>2, <1>7, <3>1, <3>2 DEF Hushed, Current
    <3>3. QED
      BY <3>1, <3>2
  <2>2. QED
    BY <1>2, <1>6, <2>1 DEF HandedInv, RingingNow
<1>13. QED
  BY <1>8, <1>10, <1>11, <1>12 DEF DueInv, Due

LEMMA PickUpLandsDue ==
    ASSUME DueInv, NEW t \in tasks, PickUpLands(t)
    PROVE  DueInv'
<1>1. PICK m \in Ids : m = t.msg
  BY PickedUpIs DEF DueInv
<1>2. CameIn(m)
  BY <1>1, DueParts DEF PickUpLands, TaskWay
<1>3. TypeInv'
  BY PickUpLandsTypes DEF DueInv
<1>4. Grows /\ EventWay' /\ core' = core
  BY SameCore, DueParts DEF PickUpLands, coreVars
<1>5. CASE UNCHANGED <<call, host>> /\ tasks' = tasks \ {t}
  <2>1. begun' = begun /\ late' = late
    BY <1>5 DEF PickUpLands, TakenUp
  <2>2. QED
    BY <1>3, <1>4, <1>5, <2>1, TaskDue DEF PickUpLands
<1>6. CASE /\ IsRinging(m)
           /\ tasks' = (tasks \ {t}) \cup {NewTask("watch", call.num + 1, m)}
  <2>1. PICK w : w = NewTask("watch", call.num + 1, m)
    OBVIOUS
  <2>2. w.kind = "watch" /\ tasks' = (tasks \ {t}) \cup {w}
    BY <1>6, <2>1 DEF NewTask
  <2>3. \A u \in tasks' \ tasks : u.kind # "pick"
    BY <2>2
  <2>4. QED
    BY <1>2, <1>3, <1>4, <1>6, <2>3, RingDue DEF PickUpLands
<1>7. QED
  BY <1>1, <1>5, <1>6, PickedUpIs DEF DueInv

LEMMA PickUpDue ==
    ASSUME DueInv, NEW m \in Ids, PickUp(m)
    PROVE  DueInv'
<1>1. PICK t : t = NewTask("pick", 0, m)
  OBVIOUS
<1>2. t \in Task /\ t.msg = m
  <2>1. 0 \in 0..MaxCalls
    BY NumsNat
  <2>2. QED
    BY <1>1, <2>1, WhyTask
<1>3. PICK o : o = Started(Now, t)
  OBVIOUS
<1>4. /\ o \in State /\ o.call = call /\ o.host = host /\ o.tasks = tasks \cup {t}
  BY <1>2, <1>3, StartedIs, NowIsState, DueParts
<1>5. Becomes(o)
  BY <1>1, <1>3 DEF PickUp
<1>6. call' = call /\ host' = host /\ tasks' = tasks \cup {t}
  BY <1>4, <1>5, BecomesIs
<1>7. CameIn(m)
  BY DEF PickUp, CameIn
<1>8. TypeInv'
  BY PickUpTypes DEF DueInv
<1>9. Grows /\ EventWay'
  BY SameCore, DueParts DEF PickUp, coreVars
<1>10. QED
  BY <1>2, <1>6, <1>7, <1>8, <1>9, TaskDue DEF PickUp, ghostVars

\* A call placed.
LEMMA PlaceDue ==
    ASSUME DueInv, Place
    PROVE  DueInv'
<1>1. IsPlaced
  BY PlacedIs DEF DueInv
<1>2. PICK new : new = call.num + 1
  OBVIOUS
<1>3. new \in Nums /\ new > call.num
  <2>1. call.num \in 0..MaxCalls /\ call.num < MaxCalls
    BY <1>1, DueParts DEF IsPlaced, AppTypes, Call
  <2>2. QED
    BY <1>2, <2>1, NextNum
<1>4. PICK h : h = ServedHost(0)
  OBVIOUS
<1>5. h.msg = 0 /\ h.made = 0 /\ h.place = "no"
  <2>1. 0 \in Msg
    BY DEF Msg
  <2>2. QED
    BY <1>4, <2>1, ServedHostIs
<1>6. /\ call'.num = new /\ call'.msg = 0 /\ ~call'.incoming /\ call'.state = "starting"
      /\ tasks' = tasks /\ \A k \in Nums : host'[k] = IF k = new THEN h ELSE host[k]
  BY <1>1, <1>2, <1>4, DueParts DEF IsPlaced, AppTypes
<1>7. UNCHANGED <<coreVars, tells, handed, begun, late>>
  BY DEF Place, ghostVars
<1>8. TypeInv'
  BY PlaceTypes DEF DueInv
<1>9. Grows /\ EventWay'
  BY <1>7, SameCore, DueParts DEF coreVars
<1>10. \A k \in Nums, j \in Ids : HasHost(k, j)' => HasHost(k, j) /\ k # new /\ host'[k] = host[k]
  BY <1>5, <1>6, NumsNat DEF HasHost
<1>11. Ways'
  <2>1. BegunWay' /\ ToldWay'
    BY <1>7, DueParts DEF BegunWay, ToldWay, CameIn, WentOut, coreVars
  <2>2. CallWay'
    BY <1>6, NumsNat DEF CallWay
  <2>3. TaskWay'
    BY <1>6, <1>7, DueParts DEF TaskWay, CameIn, coreVars
  <2>4. ASSUME NEW k \in Nums PROVE HostWay(host[k])'
    <3>1. HostWay(host[k])
      BY DueParts
    <3>2. QED
      BY <1>5, <1>6, <1>7, <3>1, NumsNat DEF HostWay, WentOut, coreVars
  <2>5. QED
    BY <1>9, <2>1, <2>2, <2>3, <2>4 DEF Ways
<1>12. OneHost'
  <2>1. \A j \in Ids \ late, k, l \in Nums : HasHost(k, j)' /\ HasHost(l, j)' => k = l
    BY <1>10, DueParts DEF Due, OneHost, Holds
  <2>2. QED
    BY <1>6, <1>7, <2>1 DEF OneHost, Holds
<1>13. ToldInv'
  BY <1>6, <1>7, <1>10, DueParts DEF Due, ToldInv, RingingNow
<1>14. HandedInv'
  <2>1. ASSUME NEW j \in handed \ late, NEW k \in Nums, HasHost(k, j)' PROVE Hushed(k)'
    <3>1. j \in Ids
      BY DueParts DEF GhostTypes
    <3>2. HasHost(k, j) /\ k # new /\ host'[k] = host[k]
      BY <1>10, <2>1, <3>1
    <3>3. Hushed(k)
      BY <3>2, DueParts DEF Due, HandedInv
    <3>4. QED
      BY <1>6, <3>2, <3>3 DEF Hushed, Current
  <2>2. QED
    BY <1>6, <1>7, <2>1 DEF HandedInv, RingingNow
<1>15. QED
  BY <1>8, <1>11, <1>12, <1>13, <1>14 DEF DueInv, Due

\* A call answered: it comes to have a host.
LEMMA AnswerDue ==
    ASSUME DueInv, Answer
    PROVE  DueInv'
<1>1. IsAccepted
  BY AcceptedIs DEF DueInv
<1>2. PICK n \in Nums : n = call.num
  BY <1>1 DEF IsAccepted
<1>3. PICK m \in Ids : m = call.msg
  BY <1>1, DueParts DEF IsAccepted, World, CallFits
<1>4. call.state = "ringing" /\ call.incoming /\ m \in begun
  BY <1>1, <1>3, DueParts DEF IsAccepted, World, CallFits, CallWay
<1>5. PICK h : h = ServedHost(m)
  OBVIOUS
<1>6. h.msg = m /\ h.made = 0 /\ h.place = "no"
  <2>1. m \in Msg
    BY DEF Msg
  <2>2. QED
    BY <1>5, <2>1, ServedHostIs
<1>7. /\ call'.num = n /\ call'.msg = m /\ call'.incoming /\ call'.state = "starting"
      /\ tasks' = tasks /\ \A k \in Nums : host'[k] = IF k = n THEN h ELSE host[k]
  BY <1>1, <1>2, <1>3, <1>4, <1>5, DueParts DEF IsAccepted, AppTypes, Call
<1>8. UNCHANGED <<coreVars, tells, handed, begun, late>>
  BY DEF Answer
<1>9. TypeInv'
  BY AnswerTypes DEF DueInv
<1>10. Grows /\ EventWay'
  BY <1>8, SameCore, DueParts DEF coreVars
<1>11. \A k \in Nums, j \in Ids : HasHost(k, j)' => (k = n /\ j = m) \/ (k # n /\ HasHost(k, j))
  BY <1>6, <1>7, NumsNat DEF HasHost
<1>12. RingingNow(m) /\ Holds(n, m) /\ \A j \in Ids : ~RingingNow(j)'
  BY <1>2, <1>3, <1>4, <1>7 DEF RingingNow, Holds
<1>13. Ways'
  <2>1. BegunWay' /\ ToldWay'
    BY <1>8, DueParts DEF BegunWay, ToldWay, CameIn, WentOut, coreVars
  <2>2. CallWay'
    BY <1>4, <1>7, <1>8 DEF CallWay
  <2>3. TaskWay'
    BY <1>7, <1>8, DueParts DEF TaskWay, CameIn, coreVars
  <2>4. ASSUME NEW k \in Nums PROVE HostWay(host[k])'
    <3>1. HostWay(host[k])
      BY DueParts
    <3>2. QED
      BY <1>4, <1>6, <1>7, <1>8, <3>1, NumsNat DEF HostWay, WentOut, coreVars
  <2>5. QED
    BY <1>10, <2>1, <2>2, <2>3, <2>4 DEF Ways
<1>14. OneHost'
  <2>1. \A j \in Ids, k \in Nums : Holds(k, j)' => Holds(k, j)
    BY <1>7, <1>11, <1>12, <1>2, <1>3, <1>4 DEF Holds
  <2>2. QED
    BY <1>8, <2>1, DueParts DEF Due, OneHost
<1>15. ToldInv'
  <2>1. ASSUME NEW j \in Ids \ late, tells[j] # 0
        PROVE  tells[j] = 1 /\ \A k \in Nums : HasHost(k, j)' => host'[k].ended
    <3>1. j # m /\ tells[j] = 1 /\ \A k \in Nums : HasHost(k, j) => host[k].ended
      BY <1>12, <2>1, DueParts DEF Due, ToldInv
    <3>2. QED
      BY <1>7, <1>11, <3>1
  <2>2. QED
    BY <1>8, <1>12, <2>1 DEF ToldInv
<1>16. HandedInv'
  <2>1. ASSUME NEW j \in handed \ late, NEW k \in Nums, HasHost(k, j)' PROVE Hushed(k)'
    <3>1. j \in Ids /\ j # m
      BY <1>12, <2>1, DueParts DEF GhostTypes, Due, HandedInv
    <3>2. HasHost(k, j) /\ k # n /\ host'[k] = host[k]
      BY <1>7, <1>11, <2>1, <3>1
    <3>3. Hushed(k)
      BY <2>1, <3>2, DueParts DEF Due, HandedInv
    <3>4. QED
      BY <1>7, <3>2, <3>3 DEF Hushed, Current
  <2>2. QED
    BY <1>8, <1>12, <2>1, DueParts DEF HandedInv, GhostTypes
<1>17. QED
  BY <1>9, <1>13, <1>14, <1>15, <1>16 DEF DueInv, Due

\* The call is over.
LEMMA ClosedCalm ==
    ASSUME DueInv, NEW h, IsClosed(h), \A t \in tasks' \ tasks : t.kind # "pick"
    PROVE  /\ CalmApp /\ ~Busy' /\ call'.state = "ended"
           /\ \A k \in Nums : host'[k] = IF k = call.num THEN LetGo(h) ELSE host[k]
<1>1. /\ call'.num = call.num /\ call'.msg = call.msg /\ call'.incoming = call.incoming
      /\ call'.state = "ended" /\ Busy
  BY DueParts DEF IsClosed, AppTypes, Call
<1>2. PICK n \in Nums : n = call.num
  BY <1>1, BusyNum, DueParts
<1>3. PICK g \in Host : g = host[n]
  BY DueParts DEF AppTypes
<1>4. /\ h \in Host /\ h.made = g.made /\ h.msg = g.msg /\ h.place = g.place
      /\ h.stage = g.stage
  BY <1>2, <1>3, SettledHost DEF IsClosed
<1>5. PICK d : d = LetGo(h)
  OBVIOUS
<1>6. /\ d.made = h.made /\ d.msg = h.msg /\ d.place = h.place /\ d.ended = h.ended
      /\ d.quiet = h.quiet
      /\ d.stage \in {"held", "dropped"} => h.stage \in {"held", "dropped"}
  BY <1>4, <1>5, DropHost DEF LetGo
<1>7. h = g \/ h = Settled(g)
  BY <1>2, <1>3 DEF IsClosed
<1>8. (g.ended => h.ended) /\ (g.quiet => h.quiet)
  BY <1>7, SettledHost
<1>9. Tame(n, g, d)
  BY <1>4, <1>6, <1>8 DEF Tame
<1>10. \A k \in Nums : host'[k] = IF k = n THEN d ELSE host[k]
  BY <1>2, <1>5 DEF IsClosed
<1>11. \A k \in Nums : Tame(k, host[k], host'[k])
  BY <1>3, <1>9, <1>10 DEF Tame
<1>12. CalmApp
  BY <1>1, <1>11 DEF CalmApp
<1>13. QED
  BY <1>1, <1>2, <1>5, <1>10, <1>12 DEF Busy, BusyIn

LEMMA TailWay ==
    ASSUME DueInv, core' = core, events \in Seq(Event), events # <<>>, events' = Tail(events)
    PROVE  /\ EventWay'
           /\ Head(events).kind \in {"IncomingCall", "IncomingCallAccepted"} =>
                 CameIn(Head(events).msg)
<1>1. /\ Head(events) = events[1] /\ 1 \in DOMAIN events
      /\ \A i \in DOMAIN events' : i + 1 \in DOMAIN events /\ events'[i] = events[i + 1]
  OBVIOUS
<1>2. QED
  BY <1>1, DueParts DEF EventWay, CameIn

\* m is heard to be another device's: it no longer rings, and its host is hushed.
LEMMA HandedStep ==
    ASSUME DueInv, TypeInv', Grows, EventWay', CalmApp, UNCHANGED <<tells, begun, late>>,
           NEW m \in begun, handed' \subseteq handed \cup {m},
           m \notin late => ~RingingNow(m)' /\ \A k \in Nums : HasHost(k, m)' => Hushed(k)'
    PROVE  DueInv'
<1>1. TypeInv /\ Ways /\ Due
  BY DEF DueInv
<1>2. ToldWay'
  BY <1>1, WaysNext DEF ToldWay
<1>3. handed' \subseteq begun
  BY DueParts DEF BegunWay
<1>4. Ways'
  BY <1>1, <1>2, <1>3, CalmWays
<1>5. OneHost'
  BY <1>1, CalmOneHost
<1>6. ToldInv'
  <2>1. \A j \in Ids \ late : tells[j] = 0 \/ (/\ tells[j] = 1 /\ ~RingingNow(j)'
                                /\ \A n \in Nums : HasHost(n, j)' => host'[n].ended)
    BY <1>1, CalmTold
  <2>2. QED
    BY <2>1 DEF ToldInv
<1>7. HandedInv'
  <2>1. ASSUME NEW j \in handed' \ late
        PROVE  ~RingingNow(j)' /\ \A k \in Nums : HasHost(k, j)' => Hushed(k)'
    <3>1. CASE j \in handed
      BY <1>1, <2>1, <3>1, CalmHanded
    <3>2. CASE j = m
      BY <2>1, <3>2
    <3>3. QED
      BY <2>1, <3>1, <3>2
  <2>2. QED
    BY <2>1 DEF HandedInv
<1>8. QED
  BY <1>4, <1>5, <1>6, <1>7 DEF DueInv, Due

\* What rings has no host, its end was not told, and it is not known to be another's.
LEMMA RingsAlone ==
    ASSUME DueInv, call.state = "ringing"
    PROVE  \E m \in Ids : /\ m = call.msg /\ m \in begun
                          /\ m \notin late => tells[m] = 0 /\ m \notin handed
                                              /\ \A k \in Nums : ~HasHost(k, m)
<1>1. call.num \in Nums /\ call.incoming /\ call.msg \in Ids /\ host[call.num] = NoHost
  BY DueParts, BusyNum DEF World, CallFits, Busy, BusyIn
<1>2. PICK m \in Ids : m = call.msg
  BY <1>1
<1>3. m \in begun
  BY <1>1, <1>2, DueParts DEF CallWay
<1>4. RingingNow(m) /\ Holds(call.num, m)
  BY <1>1, <1>2 DEF RingingNow, Holds
<1>5. m \notin late => tells[m] = 0 /\ m \notin handed
  BY <1>4, DueParts DEF Due, ToldInv, HandedInv
<1>6. ASSUME m \notin late, NEW k \in Nums, HasHost(k, m) PROVE FALSE
  <2>1. k = call.num
    BY <1>1, <1>4, <1>6, DueParts DEF Due, OneHost, Holds
  <2>2. QED
    BY <1>1, <1>6, <2>1, NumsNat DEF HasHost, NoHost
<1>7. QED
  BY <1>2, <1>3, <1>5, <1>6

LEMMA HangUpDue ==
    ASSUME DueInv, HangUp
    PROVE  DueInv'
<1>1. IsHungUp
  BY HungUpIs DEF DueInv
<1>2. PICK h : h = host[call.num] /\ IsClosed(h)
  BY <1>1 DEF IsHungUp
<1>3. \A t \in tasks' \ tasks : t.kind # "pick"
  <2>1. PICK w : w = NewTask("decline", call.num, call.msg)
    OBVIOUS
  <2>2. w.kind = "decline" /\ (tasks' = tasks \/ tasks' = tasks \cup {w})
    BY <1>1, <2>1 DEF IsHungUp, NewTask
  <2>3. QED
    BY <2>2
<1>4. CalmApp /\ call'.state = "ended"
  BY <1>2, <1>3, ClosedCalm
<1>5. UNCHANGED <<coreVars, handed, begun, late>>
  BY DEF HangUp
<1>6. Grows /\ EventWay'
  BY <1>5, SameCore, DueParts DEF coreVars
<1>7. TypeInv'
  BY HangUpTypes DEF DueInv
<1>8. CASE call.state = "ringing"
  <2>1. PICK m \in Ids : /\ m = call.msg /\ m \in begun
                         /\ m \notin late => tells[m] = 0 /\ m \notin handed
                                             /\ \A k \in Nums : ~HasHost(k, m)
    BY <1>8, RingsAlone
  <2>2. Told(m)
    BY <1>8, <2>1 DEF HangUp
  <2>3. m \notin late => /\ tells[m] = 0 /\ ~RingingNow(m)'
                         /\ \A k \in Nums : HasHost(k, m)' => host'[k].ended
    BY <1>4, <2>1, CalmHolds, DueParts DEF RingingNow
  <2>4. QED
    BY <1>4, <1>5, <1>6, <1>7, <2>1, <2>2, <2>3, ToldStep
<1>9. CASE call.state # "ringing"
  <2>1. tells' = tells
    BY <1>9 DEF HangUp
  <2>2. QED
    BY <1>4, <1>5, <1>6, <1>7, <2>1, CalmStep DEF CalmGhosts
<1>10. QED
  BY <1>8, <1>9

LEMMA ResetDue ==
    ASSUME DueInv, Reset
    PROVE  DueInv'
<1>1. /\ TypeInv' /\ host' = host /\ tasks' = tasks
      /\ call' = [call EXCEPT !.state = call'.state, !.reason = call'.reason]
      /\ ~Busy /\ ~Busy'
  BY ResetTypes DEF DueInv
<1>2. /\ call'.num = call.num /\ call'.msg = call.msg /\ call'.incoming = call.incoming
      /\ call'.state # "ringing"
  BY <1>1, DueParts DEF AppTypes, Call, Busy, BusyIn
<1>3. CalmApp
  BY <1>1, <1>2 DEF CalmApp, Tame
<1>4. Grows /\ EventWay'
  BY SameCore, DueParts DEF Reset, coreVars
<1>5. QED
  BY <1>1, <1>3, <1>4, CalmStep DEF Reset, CalmGhosts, ghostVars

LEMMA RingLimitDue ==
    ASSUME DueInv, NEW t \in tasks, RingLimit(t)
    PROVE  DueInv'
<1>1. TypeInv'
  BY RingLimitTypes DEF DueInv
<1>2. Grows /\ EventWay'
  BY SameCore, DueParts DEF RingLimit, coreVars
<1>3. CASE UNCHANGED <<call, host>> /\ tasks' = tasks \ {t}
  BY <1>1, <1>2, <1>3, TaskDue DEF RingLimit, ghostVars
<1>4. CASE /\ IsClosed(host[call.num]) /\ call.state = "ringing"
           /\ tasks' = (tasks \ {t}) \cup {NewTask("why", call.num, call.msg)}
  <2>1. PICK w : w = NewTask("why", call.num, call.msg)
    OBVIOUS
  <2>2. w.kind = "why" /\ tasks' = (tasks \ {t}) \cup {w}
    BY <1>4, <2>1 DEF NewTask
  <2>3. \A u \in tasks' \ tasks : u.kind # "pick"
    BY <2>2
  <2>4. PICK h : h = host[call.num] /\ IsClosed(h)
    BY <1>4
  <2>5. CalmApp
    BY <2>3, <2>4, ClosedCalm
  <2>6. QED
    BY <1>1, <1>2, <2>5, CalmStep DEF RingLimit, CalmGhosts, ghostVars
<1>5. QED
  BY <1>3, <1>4, RingLimitIs DEF DueInv

LEMMA WhyLandsDue ==
    ASSUME DueInv, NEW t \in tasks, WhyLands(t)
    PROVE  DueInv'
<1>1. IsExplained(t)
  BY ExplainedIs DEF DueInv
<1>2. TypeInv'
  BY WhyLandsTypes DEF DueInv
<1>3. /\ call'.num = call.num /\ call'.msg = call.msg /\ call'.incoming = call.incoming
      /\ call'.state = call.state
  BY <1>1, DueParts DEF IsExplained, AppTypes, Call
<1>4. CalmApp
  BY <1>1, <1>3 DEF IsExplained, CalmApp, Tame, Busy, BusyIn
<1>5. Grows /\ EventWay'
  BY SameCore, DueParts DEF WhyLands, coreVars
<1>6. QED
  BY <1>2, <1>4, <1>5, CalmStep DEF WhyLands, CalmGhosts, ghostVars

\* Nothing is taken from the app by an event that does not end its call.
LEMMA HandedSame ==
    ASSUME DueInv, NEW e \in Event, ~(Busy /\ EndsIt(e, call.msg)) \/ call.msg = 0,
           handed' = handed \cup HeardElsewhere(e)
    PROVE  handed' = handed
<1>1. HeardElsewhere(e) = {}
  BY NumsNat DEF HeardElsewhere, EndsIt
<1>2. QED
  BY <1>1

LEMMA HeardDue ==
    ASSUME DueInv, HandleEvent, NEW e \in Event, e = Head(events),
           IsKept(Now, e, Now') \/ IsAnswered(Now, e, Now') \/ IsIgnored(Now, e, Now')
    PROVE  DueInv'
<1>1. Now.call = call /\ Now.host = host /\ Now.tasks = tasks /\ Now \in State
  BY NowIsState, DueParts
<1>2. Now'.call = call' /\ Now'.host = host' /\ Now'.tasks = tasks'
  BY HandleEventIs, NowNext, DueParts
<1>3. TypeInv'
  BY HandleEventTypes DEF DueInv
<1>4. Grows /\ EventWay'
  <2>1. events \in Seq(Event) /\ events # <<>> /\ events' = Tail(events) /\ core' = core
    BY DueParts DEF HandleEvent, CoreTypes
  <2>2. QED
    BY <2>1, TailWay, SameCore
<1>5. tells' = tells /\ handed' = handed \cup HeardElsewhere(e) /\ TakenUp
  BY DEF HandleEvent
<1>6. /\ call'.num = call.num /\ call'.msg = call.msg /\ call'.incoming = call.incoming
      /\ call'.state = "ringing" => call.state = "ringing"
      /\ Busy' => Busy
      /\ tasks' = tasks /\ (~(Busy /\ EndsIt(e, call.msg)) \/ call.msg = 0)
  <2>1. CASE IsKept(Now, e, Now')
    <3>1. call' = [call EXCEPT !.early = call'.early] /\ tasks' = tasks /\ Unnamed(call)
      BY <1>1, <1>2, <2>1 DEF IsKept
    <3>2. QED
      BY <3>1, DueParts DEF Unnamed, Busy, BusyIn, AppTypes, Call
  <2>2. CASE IsAnswered(Now, e, Now')
    <3>1. /\ call' = [call EXCEPT !.state = call'.state] /\ tasks' = tasks
          /\ call'.state = IF call.state = "calling" THEN "connecting" ELSE call.state
          /\ e.kind = "OutgoingCallAccepted"
      BY <1>1, <1>2, <2>2 DEF IsAnswered, AnswersIt
    <3>2. QED
      BY <3>1, DueParts DEF Busy, BusyIn, EndsIt, AppTypes, Call
  <2>3. CASE IsIgnored(Now, e, Now')
    <3>1. Now' = Now /\ (BusyIn(call) => ~EndsIt(e, call.msg))
      BY <1>1, <2>3 DEF IsIgnored
    <3>2. call' = call /\ tasks' = tasks
      BY <1>1, <1>2, <3>1
    <3>3. QED
      BY <3>1, <3>2 DEF Busy
  <2>4. QED
    BY <2>1, <2>2, <2>3
<1>7. ASSUME NEW k \in Nums PROVE Tame(k, host[k], host'[k])
  <2>1. CASE host'[k] = host[k]
    BY <2>1 DEF Tame
  <2>2. CASE host'[k] # host[k]
    <3>1. IsAnswered(Now, e, Now')
      BY <1>1, <1>2, <2>2 DEF IsKept, IsIgnored
    <3>2. PICK g \in Host : g = host[k]
      BY DueParts DEF AppTypes
    <3>3. host'[k] = IF k = call.num THEN [g EXCEPT !.answered = @ \/ g.stage = "held"] ELSE g
      BY <1>1, <1>2, <3>1, <3>2 DEF IsAnswered
    <3>4. PICK h : h = [g EXCEPT !.answered = @ \/ g.stage = "held"]
      OBVIOUS
    <3>5. host'[k] = h
      BY <2>2, <3>2, <3>3, <3>4
    <3>6. QED
      BY <3>2, <3>4, <3>5 DEF Tame, Host
  <2>3. QED
    BY <2>1, <2>2
<1>8. CalmApp
  BY <1>6, <1>7 DEF CalmApp
<1>9. handed' = handed
  BY <1>5, <1>6, HandedSame
<1>10. begun' = begun /\ late' = late
  BY <1>5, <1>6 DEF TakenUp
<1>11. QED
  BY <1>3, <1>4, <1>5, <1>8, <1>9, <1>10, CalmStep DEF CalmGhosts

\* The call is over, or heard to be another device's.
LEMMA HeardOverDue ==
    ASSUME DueInv, HandleEvent, NEW e \in Event, e = Head(events), IsEnded(Now, e, Now')
    PROVE  DueInv'
<1>1. Now' \in State
  BY HandleEventIs, DueParts
<1>2. /\ IsClosed(Settled(host[call.num])) /\ EndsIt(e, call.msg)
      /\ \/ tasks' = tasks
         \/ tasks' = tasks \cup {NewTask("why", call.num, call.msg)}
  BY <1>1, EndedIsClosed, DueParts
<1>3. PICK m \in Ids : m = call.msg
  BY <1>1, EndedIsClosed, DueParts
<1>4. PICK n \in Nums : n = call.num
  BY <1>2, BusyNum, DueParts DEF IsClosed
<1>5. PICK g \in Host : g = host[n]
  BY DueParts DEF AppTypes
<1>6. PICK h : h = Settled(g)
  OBVIOUS
<1>7. IsClosed(h)
  BY <1>2, <1>4, <1>5, <1>6
<1>8. \A t \in tasks' \ tasks : t.kind # "pick"
  <2>1. PICK w : w = NewTask("why", call.num, call.msg)
    OBVIOUS
  <2>2. w.kind = "why" /\ (tasks' = tasks \/ tasks' = tasks \cup {w})
    BY <1>2, <2>1 DEF NewTask
  <2>3. QED
    BY <2>2
<1>9. /\ CalmApp /\ ~Busy' /\ call'.state = "ended"
      /\ \A k \in Nums : host'[k] = IF k = call.num THEN LetGo(h) ELSE host[k]
  BY <1>7, <1>8, ClosedCalm
<1>10. TypeInv'
  BY HandleEventTypes DEF DueInv
<1>11. events \in Seq(Event) /\ events # <<>> /\ events' = Tail(events) /\ core' = core
  BY DueParts DEF HandleEvent, CoreTypes
<1>12. Grows /\ EventWay'
  BY <1>11, TailWay, SameCore
<1>13. /\ tells' = tells /\ handed' = handed \cup HeardElsewhere(e)
       /\ begun' = begun /\ late' = late
  BY <1>9 DEF HandleEvent, TakenUp, CalmApp
<1>14. CASE HeardElsewhere(e) = {}
  BY <1>9, <1>10, <1>12, <1>13, <1>14, CalmStep DEF CalmGhosts
<1>15. CASE HeardElsewhere(e) # {}
  <2>1. e.kind = "IncomingCallAccepted" /\ e.msg = m /\ handed' \subseteq handed \cup {m}
    BY <1>3, <1>13, <1>15 DEF HeardElsewhere
  <2>2. CameIn(m)
    BY <1>11, <2>1, TailWay
  <2>3. call.incoming /\ m \in begun
    BY <1>3, <2>2, DueParts DEF CallWay, CameIn, WentOut
  <2>4. Holds(n, m)
    BY <1>3, <1>4, <2>3 DEF Holds
  <2>5. ASSUME m \notin late, NEW k \in Nums, HasHost(k, m)' PROVE Hushed(k)'
    <3>1. HasHost(k, m)
      BY <1>9, <2>5, CalmHolds, DueParts
    <3>2. k = n
      BY <2>4, <2>5, <3>1, DueParts DEF Due, OneHost, Holds
    <3>3. /\ h.ended = (g.ended \/ g.stage = "held") /\ h.quiet /\ h.stage = g.stage /\ h \in Host
      BY <1>6, SettledHost
    <3>4. host'[k] = LetGo(h)
      BY <1>4, <1>9, <3>2
    <3>5. ~Current(k)'
      BY <1>9 DEF Current
    <3>6. g.stage # "dropped"
      <4>1. Current(n)
        BY <1>4, <1>7 DEF Current, IsClosed
      <4>2. QED
        BY <1>5, <4>1, CurrentHost, DueParts DEF Running
    <3>7. CASE g.stage = "held"
      <4>1. LetGo(h).ended
        BY <3>3, <3>7, DropHost DEF LetGo
      <4>2. QED
        BY <3>4, <4>1 DEF Hushed
    <3>8. CASE g.stage # "held"
      <4>1. host'[k].quiet /\ host'[k].stage \notin {"held", "dropped"}
        BY <3>3, <3>4, <3>6, <3>8 DEF LetGo
      <4>2. QED
        BY <3>5, <4>1 DEF Hushed
    <3>9. QED
      BY <3>7, <3>8
  <2>6. ~RingingNow(m)'
    BY <1>9 DEF RingingNow
  <2>7. QED
    BY <1>9, <1>10, <1>12, <1>13, <2>1, <2>3, <2>5, <2>6, HandedStep
<1>16. QED
  BY <1>14, <1>15

LEMMA HandleEventDue ==
    ASSUME DueInv, HandleEvent
    PROVE  DueInv'
<1>1. PICK e \in Event : e = Head(events) /\ IsHandled(Now, e, Now')
  BY HandleEventIs, DueParts
<1>2. Now' \in State
  BY HandleEventIs, DueParts
<1>3. CASE IsKept(Now, e, Now') \/ IsAnswered(Now, e, Now') \/ IsIgnored(Now, e, Now')
  BY <1>1, <1>3, HeardDue
<1>4. CASE IsEnded(Now, e, Now')
  BY <1>1, <1>4, HeardOverDue
<1>5. CASE IsRung(Now, e, Now')
  <2>1. /\ IsRinging(e.msg) /\ e.msg \in Ids /\ e.kind = "IncomingCall"
        /\ tasks' = tasks \cup {NewTask("watch", call.num + 1, e.msg)}
    BY <1>2, <1>5, RungIs, DueParts
  <2>2. PICK m \in Ids : m = e.msg
    BY <2>1
  <2>3. PICK w : w = NewTask("watch", call.num + 1, e.msg)
    OBVIOUS
  <2>4. w.kind = "watch" /\ tasks' = tasks \cup {w}
    BY <2>1, <2>3 DEF NewTask
  <2>5. \A t \in tasks' \ tasks : t.kind # "pick"
    BY <2>4
  <2>6. events \in Seq(Event) /\ events # <<>> /\ events' = Tail(events) /\ core' = core
    BY DueParts DEF HandleEvent, CoreTypes
  <2>7. EventWay' /\ CameIn(m)
    BY <1>1, <2>1, <2>2, <2>6, TailWay
  <2>8. handed' = handed
    BY <2>1 DEF HandleEvent, HeardElsewhere, IsRinging
  <2>9. TypeInv'
    BY HandleEventTypes DEF DueInv
  <2>10. QED
    BY <2>1, <2>2, <2>5, <2>6, <2>7, <2>8, <2>9, RingDue DEF HandleEvent
<1>6. QED
  BY <1>1, <1>3, <1>4, <1>5 DEF IsHandled

\* The core's name of a call that is placed.
LEMMA NamedCalm ==
    ASSUME DueInv, TypeInv', NEW r \in reports, r.kind = "placed", Current(r.num), IsNamed(r)
    PROVE  CalmApp
<1>1. PICK n \in Nums : n = r.num /\ n = call.num /\ Busy
  BY DueParts, BusyNum DEF Current
<1>2. PICK g \in Host : g = host[n] /\ HostFits(g) /\ HostWay(g)
  BY DueParts DEF AppTypes, World, Hosts
<1>3. r.msg \in Ids /\ r.msg = g.msg /\ g.place = "done"
  BY <1>1, <1>2, DueParts DEF World, ReportsFit
<1>4. WentOut(r.msg)
  <2>1. g.msg = g.made
    BY <1>2, <1>3, NumsNat DEF HostFits
  <2>2. QED
    BY <1>2, <1>3, <2>1 DEF HostWay
<1>5. ~call.incoming
  <2>1. call.num > 0
    BY <1>1, CurrentIs, DueParts
  <2>2. call.incoming => g.place = "no"
    BY <1>1, <1>2, <2>1, DueParts DEF World, CallFits
  <2>3. QED
    BY <1>3, <2>2
<1>6. /\ tasks' = tasks /\ call'.num = n /\ call'.msg = r.msg /\ ~call'.incoming
      /\ \A k \in Nums : k # n => host'[k] = host[k]
  BY <1>1 DEF IsNamed
<1>7. call'.state # "ringing"
  BY DEF IsNamed
<1>8. Tame(n, g, host'[n])
  <2>1. PICK a \in BOOLEAN :
           \/ host'[n] = [g EXCEPT !.answered = a]
           \/ host'[n] = LetGo(Settled([g EXCEPT !.answered = a]))
    BY <1>1, <1>2 DEF IsNamed
  <2>2. PICK h : h = [g EXCEPT !.answered = a]
    OBVIOUS
  <2>3. /\ h \in Host /\ h.made = g.made /\ h.msg = g.msg /\ h.place = g.place
        /\ h.ended = g.ended /\ h.quiet = g.quiet /\ h.stage = g.stage
    BY <2>1, <2>2 DEF Host
  <2>4. PICK d : d = Settled(h)
    OBVIOUS
  <2>5. /\ d \in Host /\ d.made = h.made /\ d.msg = h.msg /\ d.place = h.place
        /\ d.stage = h.stage /\ d.quiet /\ (h.ended => d.ended)
    BY <2>3, <2>4, SettledHost
  <2>6. PICK l : l = LetGo(d)
    OBVIOUS
  <2>7. /\ l.made = d.made /\ l.msg = d.msg /\ l.place = d.place /\ l.ended = d.ended
        /\ l.quiet = d.quiet
        /\ l.stage \in {"held", "dropped"} => d.stage \in {"held", "dropped"}
    BY <2>5, <2>6, DropHost DEF LetGo
  <2>8. CASE host'[n] = h
    BY <2>3, <2>8 DEF Tame
  <2>9. CASE host'[n] = l
    BY <2>3, <2>5, <2>7, <2>9 DEF Tame
  <2>10. QED
    BY <2>1, <2>2, <2>4, <2>6, <2>8, <2>9
<1>9. \A k \in Nums : Tame(k, host[k], host'[k])
  BY <1>2, <1>6, <1>8 DEF Tame
<1>10. \A m \in Ids : call'.msg = m => WentOut(m)
  BY <1>4, <1>6
<1>11. call'.incoming = call.incoming
  <2>1. call.incoming \in BOOLEAN /\ call'.incoming \in BOOLEAN
    BY DueParts DEF AppTypes, TypeInv, TypeOK, Call
  <2>2. QED
    BY <1>5, <1>6, <2>1
<1>12. QED
  BY <1>1, <1>5, <1>6, <1>7, <1>9, <1>10, <1>11 DEF CalmApp

LEMMA ReportLandsDue ==
    ASSUME DueInv, NEW r \in reports, ReportLands(r)
    PROVE  DueInv'
<1>1. TypeInv'
  BY ReportLandsTypes DEF DueInv
<1>2. Grows /\ EventWay'
  BY SameCore, DueParts DEF ReportLands, coreVars
<1>3. CASE ~Current(r.num)
  <2>1. UNCHANGED <<call, host, tasks>>
    BY <1>3, ReportedIs, DueParts
  <2>2. QED
    BY <1>1, <1>2, <2>1, SameDue DEF ReportLands, ghostVars
<1>4. CASE Current(r.num)
  <2>1. IsReported(r)
    BY <1>4, ReportedIs, DueParts
  <2>2. CASE r.kind = "placed" /\ IsNamed(r)
    <3>1. CalmApp
      BY <1>1, <1>4, <2>2, NamedCalm
    <3>2. QED
      BY <1>1, <1>2, <3>1, CalmStep DEF ReportLands, CalmGhosts, ghostVars
  <2>3. CASE /\ host' = host /\ tasks' = tasks
             /\ call' = [call EXCEPT !.state = call'.state]
             /\ Busy' /\ (call'.state = "ringing" <=> call.state = "ringing")
    <3>1. call'.num = call.num /\ call'.msg = call.msg /\ call'.incoming = call.incoming
      BY <2>3, DueParts DEF AppTypes, Call
    <3>2. CalmApp
      BY <1>4, <2>3, <3>1 DEF CalmApp, Tame, Current
    <3>3. QED
      BY <1>1, <1>2, <3>2, CalmStep DEF ReportLands, CalmGhosts, ghostVars
  <2>4. CASE IsClosed(host[call.num]) /\ tasks' = tasks
    <3>1. PICK h : h = host[call.num] /\ IsClosed(h)
      BY <2>4
    <3>2. CalmApp
      BY <2>4, <3>1, ClosedCalm
    <3>3. QED
      BY <1>1, <1>2, <3>2, CalmStep DEF ReportLands, CalmGhosts, ghostVars
  <2>5. QED
    BY <2>1, <2>2, <2>3, <2>4 DEF IsReported
<1>5. QED
  BY <1>3, <1>4

-----------------------------------------------------------------------------
(* Whose call it is *)

LEMMA InitDue ==
    ASSUME Init
    PROVE  DueInv
<1>1. TypeInv
  BY InitTypes
<1>2. /\ call.num = 0 /\ call.state = "" /\ call.msg = 0 /\ ~call.incoming
      /\ \A n \in Nums : host[n].msg = 0 /\ host[n].made = 0
  BY DEF Init, NoCall, NoHost
<1>3. \A n \in Nums, m \in Ids : ~HasHost(n, m)
  BY <1>2, NumsNat DEF HasHost
<1>4. Ways
  <2>1. EventWay
    <3>1. DOMAIN events = {}
      BY NoEntries DEF Init
    <3>2. QED
      BY <3>1 DEF EventWay
  <2>2. \A m \in Ids : tells[m] = 0
    BY DEF Init
  <2>3. BegunWay /\ ToldWay
    BY <2>2 DEF Init, BegunWay, ToldWay
  <2>4. CallWay /\ TaskWay
    BY <1>2, NumsNat DEF Init, CallWay, TaskWay
  <2>5. \A n \in Nums : HostWay(host[n])
    BY <1>2, NumsNat DEF HostWay
  <2>6. QED
    BY <2>1, <2>3, <2>4, <2>5 DEF Ways
<1>5. OneHost
  BY <1>2, <1>3 DEF OneHost, Holds
<1>6. ToldInv /\ HandedInv
  BY DEF Init, ToldInv, HandedInv
<1>7. QED
  BY <1>1, <1>4, <1>5, <1>6 DEF DueInv, Due

LEMMA SystemDue ==
    ASSUME DueInv, System
    PROVE  DueInv'
<1>1. ASSUME NEW n \in Nums, NEW ok \in BOOLEAN, NEW done \in BOOLEAN, CoreAccepts(n, ok, done)
      PROVE  DueInv'
  BY <1>1, CoreAcceptsDue
<1>2. ASSUME NEW n \in Nums, NEW ok \in BOOLEAN, CoreEndsCall(n, ok) \/ HostStarts(n, ok)
      PROVE  DueInv'
  BY <1>2, CoreEndsCallDue, HostStartsDue
<1>3. ASSUME NEW n \in Nums,
             \/ CorePlaces(n) \/ CoreRefuses(n) \/ HostLands(n) \/ PlaceAnswered(n)
             \/ PlaceChecks(n)
      PROVE  DueInv'
  BY <1>3, CorePlacesDue, CoreRefusesDue, HostLandsDue, PlaceAnsweredDue, PlaceChecksDue
<1>4. ASSUME NEW n \in Nums, NEW who \in {"place", "page", "drop"}, EndBegins(n, who)
      PROVE  DueInv'
  BY <1>4, EndBeginsDue
<1>5. ASSUME NEW t \in tasks, NEW ok \in BOOLEAN, CoreDeclines(t, ok)
      PROVE  DueInv'
  BY <1>5, CoreDeclinesDue
<1>6. ASSUME NEW t \in tasks, NEW found \in {"", "Alerting", "Declined", "other"},
             CoreSays(t, found)
      PROVE  DueInv'
  BY <1>6, CoreSaysDue
<1>7. ASSUME NEW t \in tasks, PickUpLands(t) \/ RingLimit(t) \/ WhyLands(t)
      PROVE  DueInv'
  BY <1>7, PickUpLandsDue, RingLimitDue, WhyLandsDue
<1>8. ASSUME NEW r \in reports, ReportLands(r)
      PROVE  DueInv'
  BY <1>8, ReportLandsDue
<1>9. CASE HandleEvent
  BY <1>9, HandleEventDue
<1>10. QED
  BY <1>1, <1>2, <1>3, <1>4, <1>5, <1>6, <1>7, <1>8, <1>9 DEF System

LEMMA OthersDue ==
    ASSUME DueInv, Others
    PROVE  DueInv'
<1>1. CASE CoreRings \/ CoreLosesEvents
  BY <1>1, CoreRingsDue, CoreLosesEventsDue
<1>2. ASSUME NEW m \in Ids, CoreTaken(m) \/ CoreAnswered(m) \/ CoreEnds(m) \/ PickUp(m)
      PROVE  DueInv'
  BY <1>2, CoreTakenDue, CoreAnsweredDue, CoreEndsDue, PickUpDue
<1>3. ASSUME NEW n \in Nums, PagePlaces(n) \/ PageAccepts(n) \/ PageEnds(n)
      PROVE  DueInv'
  BY <1>3, PagePlacesDue, PageAcceptsDue, PageEndsDue
<1>4. ASSUME NEW n \in Nums, NEW k \in {"connected", "disconnected", "gave up"},
             PageConnects(n, k)
      PROVE  DueInv'
  BY <1>4, PageConnectsDue
<1>5. CASE Place \/ Answer \/ HangUp \/ Reset
  BY <1>5, PlaceDue, AnswerDue, HangUpDue, ResetDue
<1>6. QED
  BY <1>1, <1>2, <1>3, <1>4, <1>5 DEF Others

LEMMA StutterDue ==
    ASSUME DueInv, UNCHANGED vars
    PROVE  DueInv'
<1>1. TypeInv'
  BY StutterTypes DEF DueInv
<1>2. UNCHANGED <<core, events, call, host, tasks, tells, handed, begun, late>>
  BY DEF vars, coreVars, appVars, ghostVars
<1>3. QED
  BY <1>1, <1>2, SameCore, SameDue, DueParts

LEMMA DueAlways == Spec => []DueInv
<1>1. Init => DueInv
  BY InitDue
<1>2. DueInv /\ [Next]_vars => DueInv'
  BY SystemDue, OthersDue, StutterDue DEF Next
<1>3. QED
  BY <1>1, <1>2, PTL DEF Spec

\* The core is told that a call is over by the host of it, when it lets go, or by hang_up
\* of one that rings.  It is told once of each, however many of them there are: the page's
\* button, the drop of its host and a call placed too late end it together.
THEOREM ToldOnce == Spec => [](\A m \in Ids \ late : tells[m] <= 1)
<1>1. ASSUME DueInv PROVE \A m \in Ids \ late : tells[m] <= 1
  <2>1. \A m \in Ids \ late : tells[m] = 0 \/ tells[m] = 1
    BY <1>1, DueParts DEF Due, ToldInv
  <2>2. QED
    BY <2>1
<1>2. DueInv => \A m \in Ids \ late : tells[m] <= 1
  BY <1>1
<1>3. QED
  BY <1>2, DueAlways, PTL

\* What is known to be another device's is not told of.
LEMMA SparedStep ==
    ASSUME DueInv, Next, NEW m \in handed \ late
    PROVE  tells'[m] = tells[m]
<1>1. m \in Ids
  BY DueParts DEF GhostTypes
<1>2. \A k \in Ids \ {m} : Told(k) => tells'[m] = tells[m]
  BY <1>1, DueParts DEF Told, GhostTypes
<1>3. CASE tells' = tells
  BY <1>3
<1>4. ASSUME NEW n \in Nums, NEW who \in {"place", "page", "drop"}, EndBegins(n, who)
      PROVE  tells'[m] = tells[m]
  <2>1. CASE host[n].msg = 0 \/ host[n].ended
    BY <1>4, <2>1 DEF EndBegins
  <2>2. CASE ~(host[n].msg = 0 \/ host[n].ended)
    <3>1. \E k \in Ids : Told(k) /\ (k \notin late => k \notin handed)
      BY <1>4, <2>2, EndTold
    <3>2. QED
      BY <1>2, <3>1
  <2>3. QED
    BY <2>1, <2>2
<1>5. CASE HangUp
  <2>1. CASE call.state = "ringing"
    <3>1. \E k \in Ids : k = call.msg /\ (k \notin late => k \notin handed)
      BY <2>1, RingsAlone
    <3>2. \E k \in Ids : Told(k) /\ (k \notin late => k \notin handed)
      BY <1>5, <2>1, <3>1 DEF HangUp
    <3>3. QED
      BY <1>2, <3>2
  <2>2. CASE call.state # "ringing"
    BY <1>5, <2>2 DEF HangUp
  <2>3. QED
    BY <2>1, <2>2
<1>6. ASSUME System, \A n \in Nums, who \in {"place", "page", "drop"} : ~EndBegins(n, who)
      PROVE  tells' = tells
  <2>1. ASSUME NEW n \in Nums, NEW ok \in BOOLEAN, NEW done \in BOOLEAN,
               CoreAccepts(n, ok, done) \/ CoreEndsCall(n, ok) \/ HostStarts(n, ok)
        PROVE  tells' = tells
    BY <2>1 DEF CoreAccepts, CoreEndsCall, HostStarts, ghostVars
  <2>2. ASSUME NEW n \in Nums,
               \/ CorePlaces(n) \/ CoreRefuses(n) \/ HostLands(n) \/ PlaceAnswered(n)
               \/ PlaceChecks(n)
        PROVE  tells' = tells
    BY <2>2 DEF CorePlaces, CoreRefuses, HostLands, PlaceAnswered, PlaceChecks, ghostVars
  <2>3. ASSUME NEW t \in tasks, NEW ok \in BOOLEAN,
               NEW found \in {"", "Alerting", "Declined", "other"},
               \/ CoreDeclines(t, ok) \/ CoreSays(t, found)
               \/ PickUpLands(t) \/ RingLimit(t) \/ WhyLands(t)
        PROVE  tells' = tells
    BY <2>3 DEF CoreDeclines, CoreSays, PickUpLands, RingLimit, WhyLands, ghostVars
  <2>4. ASSUME NEW r \in reports, ReportLands(r) PROVE tells' = tells
    BY <2>4 DEF ReportLands, ghostVars
  <2>5. CASE HandleEvent
    BY <2>5 DEF HandleEvent
  <2>6. TRUE \in BOOLEAN /\ "" \in {"", "Alerting", "Declined", "other"}
    OBVIOUS
  <2>7. QED
    BY <1>6, <2>1, <2>2, <2>3, <2>4, <2>5, <2>6 DEF System
<1>7. ASSUME Others, ~HangUp
      PROVE  tells' = tells
  <2>1. CASE CoreRings \/ CoreLosesEvents
    BY <2>1 DEF CoreRings, CoreLosesEvents, ghostVars
  <2>2. ASSUME NEW k \in Ids, CoreTaken(k) \/ CoreAnswered(k) \/ CoreEnds(k) \/ PickUp(k)
        PROVE  tells' = tells
    BY <2>2 DEF CoreTaken, CoreAnswered, CoreEnds, PickUp, ghostVars
  <2>3. ASSUME NEW n \in Nums, NEW k \in {"connected", "disconnected", "gave up"},
               PagePlaces(n) \/ PageAccepts(n) \/ PageEnds(n) \/ PageConnects(n, k)
        PROVE  tells' = tells
    BY <2>3 DEF PagePlaces, PageAccepts, PageEnds, PageConnects, ghostVars
  <2>4. CASE Place \/ Answer \/ Reset
    BY <2>4 DEF Place, Answer, Reset, ghostVars
  <2>5. "gave up" \in {"connected", "disconnected", "gave up"}
    OBVIOUS
  <2>6. QED
    BY <1>7, <2>1, <2>2, <2>3, <2>4, <2>5 DEF Others
<1>8. QED
  BY <1>3, <1>4, <1>5, <1>6, <1>7 DEF Next

\* A call another device took is left alone: however its event, the reader's answer, the
\* page's button and the drop of a host that was still coming up fall together, nothing
\* here tells the core that it is over.
THEOREM OthersSpared == Spec => NeverForOthers
<1>1. DueInv /\ [Next]_vars => [\A m \in handed \ late : tells'[m] = tells[m]]_vars
  BY SparedStep
<1>2. QED
  BY <1>1, DueAlways, PTL DEF Spec, NeverForOthers

-----------------------------------------------------------------------------
(* The inductive invariant: what is owed to the core *)

\* The core has it that m is over, or another device's.
OverIn(m) == core[m].state = "ended" \/ core[m].device = "elsewhere"

CoreTruth == \A m \in Ids : core[m].device = "elsewhere" => core[m].state \in {"active", "ended"}

\* The call's end is not told before it is over.
EndTruth(e) == EndsIt(e, e.msg) => OverIn(e.msg)
EventTruth == /\ \A i \in DOMAIN events : EndTruth(events[i])
              /\ \A i \in DOMAIN call.early : EndTruth(call.early[i])

DeclineWay == \A t \in tasks : t.kind = "decline" => CameIn(t.msg)

\* What a host that is done leaves behind.
HostOwes(h) ==
    /\ h.ended => h.ending_call # "no" \/ OverIn(h.msg) \/ h.msg \in untold
    /\ h.quiet /\ h.msg \in Ids => OverIn(h.msg)
    /\ h.stage = "dropped" /\ h.msg \in Ids =>
          h.ended \/ h.drop = "ending" \/ h.place \in {"stored", "ending"}
    /\ h.stage = "none" /\ h.msg \in Ids => h.msg \in untold
    /\ h.place = "done" /\ h.made \in Ids => h.msg = h.made \/ h.made \in untold

\* The app knows the name of a call that is placed, or is to be told.
NameTold(n) ==
    Current(n) /\ host[n].place = "done" /\ host[n].msg \in Ids =>
        \/ call.msg = host[n].msg
        \/ [num |-> n, kind |-> "placed", msg |-> host[n].msg] \in reports

\* What this device took part in is over, could not be ended, or has what will end it.
MineWay ==
    \A m \in mine : \/ OverIn(m) \/ m \in untold
                    \/ \E t \in tasks : t.kind = "decline" /\ t.msg = m
                    \/ \E n \in Nums : HasHost(n, m)

Owed == /\ CoreTruth /\ EventTruth /\ DeclineWay /\ MineWay
        /\ \A n \in Nums : HostOwes(host[n]) /\ NameTold(n)

OwedInv == DueInv /\ Owed

-----------------------------------------------------------------------------
(* What is owed is not forgotten *)

\* What is over in the core stays so.
CoreGoes == \A m \in Ids : (OverIn(m) => OverIn(m)') /\ (CameIn(m) => CameIn(m)')

LEMMA OwedParts ==
    ASSUME OwedInv
    PROVE  /\ DueInv /\ CoreTypes /\ AppTypes /\ GhostTypes /\ World /\ TypeOK /\ TypeInv
           /\ CoreTruth /\ EventTruth /\ DeclineWay /\ MineWay
           /\ \A n \in Nums : /\ HostOwes(host[n]) /\ NameTold(n) /\ HostWay(host[n])
                              /\ host[n] \in Host /\ HostFits(host[n])
           /\ \A t \in tasks : t.msg \in Ids
<1>1. DueInv /\ AppTypes /\ World
  BY DueParts DEF OwedInv
<1>2. \A n \in Nums : host[n] \in Host /\ HostFits(host[n])
  BY <1>1 DEF AppTypes, World, Hosts
<1>3. \A t \in tasks : t.msg \in Ids
  BY <1>1 DEF AppTypes, Task
<1>4. QED
  BY <1>1, <1>2, <1>3, DueParts DEF OwedInv, Owed

LEMMA CoreStays ==
    ASSUME core' = core
    PROVE  CoreGoes /\ (CoreTruth => CoreTruth')
BY DEF CoreGoes, CoreTruth, OverIn, CameIn

\* A call of the core's that goes on.
LEMMA CoreOver ==
    ASSUME CoreTypes, CoreTruth, NEW m \in Ids, NEW c, core' = [core EXCEPT ![m] = c],
           c.device = "elsewhere" => c.state \in {"active", "ended"},
           OverIn(m) => c.state = "ended" \/ c.device = "elsewhere",
           CameIn(m) => c.state # "none" /\ c.incoming
    PROVE  CoreGoes /\ CoreTruth'
<1>1. \A k \in Ids : core'[k] = IF k = m THEN c ELSE core[k]
  BY DEF CoreTypes
<1>2. QED
  BY <1>1 DEF CoreGoes, CoreTruth, OverIn, CameIn

\* Truth of what is kept, and of what is new.
LEMMA TruthKept ==
    ASSUME TypeOK, EventTruth, CoreGoes,
           \/ events' = events
           \/ events' = Tail(events) /\ events # <<>>
           \/ \E e \in Event : events' = Append(events, e) /\ (EndsIt(e, e.msg) => OverIn(e.msg)'),
           call'.early \in {call.early, <<>>}
    PROVE  EventTruth'
<1>1. events \in Seq(Event) /\ call.early \in Seq(Event)
  BY DEF TypeOK, Call
<1>2. ASSUME NEW e \in Event, EndTruth(e), EndsIt(e, e.msg)
      PROVE  core'[e.msg].state = "ended" \/ core'[e.msg].device = "elsewhere"
  <2>1. PICK m \in Ids : m = e.msg
    BY DEF Event
  <2>2. OverIn(m)
    BY <1>2, <2>1 DEF EndTruth
  <2>3. OverIn(m)'
    BY <2>2 DEF CoreGoes
  <2>4. QED
    BY <2>1, <2>3 DEF OverIn
<1>3. ASSUME NEW i \in DOMAIN call'.early
      PROVE  EndTruth(call.early[i])'
  <2>1. i \in DOMAIN call.early /\ call'.early = call.early
    BY <1>3, NoEntries
  <2>2. PICK e \in Event : e = call.early[i]
    BY <1>1, <2>1
  <2>3. EndTruth(e)
    BY <2>1, <2>2 DEF EventTruth
  <2>4. QED
    BY <1>2, <2>1, <2>2, <2>3 DEF EndTruth, OverIn
<1>4. ASSUME NEW i \in DOMAIN events'
      PROVE  EndTruth(events[i])'
  <2>1. ASSUME NEW e, e \in {events[k] : k \in DOMAIN events}, e = events'[i]
        PROVE  EndTruth(events[i])'
    <3>1. e \in Event /\ EndTruth(e)
      BY <1>1, <2>1 DEF EventTruth
    <3>2. QED
      BY <1>2, <2>1, <3>1 DEF EndTruth, OverIn
  <2>2. CASE events' = events
    BY <1>4, <2>1, <2>2
  <2>3. CASE events' = Tail(events) /\ events # <<>>
    <3>1. i + 1 \in DOMAIN events /\ events'[i] = events[i + 1]
      BY <1>1, <1>4, <2>3
    <3>2. QED
      BY <2>1, <3>1
  <2>4. ASSUME NEW e \in Event, events' = Append(events, e), EndsIt(e, e.msg) => OverIn(e.msg)'
        PROVE  EndTruth(events[i])'
    <3>1. (i \in DOMAIN events /\ events'[i] = events[i]) \/ events'[i] = e
      BY <1>1, <1>4, <2>4
    <3>2. CASE events'[i] = e
      BY <2>4, <3>2 DEF EndTruth, OverIn
    <3>3. CASE i \in DOMAIN events /\ events'[i] = events[i]
      BY <2>1, <3>3
    <3>4. QED
      BY <3>1, <3>2, <3>3
  <2>5. QED
    BY <2>2, <2>3, <2>4
<1>5. QED
  BY <1>3, <1>4 DEF EventTruth

\* A host that owes no more than it did.
LEMMA OwesLike ==
    ASSUME NEW g \in Host, HostFits(g), HostOwes(g), CoreGoes, untold \subseteq untold',
           NEW h, h.ended = g.ended, h.ending_call = g.ending_call, h.quiet = g.quiet,
           h.msg = g.msg, h.made = g.made,
           h.stage = "dropped" => g.stage = "dropped" /\ h.drop = g.drop /\ h.place = g.place,
           h.stage = "none" => g.stage = "none",
           h.place = "done" => g.place = "done"
    PROVE  HostOwes(h)'
<1>1. g.ended => g.msg \in Ids
  BY DEF HostFits
<1>2. g.msg \in Ids /\ OverIn(g.msg) => OverIn(g.msg)'
  BY DEF CoreGoes
<1>3. h.ended => h.ending_call # "no" \/ OverIn(h.msg)' \/ h.msg \in untold'
  BY <1>1, <1>2 DEF HostOwes
<1>4. h.quiet /\ h.msg \in Ids => OverIn(h.msg)'
  BY <1>2 DEF HostOwes
<1>5. QED
  BY <1>3, <1>4 DEF HostOwes, OverIn

LEMMA OwesSame ==
    ASSUME OwedInv, CoreGoes, untold \subseteq untold', NEW n \in Nums, NEW h,
           h = host[n] \/ \E a \in BOOLEAN : h = [host[n] EXCEPT !.answered = a]
    PROVE  HostOwes(h)'
<1>1. PICK g \in Host : g = host[n] /\ HostFits(g) /\ HostOwes(g)
  BY OwedParts
<1>2. /\ h.ended = g.ended /\ h.ending_call = g.ending_call /\ h.quiet = g.quiet
      /\ h.msg = g.msg /\ h.made = g.made /\ h.stage = g.stage /\ h.drop = g.drop
      /\ h.place = g.place
  BY <1>1 DEF Host
<1>3. QED
  BY <1>1, <1>2, OwesLike

\* Mine keeps what will end it.
LEMMA MineKept ==
    ASSUME OwedInv, CoreGoes, untold \subseteq untold',
           \A n \in Nums, m \in Ids : HasHost(n, m) => HasHost(n, m)',
           \A t \in tasks \ tasks' : t.kind = "decline" => OverIn(t.msg)' \/ t.msg \in untold',
           \A m \in mine' \ mine : \/ \E t \in tasks' : t.kind = "decline" /\ t.msg = m
                                   \/ \E n \in Nums : HasHost(n, m)'
    PROVE  MineWay'
<1>1. ASSUME NEW m \in mine
      PROVE  \/ OverIn(m)' \/ m \in untold'
             \/ \E t \in tasks' : t.kind = "decline" /\ t.msg = m
             \/ \E n \in Nums : HasHost(n, m)'
  <2>1. m \in Ids
    BY OwedParts DEF GhostTypes
  <2>2. CASE OverIn(m) \/ m \in untold
    BY <2>1, <2>2 DEF CoreGoes
  <2>3. ASSUME NEW t \in tasks, t.kind = "decline", t.msg = m
        PROVE  \/ OverIn(m)' \/ m \in untold'
               \/ \E u \in tasks' : u.kind = "decline" /\ u.msg = m
    <3>1. CASE t \in tasks'
      BY <2>3, <3>1
    <3>2. CASE t \notin tasks'
      <4>1. OverIn(t.msg)' \/ t.msg \in untold'
        BY <2>3, <3>2
      <4>2. QED
        BY <2>3, <4>1 DEF OverIn
    <3>3. QED
      BY <3>1, <3>2
  <2>4. ASSUME NEW n \in Nums, HasHost(n, m) PROVE HasHost(n, m)'
    BY <2>1, <2>4
  <2>5. QED
    BY <2>2, <2>3, <2>4, OwedParts DEF MineWay
<1>2. QED
  BY <1>1 DEF MineWay

LEMMA DeclineKept ==
    ASSUME OwedInv, CoreGoes, tasks' \subseteq Task,
           \A t \in tasks' \ tasks : t.kind = "decline" => CameIn(t.msg)
    PROVE  DeclineWay'
<1>1. ASSUME NEW t \in tasks', t.kind = "decline" PROVE CameIn(t.msg)'
  <2>1. CameIn(t.msg) /\ t.msg \in Ids
    BY <1>1, OwedParts DEF DeclineWay, Task
  <2>2. QED
    BY <2>1 DEF CoreGoes
<1>2. QED
  BY <1>1 DEF DeclineWay

LEMMA NameKept ==
    ASSUME NEW n \in Nums, NameTold(n), reports \subseteq reports',
           Current(n)' => Current(n) /\ call'.msg = call.msg,
           host'[n].place = "done" /\ host'[n].msg \in Ids =>
              host[n].place = "done" /\ host[n].msg = host'[n].msg
    PROVE  NameTold(n)'
BY DEF NameTold

\* One host goes on.
LEMMA HostOwed ==
    ASSUME OwedInv, DueInv', CoreGoes, CoreTruth', EventTruth', untold \subseteq untold',
           NEW n \in Nums, NEW h, host' = [host EXCEPT ![n] = h], call' = call, tasks' = tasks,
           reports \subseteq reports', HostOwes(h)', mine' \subseteq mine \cup {h.made},
           \A m \in {host[n].msg, host[n].made} : m = 0 \/ m \in {h.msg, h.made},
           h.place = "done" /\ h.msg \in Ids =>
              \/ host[n].place = "done" /\ host[n].msg = h.msg
              \/ [num |-> n, kind |-> "placed", msg |-> h.msg] \in reports'
    PROVE  OwedInv'
<1>1. \A k \in Nums : host'[k] = IF k = n THEN h ELSE host[k]
  BY OwedParts DEF AppTypes
<1>2. ASSUME NEW k \in Nums PROVE HostOwes(host[k])'
  <2>1. CASE k = n
    BY <1>1, <2>1 DEF HostOwes, OverIn
  <2>2. CASE k # n
    <3>1. PICK g : g = host[k]
      OBVIOUS
    <3>2. HostOwes(g)'
      BY <3>1, OwesSame
    <3>3. QED
      BY <1>1, <2>2, <3>1, <3>2 DEF HostOwes, OverIn
  <2>3. QED
    BY <2>1, <2>2
<1>3. ASSUME NEW k \in Nums PROVE NameTold(k)'
  <2>1. NameTold(k)
    BY OwedParts
  <2>2. Current(k)' => Current(k) /\ call'.msg = call.msg
    BY DEF Current, Busy
  <2>3. CASE k = n
    BY <1>1, <2>1, <2>2, <2>3 DEF NameTold
  <2>4. CASE k # n
    BY <1>1, <2>1, <2>2, <2>4, NameKept
  <2>5. QED
    BY <2>3, <2>4
<1>4. MineWay'
  <2>1. \A k \in Nums, m \in Ids : HasHost(k, m) => HasHost(k, m)'
    BY <1>1, NumsNat DEF HasHost
  <2>2. \A m \in mine' \ mine : HasHost(n, m)'
    BY <1>1 DEF HasHost
  <2>3. QED
    BY <2>1, <2>2, MineKept
<1>5. DeclineWay'
  BY OwedParts, DeclineKept DEF AppTypes
<1>6. QED
  BY <1>2, <1>3, <1>4, <1>5 DEF OwedInv, Owed

\* Tasks, the core and reports go on.
LEMMA SameOwed ==
    ASSUME OwedInv, DueInv', CoreGoes, CoreTruth', EventTruth', untold \subseteq untold',
           call' = call, host' = host, reports \subseteq reports', mine' = mine,
           \A t \in tasks' \ tasks : t.kind # "decline",
           \A t \in tasks \ tasks' : t.kind = "decline" => OverIn(t.msg)' \/ t.msg \in untold'
    PROVE  OwedInv'
<1>1. ASSUME NEW k \in Nums PROVE HostOwes(host[k])'
  <2>1. PICK g : g = host[k]
    OBVIOUS
  <2>2. HostOwes(g)'
    BY <2>1, OwesSame
  <2>3. QED
    BY <2>1, <2>2 DEF HostOwes, OverIn
<1>2. ASSUME NEW k \in Nums PROVE NameTold(k)'
  <2>1. NameTold(k)
    BY OwedParts
  <2>2. Current(k)' => Current(k) /\ call'.msg = call.msg
    BY DEF Current, Busy
  <2>3. QED
    BY <2>1, <2>2, NameKept
<1>3. MineWay'
  <2>1. \A k \in Nums, m \in Ids : HasHost(k, m) => HasHost(k, m)'
    BY DEF HasHost
  <2>2. QED
    BY <2>1, MineKept
<1>4. DeclineWay'
  BY OwedParts, DeclineKept, DueParts DEF DueInv, TypeInv, TypeOK
<1>5. QED
  BY <1>1, <1>2, <1>3, <1>4 DEF OwedInv, Owed

\* The Qt thread goes on.
LEMMA AppOwed ==
    ASSUME OwedInv, DueInv', core' = core, untold' = untold, EventTruth',
           \A n \in Nums : HostOwes(host[n])' /\ NameTold(n)',
           \A n \in Nums, m \in Ids : HasHost(n, m) => HasHost(n, m)',
           \A t \in tasks \ tasks' : t.kind # "decline",
           \A t \in tasks' \ tasks : t.kind = "decline" => CameIn(t.msg),
           \A m \in mine' \ mine : \/ \E t \in tasks' : t.kind = "decline" /\ t.msg = m
                                   \/ \E n \in Nums : HasHost(n, m)'
    PROVE  OwedInv'
<1>1. CoreGoes /\ CoreTruth'
  BY CoreStays, OwedParts
<1>2. MineWay'
  BY <1>1, MineKept
<1>3. DeclineWay'
  BY <1>1, DeclineKept DEF DueInv, TypeInv, TypeOK
<1>4. QED
  BY <1>1, <1>2, <1>3 DEF OwedInv, Owed

-----------------------------------------------------------------------------
(* Every step keeps what is owed: the core *)

LEMMA OverTruth ==
    ASSUME OwedInv, NEW m \in Ids, Over(m), core[m].state # "none", call' = call
    PROVE  CoreGoes /\ CoreTruth' /\ EventTruth' /\ OverIn(m)'
<1>1. CASE core[m].state \in {"alerting", "active"}
  <2>1. core' = [core EXCEPT ![m].state = "ended"] /\ Tell("CallEnded", m, FALSE)
    BY <1>1 DEF Over
  <2>2. PICK c : c = [core[m] EXCEPT !.state = "ended"]
    OBVIOUS
  <2>3. c.state = "ended" /\ c.incoming = core[m].incoming /\ core' = [core EXCEPT ![m] = c]
    BY <2>1, <2>2, OwedParts DEF CoreTypes, CoreCall
  <2>4. CoreGoes /\ CoreTruth'
    BY <2>3, CoreOver, OwedParts DEF CameIn
  <2>5. OverIn(m)'
    BY <2>3, OwedParts DEF OverIn, CoreTypes
  <2>6. PICK e : e = [kind |-> "CallEnded", msg |-> m, here |-> FALSE]
    OBVIOUS
  <2>7. e \in Event /\ e.msg = m /\ events' = Append(events, e)
    BY <2>1, <2>6 DEF Event, Tell
  <2>8. EventTruth'
    BY <2>4, <2>5, <2>7, TruthKept, OwedParts DEF OverIn
  <2>9. QED
    BY <2>4, <2>5, <2>8
<1>2. CASE core[m].state \notin {"alerting", "active"}
  <2>1. core' = core /\ events' = events /\ core[m].state = "ended"
    BY <1>2, OwedParts DEF Over, coreVars, CoreTypes, CoreCall
  <2>2. CoreGoes /\ CoreTruth'
    BY <2>1, CoreStays, OwedParts
  <2>3. EventTruth'
    BY <2>1, <2>2, TruthKept, OwedParts
  <2>4. QED
    BY <2>1, <2>2, <2>3 DEF OverIn
<1>3. QED
  BY <1>1, <1>2

\* The core's calls and events stay as they are.
LEMMA SameTruth ==
    ASSUME OwedInv, UNCHANGED coreVars, call'.early \in {call.early, <<>>}
    PROVE  CoreGoes /\ CoreTruth' /\ EventTruth'
BY CoreStays, TruthKept, OwedParts DEF coreVars

LEMMA CoreRingsOwed ==
    ASSUME OwedInv, DueInv', CoreRings
    PROVE  OwedInv'
<1>1. PICK m \in Ids : m = NextId /\ core[m].state = "none"
  BY NextIdIs DEF CoreRings
<1>2. PICK c : c = [state |-> "alerting", incoming |-> TRUE, device |-> "none"]
  OBVIOUS
<1>3. core' = [core EXCEPT ![m] = c] /\ Tell("IncomingCall", m, FALSE)
  BY <1>1, <1>2 DEF CoreRings
<1>4. c.state = "alerting" /\ c.incoming /\ c.device = "none"
  BY <1>2
<1>5. ~OverIn(m) /\ ~CameIn(m)
  BY <1>1, OwedParts DEF CoreTruth, OverIn, CameIn
<1>6. CoreGoes /\ CoreTruth'
  BY <1>3, <1>4, <1>5, CoreOver, OwedParts
<1>7. PICK e : e = [kind |-> "IncomingCall", msg |-> m, here |-> FALSE]
  OBVIOUS
<1>8. e \in Event /\ ~EndsIt(e, e.msg) /\ events' = Append(events, e)
  BY <1>3, <1>7 DEF Event, Tell, EndsIt
<1>9. call' = call /\ host' = host /\ tasks' = tasks /\ reports' = reports
      /\ mine' = mine /\ untold' = untold
  BY DEF CoreRings, appVars, ghostVars
<1>10. EventTruth'
  BY <1>6, <1>8, <1>9, TruthKept, OwedParts
<1>11. QED
  BY <1>6, <1>9, <1>10, SameOwed

LEMMA CoreTakenOwed ==
    ASSUME OwedInv, DueInv', NEW m \in Ids, CoreTaken(m)
    PROVE  OwedInv'
<1>1. PICK c : c = [core[m] EXCEPT !.state = "active", !.device = "elsewhere"]
  OBVIOUS
<1>2. c.state = "active" /\ c.incoming = core[m].incoming /\ c.device = "elsewhere"
  BY <1>1, OwedParts DEF CoreTypes, CoreCall
<1>3. core' = [core EXCEPT ![m] = c] /\ Tell("IncomingCallAccepted", m, FALSE)
  BY <1>1, OwedParts DEF CoreTaken, CoreTypes, CoreCall
<1>4. CoreGoes /\ CoreTruth'
  BY <1>2, <1>3, CoreOver, OwedParts DEF CameIn
<1>5. OverIn(m)'
  BY <1>2, <1>3, OwedParts DEF OverIn, CoreTypes
<1>6. PICK e : e = [kind |-> "IncomingCallAccepted", msg |-> m, here |-> FALSE]
  OBVIOUS
<1>7. e \in Event /\ e.msg = m /\ events' = Append(events, e)
  BY <1>3, <1>6 DEF Event, Tell
<1>8. call' = call /\ host' = host /\ tasks' = tasks /\ reports' = reports
      /\ mine' = mine /\ untold' = untold
  BY DEF CoreTaken, appVars, ghostVars
<1>9. EventTruth'
  BY <1>4, <1>5, <1>7, <1>8, TruthKept, OwedParts DEF OverIn
<1>10. QED
  BY <1>4, <1>8, <1>9, SameOwed

LEMMA CoreAnsweredOwed ==
    ASSUME OwedInv, DueInv', NEW m \in Ids, CoreAnswered(m)
    PROVE  OwedInv'
<1>1. PICK c : c = [core[m] EXCEPT !.state = "active", !.device = "here"]
  OBVIOUS
<1>2. c.state = "active" /\ c.incoming = core[m].incoming /\ c.device = "here"
  BY <1>1, OwedParts DEF CoreTypes, CoreCall
<1>3. core' = [core EXCEPT ![m] = c] /\ Tell("OutgoingCallAccepted", m, TRUE)
  BY <1>1, OwedParts DEF CoreAnswered, CoreTypes, CoreCall
<1>4. ~OverIn(m) /\ ~CameIn(m)
  BY OwedParts DEF CoreAnswered, CoreTruth, OverIn, CameIn
<1>5. CoreGoes /\ CoreTruth'
  BY <1>2, <1>3, <1>4, CoreOver, OwedParts
<1>6. PICK e : e = [kind |-> "OutgoingCallAccepted", msg |-> m, here |-> TRUE]
  OBVIOUS
<1>7. e \in Event /\ ~EndsIt(e, e.msg) /\ events' = Append(events, e)
  BY <1>3, <1>6 DEF Event, Tell, EndsIt
<1>8. call' = call /\ host' = host /\ tasks' = tasks /\ reports' = reports
      /\ mine' = mine /\ untold' = untold
  BY DEF CoreAnswered, appVars, ghostVars
<1>9. EventTruth'
  BY <1>5, <1>7, <1>8, TruthKept, OwedParts
<1>10. QED
  BY <1>5, <1>8, <1>9, SameOwed

LEMMA CoreEndsOwed ==
    ASSUME OwedInv, DueInv', NEW m \in Ids, CoreEnds(m)
    PROVE  OwedInv'
<1>1. call' = call /\ host' = host /\ tasks' = tasks /\ reports' = reports
      /\ mine' = mine /\ untold' = untold
  BY DEF CoreEnds, appVars, ghostVars
<1>2. CoreGoes /\ CoreTruth' /\ EventTruth'
  BY <1>1, OverTruth DEF CoreEnds
<1>3. QED
  BY <1>1, <1>2, SameOwed

LEMMA CoreLosesEventsOwed ==
    ASSUME OwedInv, DueInv', CoreLosesEvents
    PROVE  OwedInv'
<1>1. call' = call /\ host' = host /\ tasks' = tasks /\ reports' = reports
      /\ mine' = mine /\ untold' = untold /\ core' = core /\ events' = <<>>
  BY DEF CoreLosesEvents, appVars
<1>2. CoreGoes /\ CoreTruth'
  BY <1>1, CoreStays, OwedParts
<1>3. EventTruth'
  <2>1. DOMAIN events' = {}
    BY <1>1, NoEntries
  <2>2. \A i \in DOMAIN call.early : EndTruth(call.early[i])
    BY OwedParts DEF EventTruth
  <2>3. QED
    BY <1>1, <2>1, <2>2 DEF EventTruth, EndTruth, OverIn
<1>4. QED
  BY <1>1, <1>2, <1>3, SameOwed

LEMMA CoreDeclinesOwed ==
    ASSUME OwedInv, DueInv', NEW t \in tasks, NEW ok \in BOOLEAN, CoreDeclines(t, ok)
    PROVE  OwedInv'
<1>1. PICK m \in Ids : m = t.msg
  BY OwedParts
<1>2. call' = call /\ host' = host /\ tasks' = tasks \ {t} /\ reports' = reports
      /\ mine' = mine /\ t.kind = "decline"
  BY DEF CoreDeclines
<1>3. core[m].state # "none"
  BY <1>1, <1>2, OwedParts DEF DeclineWay, CameIn
<1>4. /\ CoreGoes /\ CoreTruth' /\ EventTruth' /\ untold \subseteq untold'
      /\ OverIn(m)' \/ m \in untold'
  <2>1. CASE ok
    BY <1>1, <1>2, <1>3, <2>1, OverTruth DEF CoreDeclines
  <2>2. CASE ~ok
    BY <1>1, <1>2, <2>2, SameTruth DEF CoreDeclines
  <2>3. QED
    BY <2>1, <2>2
<1>5. \A u \in tasks \ tasks' : u.kind = "decline" => OverIn(u.msg)' \/ u.msg \in untold'
  BY <1>1, <1>2, <1>4 DEF OverIn
<1>6. QED
  BY <1>2, <1>4, <1>5, SameOwed

LEMMA CoreSaysOwed ==
    ASSUME OwedInv, DueInv', NEW t \in tasks, NEW found \in {"", "Alerting", "Declined", "other"},
           CoreSays(t, found)
    PROVE  OwedInv'
<1>1. call' = call /\ host' = host /\ reports' = reports /\ UNCHANGED coreVars
      /\ mine' = mine /\ untold' = untold
  BY DEF CoreSays, ghostVars
<1>2. CoreGoes /\ CoreTruth' /\ EventTruth'
  BY <1>1, SameTruth
<1>3. PICK u : u = [t EXCEPT !.phase = "answered", !.found = found]
  OBVIOUS
<1>4. u.kind = t.kind /\ t.kind # "decline"
  BY <1>3, OwedParts DEF AppTypes, Task, CoreSays
<1>5. tasks' = (tasks \ {t}) \cup {u}
  BY <1>3 DEF CoreSays
<1>6. QED
  BY <1>1, <1>2, <1>4, <1>5, SameOwed

-----------------------------------------------------------------------------
(* Every step keeps what is owed: hosts *)

\* A host goes on, owing no more than it did.
LEMMA LikeOwed ==
    ASSUME OwedInv, DueInv', CoreGoes, CoreTruth', EventTruth', untold \subseteq untold',
           NEW n \in Nums, NEW g \in Host, g = host[n], NEW h, host' = [host EXCEPT ![n] = h],
           call' = call, tasks' = tasks, reports \subseteq reports', mine' = mine,
           h.ended = g.ended, h.ending_call = g.ending_call, h.quiet = g.quiet,
           h.msg = g.msg, h.made = g.made,
           h.stage = "dropped" => g.stage = "dropped" /\ h.drop = g.drop /\ h.place = g.place,
           h.stage = "none" => g.stage = "none",
           h.place = "done" => g.place = "done"
    PROVE  OwedInv'
<1>1. HostFits(g) /\ HostOwes(g)
  BY OwedParts
<1>2. HostOwes(h)'
  BY <1>1, OwesLike
<1>3. QED
  BY <1>2, HostOwed

LEMMA CorePlacesOwed ==
    ASSUME OwedInv, DueInv', NEW n \in Nums, CorePlaces(n)
    PROVE  OwedInv'
<1>1. PICK m \in Ids : m = NextId /\ core[m].state = "none"
  BY NextIdIs DEF CorePlaces
<1>2. PICK c : c = [state |-> "alerting", incoming |-> FALSE, device |-> "here"]
  OBVIOUS
<1>3. core' = [core EXCEPT ![m] = c] /\ c.state = "alerting" /\ c.device = "here"
  BY <1>1, <1>2 DEF CorePlaces
<1>4. ~OverIn(m) /\ ~CameIn(m)
  BY <1>1, OwedParts DEF CoreTruth, OverIn, CameIn
<1>5. CoreGoes /\ CoreTruth'
  BY <1>3, <1>4, CoreOver, OwedParts
<1>6. EventTruth'
  BY <1>5, TruthKept, OwedParts DEF CorePlaces
<1>7. PICK g \in Host : g = host[n] /\ HostFits(g) /\ HostOwes(g) /\ g.place = "asked"
  BY OwedParts DEF CorePlaces
<1>8. PICK h : h = [g EXCEPT !.place = "made", !.made = m]
  OBVIOUS
<1>9. /\ h.msg = 0 /\ g.msg = 0 /\ g.made = 0 /\ h.made = m /\ h.place = "made" /\ ~h.ended
  BY <1>7, <1>8, NumsNat DEF Host, HostFits
<1>10. HostOwes(h)'
  BY <1>9, NumsNat DEF HostOwes
<1>11. host' = [host EXCEPT ![n] = h]
  BY <1>1, <1>7, <1>8, OwedParts DEF CorePlaces, AppTypes
<1>12. mine' \subseteq mine \cup {h.made}
  BY <1>1, <1>9 DEF CorePlaces
<1>13. call' = call /\ tasks' = tasks /\ reports' = reports /\ untold' = untold
  BY DEF CorePlaces
<1>14. QED
  BY <1>5, <1>6, <1>7, <1>9, <1>10, <1>11, <1>12, <1>13, HostOwed

LEMMA CoreRefusesOwed ==
    ASSUME OwedInv, DueInv', NEW n \in Nums, CoreRefuses(n)
    PROVE  OwedInv'
<1>1. PICK g \in Host : g = host[n] /\ HostFits(g) /\ HostOwes(g) /\ g.place \in {"asked", "made"}
  BY OwedParts DEF CoreRefuses
<1>2. PICK h : h = [g EXCEPT !.place = "done"]
  OBVIOUS
<1>3. h.msg = 0 /\ g.msg = 0 /\ h.made = g.made /\ ~h.ended
  BY <1>1, <1>2, NumsNat DEF Host, HostFits
<1>4. host' = [host EXCEPT ![n] = h]
  BY <1>1, <1>2, OwedParts DEF CoreRefuses, AppTypes
<1>5. untold \subseteq untold' /\ (g.made \in Ids => g.made \in untold')
  BY <1>1, NumsNat DEF CoreRefuses
<1>6. HostOwes(h)'
  BY <1>3, <1>5, NumsNat DEF HostOwes
<1>7. call' = call /\ tasks' = tasks /\ mine' = mine /\ reports \subseteq reports'
      /\ UNCHANGED coreVars
  BY DEF CoreRefuses, Reports
<1>8. CoreGoes /\ CoreTruth' /\ EventTruth'
  BY <1>7, SameTruth
<1>9. QED
  BY <1>1, <1>3, <1>4, <1>5, <1>6, <1>7, <1>8, NumsNat, HostOwed

LEMMA CoreAcceptsOwed ==
    ASSUME OwedInv, DueInv', NEW n \in Nums, NEW ok \in BOOLEAN, NEW done \in BOOLEAN,
           CoreAccepts(n, ok, done)
    PROVE  OwedInv'
<1>1. PICK g \in Host : g = host[n] /\ HostFits(g) /\ g.accept = "asked"
  BY OwedParts DEF CoreAccepts
<1>2. PICK h : h = [g EXCEPT !.accept = "done"]
  OBVIOUS
<1>3. /\ h.ended = g.ended /\ h.ending_call = g.ending_call /\ h.quiet = g.quiet
      /\ h.msg = g.msg /\ h.made = g.made /\ h.stage = g.stage /\ h.drop = g.drop
      /\ h.place = g.place
  BY <1>2 DEF Host
<1>4. host' = [host EXCEPT ![n] = h]
  BY <1>1, <1>2, OwedParts DEF CoreAccepts, AppTypes
<1>5. PICK m \in Ids : m = g.msg
  BY <1>1 DEF HostFits
<1>6. call' = call /\ tasks' = tasks /\ mine' = mine /\ untold' = untold
      /\ reports \subseteq reports'
  BY DEF CoreAccepts, Reports, ghostVars
<1>7. CoreGoes /\ CoreTruth' /\ EventTruth'
  <2>1. CASE done /\ core[m].state = "alerting"
    <3>1. PICK c : c = [core[m] EXCEPT !.state = "active", !.device = "here"]
      OBVIOUS
    <3>2. c.state = "active" /\ c.incoming = core[m].incoming /\ c.device = "here"
      BY <3>1, OwedParts DEF CoreTypes, CoreCall
    <3>3. core' = [core EXCEPT ![m] = c] /\ Tell("IncomingCallAccepted", m, TRUE)
      BY <1>1, <1>5, <2>1, <3>1, OwedParts DEF CoreAccepts, CoreTypes, CoreCall
    <3>4. ~OverIn(m)
      BY <2>1, OwedParts DEF CoreTruth, OverIn
    <3>5. CoreGoes /\ CoreTruth'
      BY <3>2, <3>3, <3>4, CoreOver, OwedParts DEF CameIn
    <3>6. PICK e : e = [kind |-> "IncomingCallAccepted", msg |-> m, here |-> TRUE]
      OBVIOUS
    <3>7. e \in Event /\ ~EndsIt(e, e.msg) /\ events' = Append(events, e)
      BY <3>3, <3>6 DEF Event, Tell, EndsIt
    <3>8. EventTruth'
      BY <1>6, <3>5, <3>7, TruthKept, OwedParts
    <3>9. QED
      BY <3>5, <3>8
  <2>2. CASE ~(done /\ core[m].state = "alerting")
    <3>1. UNCHANGED coreVars
      BY <1>1, <1>5, <2>2 DEF CoreAccepts
    <3>2. QED
      BY <1>6, <3>1, SameTruth
  <2>3. QED
    BY <2>1, <2>2
<1>8. QED
  BY <1>1, <1>3, <1>4, <1>6, <1>7, LikeOwed

\* What a host reports, once an ending is through.
LEMMA EndReportedIs ==
    ASSUME NEW n \in Nums, NEW g, g = host[n], NEW who \in {"place", "page", "drop"},
           EndReported(n, who)
    PROVE  /\ reports \subseteq reports'
           /\ who = "place" => [num |-> n, kind |-> "placed", msg |-> g.msg] \in reports'
BY DEF EndReported, Reports

\* What an ending that is through leaves of its host.
LEMMA EndedLeaves ==
    ASSUME NEW g \in Host, HostFits(g), NEW who \in {"place", "page", "drop"}, g[who] = "ending",
           NEW h, h = Ended(g, who)
    PROVE  /\ h[who] = "done" /\ h.stage = g.stage /\ h.msg = g.msg /\ h.made = g.made
           /\ h.ended = g.ended /\ h.quiet = g.quiet
           /\ who # "place" => h.place = g.place
           /\ who # "drop" => h.drop = g.drop
BY EndedHost

LEMMA CoreEndsCallOwed ==
    ASSUME OwedInv, DueInv', NEW n \in Nums, NEW ok \in BOOLEAN, CoreEndsCall(n, ok)
    PROVE  OwedInv'
<1>1. PICK g \in Host : g = host[n] /\ HostFits(g) /\ HostOwes(g) /\ HostWay(g)
  BY OwedParts
<1>2. PICK who \in {"place", "page", "drop"} :
         who = g.ending_call /\ g[who] = "ending" /\ g.ended /\ g.msg \in Ids
  BY <1>1, EndingHolds, OwedParts DEF CoreEndsCall
<1>3. PICK m \in Ids : m = g.msg
  BY <1>2
<1>4. PICK h : h = Ended(g, who)
  OBVIOUS
<1>5. /\ host' = [host EXCEPT ![n] = h] /\ call' = call /\ tasks' = tasks /\ mine' = mine
      /\ IF ok THEN Over(m) /\ untold' = untold
         ELSE UNCHANGED coreVars /\ untold' = untold \cup {m}
      /\ EndReported(n, who)
  BY <1>1, <1>2, <1>3, <1>4, OwedParts DEF CoreEndsCall, AppTypes
<1>6. core[m].state # "none"
  <2>1. CASE g.place = "no"
    BY <1>1, <1>3, <2>1, OwedParts, DueParts DEF HostWay, BegunWay, CameIn
  <2>2. CASE g.place # "no"
    <3>1. g.msg = g.made
      BY <1>1, <1>3, <2>2, NumsNat DEF HostFits, Host
    <3>2. QED
      BY <1>1, <1>3, <3>1 DEF HostWay, WentOut
  <2>3. QED
    BY <2>1, <2>2
<1>7. /\ CoreGoes /\ CoreTruth' /\ EventTruth' /\ untold \subseteq untold'
      /\ OverIn(m)' \/ m \in untold'
  <2>1. CASE ok
    BY <1>5, <1>6, <2>1, OverTruth
  <2>2. CASE ~ok
    BY <1>5, <2>2, SameTruth
  <2>3. QED
    BY <2>1, <2>2
<1>8. /\ h[who] = "done" /\ h.stage = g.stage /\ h.msg = g.msg /\ h.made = g.made
      /\ h.ended = g.ended /\ h.quiet = g.quiet
      /\ (who # "place" => h.place = g.place)
  <2>1. g[who] = "ending" /\ HostFits(g)
    BY <1>1, <1>2
  <2>2. QED
    BY <1>4, <2>1, EndedLeaves
<1>9. h.place = "done" => g.place = "done" \/ who = "place"
  BY <1>8
<1>10. who = "place" => g.msg = g.made
  BY <1>1, <1>2 DEF HostFits
<1>11. HostOwes(h)'
  <2>1. h.ended /\ (OverIn(h.msg)' \/ h.msg \in untold')
    BY <1>2, <1>3, <1>7, <1>8 DEF OverIn
  <2>2. h.quiet /\ h.msg \in Ids => OverIn(h.msg)'
    BY <1>1, <1>7, <1>8 DEF HostOwes, CoreGoes
  <2>3. h.stage # "none"
    BY <1>1, <1>2, <1>8 DEF HostFits, Untouched
  <2>4. h.place = "done" /\ h.made \in Ids => h.msg = h.made \/ h.made \in untold'
    BY <1>1, <1>7, <1>8, <1>9, <1>10 DEF HostOwes
  <2>5. QED
    BY <2>1, <2>2, <2>3, <2>4 DEF HostOwes, OverIn
<1>12. /\ reports \subseteq reports'
       /\ who = "place" => [num |-> n, kind |-> "placed", msg |-> h.msg] \in reports'
  BY <1>1, <1>5, <1>8, EndReportedIs
<1>13. \A k \in {g.msg, g.made} : k \in {h.msg, h.made}
  BY <1>8
<1>14. h.place = "done" /\ h.msg \in Ids =>
         \/ host[n].place = "done" /\ host[n].msg = h.msg
         \/ [num |-> n, kind |-> "placed", msg |-> h.msg] \in reports'
  BY <1>1, <1>8, <1>9, <1>12
<1>15. QED
  BY <1>1, <1>5, <1>7, <1>11, <1>12, <1>13, <1>14, HostOwed

LEMMA HostStartsOwed ==
    ASSUME OwedInv, DueInv', NEW n \in Nums, NEW ok \in BOOLEAN, HostStarts(n, ok)
    PROVE  OwedInv'
<1>1. PICK g \in Host : g = host[n]
  BY OwedParts
<1>2. PICK st \in {"started", "failed"} : st = IF ok THEN "started" ELSE "failed"
  OBVIOUS
<1>3. PICK h : h = [g EXCEPT !.stage = st]
  OBVIOUS
<1>4. /\ h.ended = g.ended /\ h.ending_call = g.ending_call /\ h.quiet = g.quiet
      /\ h.msg = g.msg /\ h.made = g.made /\ h.place = g.place /\ h.stage = st
  BY <1>3 DEF Host
<1>5. host' = [host EXCEPT ![n] = h]
  BY <1>1, <1>2, <1>3, OwedParts DEF HostStarts, AppTypes
<1>6. call' = call /\ tasks' = tasks /\ mine' = mine /\ untold' = untold /\ reports' = reports
      /\ UNCHANGED coreVars
  BY DEF HostStarts, ghostVars
<1>7. CoreGoes /\ CoreTruth' /\ EventTruth'
  BY <1>6, SameTruth
<1>8. QED
  BY <1>1, <1>2, <1>4, <1>5, <1>6, <1>7, LikeOwed

\* A request or a button of the page.
LEMMA PageOwed ==
    ASSUME OwedInv, DueInv', NEW n \in Nums, NEW g \in Host, g = host[n], g.stage = "held",
           NEW h, h.ended = g.ended, h.ending_call = g.ending_call, h.quiet = g.quiet,
           h.msg = g.msg, h.made = g.made, h.stage = g.stage, h.place = "done" => g.place = "done",
           host' = [host EXCEPT ![n] = h],
           UNCHANGED <<core, events, call, tasks, reports, mine, untold>>
    PROVE  OwedInv'
<1>1. CoreGoes /\ CoreTruth' /\ EventTruth'
  BY SameTruth DEF coreVars
<1>2. QED
  BY <1>1, LikeOwed

LEMMA PagePlacesOwed ==
    ASSUME OwedInv, DueInv', NEW n \in Nums, PagePlaces(n)
    PROVE  OwedInv'
<1>1. PICK g \in Host : g = host[n] /\ g.stage = "held"
  BY OwedParts DEF PagePlaces
<1>2. PICK h : h = [g EXCEPT !.place = "asked"]
  OBVIOUS
<1>3. host' = [host EXCEPT ![n] = h]
  BY <1>1, <1>2, OwedParts DEF PagePlaces, AppTypes
<1>4. /\ h.ended = g.ended /\ h.ending_call = g.ending_call /\ h.quiet = g.quiet
      /\ h.msg = g.msg /\ h.made = g.made /\ h.stage = g.stage /\ h.place = "asked"
  BY <1>2 DEF Host
<1>5. UNCHANGED <<core, events, call, tasks, reports, mine, untold>>
  BY DEF PagePlaces, coreVars, ghostVars
<1>6. QED
  BY <1>1, <1>3, <1>4, <1>5, PageOwed

LEMMA PageAcceptsOwed ==
    ASSUME OwedInv, DueInv', NEW n \in Nums, PageAccepts(n)
    PROVE  OwedInv'
<1>1. PICK g \in Host : g = host[n] /\ g.stage = "held"
  BY OwedParts DEF PageAccepts
<1>2. PICK h : h = [g EXCEPT !.accept = "asked"]
  OBVIOUS
<1>3. host' = [host EXCEPT ![n] = h]
  BY <1>1, <1>2, OwedParts DEF PageAccepts, AppTypes
<1>4. /\ h.ended = g.ended /\ h.ending_call = g.ending_call /\ h.quiet = g.quiet
      /\ h.msg = g.msg /\ h.made = g.made /\ h.stage = g.stage /\ h.place = g.place
  BY <1>2 DEF Host
<1>5. UNCHANGED <<core, events, call, tasks, reports, mine, untold>>
  BY DEF PageAccepts, coreVars, ghostVars
<1>6. QED
  BY <1>1, <1>3, <1>4, <1>5, PageOwed

LEMMA PageEndsOwed ==
    ASSUME OwedInv, DueInv', NEW n \in Nums, PageEnds(n)
    PROVE  OwedInv'
<1>1. PICK g \in Host : g = host[n] /\ g.stage = "held"
  BY OwedParts DEF PageEnds
<1>2. PICK h : h = [g EXCEPT !.page = "ending", !.ending = TRUE]
  OBVIOUS
<1>3. host' = [host EXCEPT ![n] = h]
  BY <1>1, <1>2, OwedParts DEF PageEnds, AppTypes
<1>4. /\ h.ended = g.ended /\ h.ending_call = g.ending_call /\ h.quiet = g.quiet
      /\ h.msg = g.msg /\ h.made = g.made /\ h.stage = g.stage /\ h.place = g.place
  BY <1>2 DEF Host
<1>5. UNCHANGED <<core, events, call, tasks, reports, mine, untold>>
  BY DEF PageEnds, coreVars, ghostVars
<1>6. QED
  BY <1>1, <1>3, <1>4, <1>5, PageOwed

LEMMA PageConnectsOwed ==
    ASSUME OwedInv, DueInv', NEW n \in Nums, NEW kind \in {"connected", "disconnected", "gave up"},
           PageConnects(n, kind)
    PROVE  OwedInv'
<1>1. UNCHANGED <<coreVars, call, host, tasks>> /\ reports \subseteq reports'
      /\ mine' = mine /\ untold' = untold
  BY DEF PageConnects, Reports, ghostVars
<1>2. CoreGoes /\ CoreTruth' /\ EventTruth'
  BY <1>1, SameTruth
<1>3. QED
  BY <1>1, <1>2, SameOwed

LEMMA PlaceAnsweredOwed ==
    ASSUME OwedInv, DueInv', NEW n \in Nums, PlaceAnswered(n)
    PROVE  OwedInv'
<1>1. PICK g \in Host : g = host[n] /\ HostFits(g) /\ HostOwes(g) /\ g.place = "made"
  BY OwedParts DEF PlaceAnswered
<1>2. PICK h : h = [g EXCEPT !.msg = g.made, !.place = "stored"]
  OBVIOUS
<1>3. /\ h.msg = g.made /\ h.made = g.made /\ h.place = "stored" /\ h.stage = g.stage
      /\ h.ended = g.ended /\ h.quiet = g.quiet
  BY <1>2 DEF Host
<1>4. g.msg = 0 /\ g.stage \in {"held", "dropped"} /\ ~g.ended /\ ~g.quiet
  BY <1>1, NumsNat DEF HostFits, Untouched
<1>5. HostOwes(h)'
  BY <1>3, <1>4 DEF HostOwes
<1>6. host' = [host EXCEPT ![n] = h]
  BY <1>1, <1>2, OwedParts DEF PlaceAnswered, AppTypes
<1>7. call' = call /\ tasks' = tasks /\ mine' = mine /\ untold' = untold /\ reports' = reports
      /\ UNCHANGED coreVars
  BY DEF PlaceAnswered, ghostVars
<1>8. CoreGoes /\ CoreTruth' /\ EventTruth'
  BY <1>7, SameTruth
<1>9. QED
  BY <1>1, <1>3, <1>4, <1>5, <1>6, <1>7, <1>8, HostOwed

LEMMA PlaceChecksOwed ==
    ASSUME OwedInv, DueInv', NEW n \in Nums, PlaceChecks(n)
    PROVE  OwedInv'
<1>1. PICK g \in Host : g = host[n] /\ HostFits(g) /\ HostOwes(g) /\ g.place = "stored"
  BY OwedParts DEF PlaceChecks
<1>2. PICK st : st = IF g.ending THEN "ending" ELSE "done"
  OBVIOUS
<1>3. PICK h : h = [g EXCEPT !.place = st]
  OBVIOUS
<1>4. /\ h.msg = g.msg /\ h.made = g.made /\ h.place = st /\ h.stage = g.stage
      /\ h.ended = g.ended /\ h.quiet = g.quiet /\ h.drop = g.drop
      /\ h.ending_call = g.ending_call
  BY <1>3 DEF Host
<1>5. g.msg = g.made /\ g.msg \in Ids /\ g.stage \in {"held", "dropped"}
      /\ (st = "done" => g.stage # "dropped") /\ st \in {"ending", "done"}
  BY <1>1, <1>2 DEF HostFits, Untouched
<1>6. call' = call /\ tasks' = tasks /\ mine' = mine /\ untold' = untold /\ UNCHANGED coreVars
  BY DEF PlaceChecks, ghostVars
<1>7. CoreGoes /\ CoreTruth' /\ EventTruth'
  BY <1>6, SameTruth
<1>8. HostOwes(h)'
  <2>1. h.ended => h.ending_call # "no" \/ OverIn(h.msg)' \/ h.msg \in untold'
    BY <1>1, <1>4, <1>5, <1>6, <1>7 DEF HostOwes, CoreGoes
  <2>2. h.quiet => OverIn(h.msg)'
    BY <1>1, <1>4, <1>5, <1>7 DEF HostOwes, CoreGoes
  <2>3. QED
    BY <1>4, <1>5, <2>1, <2>2 DEF HostOwes, OverIn
<1>9. host' = [host EXCEPT ![n] = h]
  BY <1>1, <1>2, <1>3, OwedParts DEF PlaceChecks, AppTypes
<1>10. /\ reports \subseteq reports'
       /\ st = "done" => [num |-> n, kind |-> "placed", msg |-> h.msg] \in reports'
  BY <1>1, <1>2, <1>4 DEF PlaceChecks, Reports
<1>11. QED
  BY <1>1, <1>4, <1>6, <1>7, <1>8, <1>9, <1>10, HostOwed

LEMMA HostLandsOwed ==
    ASSUME OwedInv, DueInv', NEW n \in Nums, HostLands(n)
    PROVE  OwedInv'
<1>1. PICK g \in Host : g = host[n] /\ HostFits(g) /\ HostOwes(g)
                        /\ g.stage \in {"started", "failed"}
  BY OwedParts DEF HostLands
<1>2. IsLanded(n)
  BY LandedIs, OwedParts
<1>3. PICK h : h = host'[n]
  OBVIOUS
<1>4. UNCHANGED coreVars /\ reports' = reports /\ mine' = mine /\ tasks' = tasks
  BY <1>2 DEF HostLands, IsLanded
<1>5. \A k \in Nums : host'[k] = IF k = n THEN h ELSE host[k]
  BY <1>2, <1>3 DEF IsLanded
<1>6. /\ call'.early = call.early
      /\ \A k \in Nums : Current(k)' => Current(k) /\ call'.msg = call.msg
  <2>1. CASE call' = call
    BY <2>1 DEF Current, Busy
  <2>2. CASE call' = [call EXCEPT !.state = "ended", !.reason = call'.reason]
    BY <2>2, OwedParts DEF AppTypes, Call, Current, Busy, BusyIn
  <2>3. QED
    BY <1>2, <2>1, <2>2 DEF IsLanded
<1>7. CoreGoes /\ CoreTruth' /\ EventTruth'
  BY <1>4, <1>6, SameTruth
<1>8. ~g.ended /\ g.place = "no" /\ g.drop = "no" /\ g.made = 0
  BY <1>1 DEF HostFits, Untouched
<1>9. /\ untold \subseteq untold' /\ h.msg = g.msg /\ h.made = g.made /\ h.place = g.place
      /\ HostOwes(h)'
  <2>1. CASE g.stage = "started" /\ Current(n)
    <3>1. h = [g EXCEPT !.stage = "held"] /\ untold' = untold
      BY <1>1, <1>2, <1>3, <2>1 DEF IsLanded
    <3>2. /\ h.msg = g.msg /\ h.made = g.made /\ h.place = g.place /\ h.quiet = g.quiet
          /\ h.ended = g.ended /\ h.stage = "held" /\ h.ending_call = g.ending_call
      BY <1>1, <2>1, <3>1, HeldHostIs
    <3>3. HostOwes(h)'
      BY <1>1, <1>7, <1>8, <3>1, <3>2, OwesLike
    <3>4. QED
      BY <3>1, <3>2, <3>3
  <2>2. CASE g.stage = "started" /\ ~Current(n)
    <3>1. h = LateHost(g) /\ untold' = untold
      BY <1>1, <1>2, <1>3, <2>2 DEF IsLanded, LateHost
    <3>2. /\ h.msg = g.msg /\ h.made = g.made /\ h.place = g.place /\ h.quiet = g.quiet
          /\ h.ended = g.quiet /\ h.stage = "dropped" /\ h.drop = "ending"
      BY <1>1, <2>2, <3>1, LateHostIs
    <3>3. g.quiet => g.msg \in Ids
      BY <1>1, <2>2 DEF HostFits
    <3>4. g.quiet => OverIn(g.msg)'
      BY <1>1, <1>7, <3>3 DEF HostOwes, CoreGoes
    <3>5. HostOwes(h)'
      BY <1>8, <3>2, <3>4 DEF HostOwes, OverIn
    <3>6. QED
      BY <3>1, <3>2, <3>5
  <2>3. CASE g.stage = "failed"
    <3>1. h = FailedHost(g) /\ untold' = untold \cup ({g.msg} \ {0})
      BY <1>1, <1>2, <1>3, <2>3 DEF IsLanded
    <3>2. /\ h.msg = g.msg /\ h.made = g.made /\ h.place = g.place /\ h.quiet = g.quiet
          /\ h.ended = g.ended /\ h.stage = "none"
      BY <1>1, <2>3, <3>1, FailedHostIs
    <3>3. g.quiet /\ g.msg \in Ids => OverIn(g.msg)'
      BY <1>1, <1>7 DEF HostOwes, CoreGoes
    <3>4. HostOwes(h)'
      BY <1>8, <3>1, <3>2, <3>3, NumsNat DEF HostOwes, OverIn
    <3>5. QED
      BY <3>1, <3>2, <3>4
  <2>4. QED
    BY <1>1, <2>1, <2>2, <2>3
<1>10. ASSUME NEW k \in Nums PROVE HostOwes(host[k])' /\ NameTold(k)'
  <2>1. NameTold(k)'
    <3>1. NameTold(k) /\ host'[k].place = host[k].place /\ host'[k].msg = host[k].msg
      BY <1>1, <1>5, <1>9, OwedParts
    <3>2. QED
      BY <1>4, <1>6, <3>1, NameKept
  <2>2. CASE k = n
    BY <1>5, <1>9, <2>1, <2>2 DEF HostOwes, OverIn
  <2>3. CASE k # n
    <3>1. PICK f : f = host[k]
      OBVIOUS
    <3>2. HostOwes(f)'
      BY <1>7, <1>9, <3>1, OwesSame
    <3>3. QED
      BY <1>5, <2>1, <2>3, <3>1, <3>2 DEF HostOwes, OverIn
  <2>4. QED
    BY <2>2, <2>3
<1>11. MineWay'
  <2>1. \A k \in Nums, m \in Ids : HasHost(k, m) => HasHost(k, m)'
    BY <1>1, <1>5, <1>9 DEF HasHost
  <2>2. QED
    BY <1>4, <1>7, <1>9, <2>1, MineKept
<1>12. DeclineWay'
  BY <1>4, <1>7, OwedParts, DeclineKept DEF AppTypes
<1>13. QED
  BY <1>7, <1>10, <1>11, <1>12 DEF OwedInv, Owed

LEMMA EndBeginsOwed ==
    ASSUME OwedInv, DueInv', NEW n \in Nums, NEW who \in {"place", "page", "drop"},
           EndBegins(n, who)
    PROVE  OwedInv'
<1>1. PICK g \in Host : g = host[n] /\ HostFits(g) /\ HostOwes(g)
  BY OwedParts
<1>2. g[who] = "ending" /\ g.ending_call = "no"
  BY <1>1 DEF EndBegins, Enders
<1>3. (who = "place" => g.place = "ending") /\ (who = "page" => g.page = "ending")
      /\ (who = "drop" => g.drop = "ending")
  BY <1>2
<1>4. g.stage \in {"held", "dropped"} /\ (who = "place" => g.msg = g.made)
  BY <1>1, <1>3 DEF HostFits, Untouched
<1>5. call' = call /\ tasks' = tasks /\ mine' = mine /\ untold' = untold /\ UNCHANGED coreVars
  BY DEF EndBegins
<1>6. CoreGoes /\ CoreTruth' /\ EventTruth'
  BY <1>5, SameTruth
<1>7. /\ g.quiet /\ g.msg \in Ids => OverIn(g.msg)'
      /\ g.ended => OverIn(g.msg)' \/ g.msg \in untold'
  <2>1. g.ended => g.msg \in Ids
    BY <1>1 DEF HostFits
  <2>2. QED
    BY <1>1, <1>2, <1>5, <1>6, <2>1 DEF HostOwes, CoreGoes
<1>8. CASE g.msg = 0 \/ g.ended
  <2>1. PICK h : h = Ended(g, who)
    OBVIOUS
  <2>2. host' = [host EXCEPT ![n] = h] /\ EndReported(n, who)
    BY <1>1, <1>8, <2>1, OwedParts DEF EndBegins, AppTypes
  <2>3. /\ h[who] = "done" /\ h.stage = g.stage /\ h.msg = g.msg /\ h.made = g.made
        /\ h.ended = g.ended /\ h.quiet = g.quiet
        /\ (who # "place" => h.place = g.place)
    BY <1>1, <1>2, <2>1, EndedLeaves
  <2>4. h.place = "done" => g.place = "done" \/ who = "place"
    BY <2>3
  <2>5. h.place = "done" /\ h.made \in Ids => h.msg = h.made \/ h.made \in untold'
    BY <1>1, <1>4, <1>5, <2>3, <2>4 DEF HostOwes
  <2>6. h.msg \in Ids => g.ended
    BY <1>8, <2>3, NumsNat
  <2>7. HostOwes(h)'
    BY <1>4, <1>7, <2>3, <2>5, <2>6 DEF HostOwes, OverIn
  <2>8. /\ reports \subseteq reports'
        /\ who = "place" => [num |-> n, kind |-> "placed", msg |-> h.msg] \in reports'
    BY <1>1, <2>2, <2>3, EndReportedIs
  <2>9. h.place = "done" /\ h.msg \in Ids =>
          \/ host[n].place = "done" /\ host[n].msg = h.msg
          \/ [num |-> n, kind |-> "placed", msg |-> h.msg] \in reports'
    BY <1>1, <2>3, <2>4, <2>8
  <2>10. \A k \in {g.msg, g.made} : k \in {h.msg, h.made}
    BY <2>3
  <2>11. QED
    BY <1>1, <1>5, <1>6, <2>2, <2>7, <2>8, <2>9, <2>10, HostOwed
<1>9. CASE ~(g.msg = 0 \/ g.ended)
  <2>1. PICK m \in Ids : m = g.msg
    BY <1>1, <1>9 DEF Host, Msg
  <2>2. PICK h : h = Ending(g, who)
    OBVIOUS
  <2>3. host' = [host EXCEPT ![n] = h] /\ reports' = reports
    BY <1>1, <1>9, <2>2, OwedParts DEF EndBegins, AppTypes, Ending
  <2>4. /\ h.ended /\ h.ending_call # "no" /\ h.stage = g.stage /\ h.msg = g.msg
        /\ h.made = g.made /\ h.quiet = g.quiet /\ h.place = g.place
    BY <1>1, <1>2, <2>1, <2>2, EndingHost
  <2>5. h.place = "done" /\ h.made \in Ids => h.msg = h.made \/ h.made \in untold'
    BY <1>1, <1>5, <2>4 DEF HostOwes
  <2>6. HostOwes(h)'
    BY <1>4, <1>7, <2>4, <2>5 DEF HostOwes, OverIn
  <2>7. \A k \in {g.msg, g.made} : k \in {h.msg, h.made}
    BY <2>4
  <2>8. QED
    BY <1>1, <1>5, <1>6, <2>3, <2>4, <2>6, <2>7, HostOwed
<1>10. QED
  BY <1>8, <1>9

-----------------------------------------------------------------------------
(* Every step keeps what is owed: the Qt thread *)

LEMMA OwesNext ==
    ASSUME core' = core, untold' = untold, NEW n \in Nums, HostOwes(host'[n])
    PROVE  HostOwes(host[n])'
BY DEF HostOwes, OverIn

\* A host whose call is over, and known to be if it is settled.
LEMMA LetGoOwes ==
    ASSUME NEW g \in Host, HostFits(g), HostOwes(g), NEW h,
           \/ h = g
           \/ /\ h = Settled(g)
              /\ g.msg \in Ids => OverIn(g.msg)
              /\ g.stage = "held" => g.msg \in Ids
    PROVE  /\ HostOwes(LetGo(h))
           /\ LetGo(h).msg = g.msg /\ LetGo(h).made = g.made /\ LetGo(h).place = g.place
<1>1. /\ h \in Host /\ h.stage = g.stage /\ h.drop = g.drop /\ h.msg = g.msg /\ h.made = g.made
      /\ h.place = g.place /\ h.ending_call = g.ending_call
      /\ g.ended => h.ended
      /\ (h.ended = g.ended /\ h.quiet = g.quiet) \/ (g.msg \in Ids => OverIn(g.msg))
      /\ h.ended => g.ended \/ g.stage = "held"
      /\ h.ended /\ ~g.ended => g.msg \in Ids
  <2>1. CASE h = g
    BY <2>1
  <2>2. CASE h # g
    <3>1. /\ h = Settled(g)
          /\ g.msg \in Ids => OverIn(g.msg)
          /\ g.stage = "held" => g.msg \in Ids
      BY <2>2
    <3>2. /\ h \in Host /\ h.stage = g.stage /\ h.drop = g.drop /\ h.msg = g.msg
          /\ h.made = g.made /\ h.place = g.place /\ h.ending_call = g.ending_call
          /\ h.ended = (g.ended \/ g.stage = "held")
      BY <3>1, SettledHost
    <3>3. QED
      BY <3>1, <3>2
  <2>3. QED
    BY <2>1, <2>2
<1>2. /\ h.ended => h.ending_call # "no" \/ OverIn(h.msg) \/ h.msg \in untold
      /\ h.quiet /\ h.msg \in Ids => OverIn(h.msg)
  BY <1>1, SettledHost DEF HostOwes, HostFits
<1>3. PICK d : d = LetGo(h)
  OBVIOUS
<1>4. /\ d.msg = h.msg /\ d.made = h.made /\ d.place = h.place /\ d.ended = h.ended
      /\ d.quiet = h.quiet /\ d.ending_call = h.ending_call
      /\ \/ d.stage = "dropped" /\ d.drop = "ending"
         \/ d.stage = h.stage /\ d.drop = h.drop
  BY <1>1, <1>3, DropHost DEF LetGo
<1>5. HostOwes(d)
  BY <1>1, <1>2, <1>4 DEF HostOwes
<1>6. QED
  BY <1>1, <1>3, <1>4, <1>5

\* The call is over.
LEMMA ClosedOwed ==
    ASSUME OwedInv, DueInv', NEW h, IsClosed(h), h = host[call.num] \/ OverIn(call.msg),
           core' = core, untold' = untold, EventTruth',
           \A t \in tasks \ tasks' : t.kind # "decline",
           \A t \in tasks' \ tasks : t.kind = "decline" => CameIn(t.msg),
           \A m \in mine' \ mine : \E t \in tasks' : t.kind = "decline" /\ t.msg = m
    PROVE  OwedInv'
<1>1. call' = [call EXCEPT !.state = "ended", !.reason = call'.reason] /\ Busy
  BY DEF IsClosed
<1>2. call'.state = "ended"
  BY <1>1, OwedParts DEF AppTypes, Call
<1>3. \A k \in Nums : NameTold(k)'
  BY <1>2 DEF NameTold, Current, Busy, BusyIn
<1>4. PICK n \in Nums : n = call.num
  BY <1>1, BusyNum, OwedParts
<1>5. PICK g \in Host : g = host[n] /\ HostFits(g) /\ HostOwes(g)
  BY OwedParts
<1>6. /\ g.msg \in Ids /\ call.msg \in Ids => g.msg = call.msg
      /\ g.stage = "held" /\ call.msg \in Ids => g.msg \in Ids
  <2>1. call.num > 0
    BY <1>4, NumsNat DEF Nums
  <2>2. CASE call.incoming
    BY <1>4, <1>5, <2>1, <2>2, OwedParts, NumsNat DEF World, CallFits
  <2>3. CASE ~call.incoming
    BY <1>4, <1>5, <2>1, <2>3, OwedParts, NumsNat DEF World, CallFits
  <2>4. QED
    BY <2>2, <2>3
<1>7. \/ h = g
      \/ /\ h = Settled(g)
         /\ g.msg \in Ids => OverIn(g.msg)
         /\ g.stage = "held" => g.msg \in Ids
  BY <1>4, <1>5, <1>6 DEF IsClosed
<1>8. PICK d : d = LetGo(h)
  OBVIOUS
<1>9. HostOwes(d) /\ d.msg = g.msg /\ d.made = g.made
  BY <1>5, <1>7, <1>8, LetGoOwes
<1>10. \A k \in Nums : host'[k] = IF k = n THEN d ELSE host[k]
  BY <1>4, <1>8 DEF IsClosed
<1>11. \A k \in Nums : HostOwes(host[k])'
  <2>1. \A k \in Nums : HostOwes(host'[k])
    BY <1>9, <1>10, OwedParts
  <2>2. QED
    BY <2>1, OwesNext
<1>12. \A k \in Nums, m \in Ids : HasHost(k, m) => HasHost(k, m)'
  BY <1>5, <1>9, <1>10 DEF HasHost
<1>13. QED
  BY <1>3, <1>11, <1>12, AppOwed

\* The app goes on with the hosts it has.
LEMMA AppStays ==
    ASSUME OwedInv, DueInv', core' = core, untold' = untold, mine' = mine, EventTruth',
           \A k \in Nums : host'[k] = host[k] \/ \E a \in BOOLEAN : host'[k] = [host[k] EXCEPT !.answered = a],
           \A k \in Nums : NameTold(k)',
           \A t \in tasks \ tasks' : t.kind # "decline",
           \A t \in tasks' \ tasks : t.kind # "decline"
    PROVE  OwedInv'
<1>1. ASSUME NEW k \in Nums
      PROVE  /\ HostOwes(host[k])'
             /\ \A m \in Ids : HasHost(k, m) => HasHost(k, m)'
  <2>1. PICK g \in Host : g = host[k] /\ HostOwes(g)
    BY OwedParts
  <2>2. PICK h : h = host'[k]
    OBVIOUS
  <2>3. h = g \/ \E a \in BOOLEAN : h = [g EXCEPT !.answered = a]
    BY <2>1, <2>2
  <2>4. /\ h.ended = g.ended /\ h.ending_call = g.ending_call /\ h.quiet = g.quiet
        /\ h.msg = g.msg /\ h.made = g.made /\ h.stage = g.stage /\ h.drop = g.drop
        /\ h.place = g.place
    BY <2>3 DEF Host
  <2>5. HostOwes(h)
    BY <2>1, <2>4 DEF HostOwes
  <2>6. HostOwes(host'[k])
    BY <2>2, <2>5
  <2>7. HostOwes(host[k])'
    BY <2>6, OwesNext
  <2>8. QED
    BY <2>1, <2>2, <2>4, <2>7 DEF HasHost
<1>2. QED
  BY <1>1, AppOwed

\* The app rings.
LEMMA RingOwed ==
    ASSUME OwedInv, DueInv', NEW m \in Ids, IsRinging(m), core' = core, untold' = untold,
           mine' = mine, EventTruth',
           \A t \in tasks \ tasks' : t.kind # "decline",
           \A t \in tasks' \ tasks : t.kind # "decline"
    PROVE  OwedInv'
<1>1. PICK new : new = call.num + 1
  OBVIOUS
<1>2. host' = host /\ call'.num = new
  BY <1>1 DEF IsRinging
<1>3. new > call.num
  BY <1>1, OwedParts, NumsNat DEF AppTypes, Call
<1>4. ASSUME NEW k \in Nums PROVE NameTold(k)'
  <2>1. CASE k # new
    BY <1>2, <2>1 DEF NameTold, Current
  <2>2. CASE k = new
    <3>1. host[k] = NoHost
      BY <1>3, <2>2, OwedParts DEF World, Hosts
    <3>2. host'[k].place = "no"
      BY <1>2, <3>1 DEF NoHost
    <3>3. QED
      BY <3>2 DEF NameTold
  <2>3. QED
    BY <2>1, <2>2
<1>5. QED
  BY <1>2, <1>4, AppStays

\* An event is heard, or kept.
LEMMA TruthHeard ==
    ASSUME OwedInv, core' = core, events # <<>>, events' = Tail(events),
           call'.early \in {call.early, <<>>, Append(call.early, Head(events))}
    PROVE  EventTruth' /\ EndTruth(Head(events))
<1>1. events \in Seq(Event) /\ call.early \in Seq(Event)
  BY OwedParts DEF TypeOK, Call
<1>2. PICK e : e = Head(events)
  OBVIOUS
<1>3. e = events[1] /\ 1 \in DOMAIN events
  BY <1>1, <1>2
<1>4. EndTruth(e)
  BY <1>3, OwedParts DEF EventTruth
<1>5. ASSUME NEW i \in DOMAIN events' PROVE EndTruth(events'[i])
  <2>1. i + 1 \in DOMAIN events /\ events'[i] = events[i + 1]
    BY <1>1, <1>5
  <2>2. QED
    BY <2>1, OwedParts DEF EventTruth
<1>6. ASSUME NEW i \in DOMAIN call'.early PROVE EndTruth(call'.early[i])
  <2>1. (i \in DOMAIN call.early /\ call'.early[i] = call.early[i]) \/ call'.early[i] = e
    <3>1. CASE call'.early = <<>>
      BY <1>6, <3>1, NoEntries
    <3>2. CASE call'.early = Append(call.early, e)
      BY <1>1, <1>6, <3>2
    <3>3. QED
      BY <1>2, <1>6, <3>1, <3>2
  <2>2. QED
    BY <1>4, <2>1, OwedParts DEF EventTruth
<1>7. EventTruth'
  BY <1>5, <1>6 DEF EventTruth, EndTruth, OverIn
<1>8. QED
  BY <1>2, <1>4, <1>7

LEMMA HandleEventOwed ==
    ASSUME OwedInv, DueInv', HandleEvent
    PROVE  OwedInv'
<1>1. PICK e \in Event : e = Head(events) /\ IsHandled(Now, e, Now')
  BY HandleEventIs, OwedParts
<1>2. /\ Now' \in State /\ events # <<>> /\ events' = Tail(events)
      /\ core' = core /\ untold' = untold /\ mine' = mine /\ reports' = reports
  BY HandleEventIs, OwedParts DEF HandleEvent
<1>3. Now.call = call /\ Now.host = host /\ Now.tasks = tasks /\ Now \in State
  BY NowIsState, OwedParts
<1>4. Now'.call = call' /\ Now'.host = host' /\ Now'.tasks = tasks'
  BY <1>2, NowNext
<1>5. ASSUME tasks' = tasks, call'.num = call.num, call'.msg = call.msg, Busy' => Busy,
             call'.early \in {call.early, <<>>, Append(call.early, e)},
             \A k \in Nums : host'[k] = host[k] \/ \E a \in BOOLEAN : host'[k] = [host[k] EXCEPT !.answered = a]
      PROVE  OwedInv'
  <2>1. EventTruth'
    BY <1>1, <1>2, <1>5, TruthHeard
  <2>2. ASSUME NEW k \in Nums PROVE NameTold(k)'
    <3>1. PICK g \in Host : g = host[k]
      BY OwedParts
    <3>2. host'[k].place = g.place /\ host'[k].msg = g.msg
      BY <1>5, <3>1 DEF Host
    <3>3. NameTold(k)
      BY OwedParts
    <3>4. Current(k)' => Current(k)
      BY <1>5 DEF Current
    <3>5. QED
      BY <1>2, <1>5, <3>1, <3>2, <3>3, <3>4, NameKept
  <2>3. QED
    BY <1>2, <1>5, <2>1, <2>2, AppStays
<1>6. CASE IsKept(Now, e, Now')
  <2>1. /\ call' = [call EXCEPT !.early = call'.early] /\ tasks' = tasks /\ host' = host
        /\ call'.early \in {call.early, Append(call.early, e)}
    BY <1>3, <1>4, <1>6 DEF IsKept
  <2>2. call'.num = call.num /\ call'.msg = call.msg /\ (Busy' => Busy)
    BY <2>1, OwedParts DEF AppTypes, Call, Busy, BusyIn
  <2>3. QED
    BY <1>5, <2>1, <2>2
<1>7. CASE IsAnswered(Now, e, Now')
  <2>1. /\ call' = [call EXCEPT !.state = call'.state] /\ tasks' = tasks
        /\ call'.state = IF call.state = "calling" THEN "connecting" ELSE call.state
        /\ \A k \in Nums : host'[k] = IF k = call.num
                                      THEN [host[k] EXCEPT !.answered = @ \/ host[k].stage = "held"]
                                      ELSE host[k]
    BY <1>3, <1>4, <1>7 DEF IsAnswered
  <2>2. call'.num = call.num /\ call'.msg = call.msg /\ (Busy' => Busy) /\ call'.early = call.early
    BY <2>1, OwedParts DEF AppTypes, Call, Busy, BusyIn
  <2>3. ASSUME NEW k \in Nums
        PROVE  host'[k] = host[k] \/ \E a \in BOOLEAN : host'[k] = [host[k] EXCEPT !.answered = a]
    <3>1. PICK g \in Host : g = host[k]
      BY OwedParts
    <3>2. PICK a \in BOOLEAN : a = (g.answered \/ g.stage = "held")
      BY DEF Host
    <3>3. host'[k] = host[k] \/ host'[k] = [g EXCEPT !.answered = a]
      BY <2>1, <3>1, <3>2
    <3>4. QED
      BY <3>1, <3>3
  <2>4. QED
    BY <1>5, <2>1, <2>2, <2>3
<1>8. CASE IsIgnored(Now, e, Now')
  <2>1. call' = call /\ tasks' = tasks /\ host' = host
    BY <1>3, <1>4, <1>8 DEF IsIgnored
  <2>2. QED
    BY <1>5, <2>1 DEF Busy
<1>9. CASE IsEnded(Now, e, Now')
  <2>1. /\ IsClosed(Settled(host[call.num])) /\ EndsIt(e, call.msg) /\ call.msg \in Ids
        /\ \/ tasks' = tasks
           \/ tasks' = tasks \cup {NewTask("why", call.num, call.msg)}
    BY <1>2, <1>9, EndedIsClosed, OwedParts
  <2>2. call'.early = call.early
    BY <2>1, OwedParts DEF IsClosed, AppTypes, Call
  <2>3. EventTruth' /\ EndTruth(e)
    BY <1>1, <1>2, <2>2, TruthHeard
  <2>4. OverIn(call.msg)
    BY <2>1, <2>3 DEF EndTruth, EndsIt
  <2>5. PICK w : w = NewTask("why", call.num, call.msg)
    OBVIOUS
  <2>6. w.kind = "why" /\ (tasks' = tasks \/ tasks' = tasks \cup {w})
    BY <2>1, <2>5 DEF NewTask
  <2>7. PICK h : h = Settled(host[call.num])
    OBVIOUS
  <2>8. IsClosed(h)
    BY <2>1, <2>7
  <2>9. QED
    BY <1>2, <2>3, <2>4, <2>6, <2>8, ClosedOwed
<1>10. CASE IsRung(Now, e, Now')
  <2>1. /\ IsRinging(e.msg) /\ e.msg \in Ids
        /\ tasks' = tasks \cup {NewTask("watch", call.num + 1, e.msg)}
    BY <1>2, <1>10, RungIs, OwedParts
  <2>2. PICK m \in Ids : m = e.msg
    BY <2>1
  <2>3. PICK w : w = NewTask("watch", call.num + 1, e.msg)
    OBVIOUS
  <2>4. w.kind = "watch" /\ tasks' = tasks \cup {w}
    BY <2>1, <2>3 DEF NewTask
  <2>5. call'.early = <<>>
    BY <2>1 DEF IsRinging
  <2>6. EventTruth'
    BY <1>1, <1>2, <2>5, TruthHeard
  <2>7. QED
    BY <1>2, <2>1, <2>2, <2>4, <2>6, RingOwed
<1>11. QED
  BY <1>1, <1>6, <1>7, <1>8, <1>9, <1>10 DEF IsHandled

LEMMA ReportLandsOwed ==
    ASSUME OwedInv, DueInv', NEW r \in reports, ReportLands(r)
    PROVE  OwedInv'
<1>1. UNCHANGED coreVars /\ core' = core /\ untold' = untold /\ mine' = mine
      /\ reports' = reports \ {r}
  BY DEF ReportLands, ghostVars, coreVars
<1>2. CASE ~Current(r.num)
  <2>1. UNCHANGED <<call, host, tasks>>
    BY <1>2, ReportedIs, OwedParts
  <2>2. EventTruth'
    BY <1>1, <2>1, SameTruth
  <2>3. ASSUME NEW k \in Nums PROVE NameTold(k)'
    <3>1. NameTold(k) /\ (Current(k)' <=> Current(k))
      BY <2>1, OwedParts DEF Current, Busy
    <3>2. [num |-> k, kind |-> "placed", msg |-> host[k].msg] = r => ~Current(k)
      BY <1>2
    <3>3. QED
      BY <1>1, <2>1, <3>1, <3>2 DEF NameTold
  <2>4. QED
    BY <1>1, <2>1, <2>2, <2>3, AppStays
<1>3. CASE Current(r.num)
  <2>1. IsReported(r) /\ Busy
    BY <1>3, ReportedIs, OwedParts DEF Current
  <2>2. PICK n \in Nums : n = r.num /\ n = call.num
    BY <1>3, <2>1, BusyNum, OwedParts DEF Current
  <2>3. CASE r.kind = "placed" /\ IsNamed(r)
    <3>1. PICK g \in Host : g = host[n] /\ HostFits(g) /\ HostOwes(g)
      BY OwedParts
    <3>2. r.msg \in Ids /\ r.msg = g.msg
      BY <2>2, <2>3, <3>1, OwedParts DEF World, ReportsFit
    <3>3. /\ tasks' = tasks /\ call'.num = n /\ call'.msg = r.msg /\ call'.early = <<>>
          /\ \A k \in Nums : k # n => host'[k] = host[k]
      BY <2>2, <2>3 DEF IsNamed
    <3>4. EventTruth'
      BY <1>1, <3>3, SameTruth
    <3>5. PICK a \in BOOLEAN :
             \/ host'[n] = [g EXCEPT !.answered = a]
             \/ /\ host'[n] = LetGo(Settled([g EXCEPT !.answered = a]))
                /\ \E i \in DOMAIN call.early : EndsIt(call.early[i], r.msg)
                /\ g.stage # "held" => a = g.answered
      <4>1. g.stage = "held"
        <5>1. call.incoming => g.place = "no"
          BY <2>1, <2>2, <3>1, OwedParts, NumsNat DEF World, CallFits, Nums
        <5>2. g.place = "done"
          BY <2>2, <2>3, <3>1, OwedParts DEF World, ReportsFit
        <5>3. g.stage \in {"held", "dropped"}
          BY <3>1, <5>2 DEF HostFits, Untouched
        <5>4. g.stage # "none" => g.stage \in Running
          BY <1>3, <2>2, <3>1, CurrentHost, OwedParts
        <5>5. QED
          BY <5>3, <5>4 DEF Running
      <4>2. QED
        BY <2>2, <2>3, <3>1, <4>1 DEF IsNamed
    <3>6. PICK f : f = [g EXCEPT !.answered = a]
      OBVIOUS
    <3>7. /\ f \in Host
          /\ f.ended = g.ended /\ f.ending_call = g.ending_call /\ f.quiet = g.quiet
          /\ f.msg = g.msg /\ f.made = g.made /\ f.stage = g.stage /\ f.drop = g.drop
          /\ f.place = g.place
      BY <3>6, AnsweredHost
    <3>8. HostOwes(f)
      BY <3>1, <3>7 DEF HostOwes
    <3>9. HostOwes(host'[n]) /\ host'[n].msg = g.msg /\ host'[n].made = g.made
      <4>1. CASE host'[n] = f
        BY <3>7, <3>8, <4>1
      <4>2. CASE host'[n] # f
        <5>1. /\ host'[n] = LetGo(Settled(f)) /\ (g.stage # "held" => a = g.answered)
              /\ \E i \in DOMAIN call.early : EndsIt(call.early[i], r.msg)
          BY <3>5, <3>6, <4>2
        <5>2. PICK i \in DOMAIN call.early : EndsIt(call.early[i], r.msg)
          BY <5>1
        <5>3. OverIn(r.msg)
          BY <5>2, OwedParts DEF EventTruth, EndTruth, EndsIt
        <5>4. HostFits(f)
          BY <3>1, <3>6, <5>1, AnsweredFits
        <5>5. PICK h : h = Settled(f)
          OBVIOUS
        <5>6. HostOwes(LetGo(h)) /\ LetGo(h).msg = f.msg /\ LetGo(h).made = f.made
          BY <3>2, <3>7, <3>8, <5>3, <5>4, <5>5, LetGoOwes
        <5>7. QED
          BY <3>7, <5>1, <5>5, <5>6
      <4>3. QED
        BY <4>1, <4>2
    <3>10. ASSUME NEW k \in Nums PROVE HostOwes(host[k])' /\ NameTold(k)'
      <4>1. HostOwes(host'[k])
        BY <3>3, <3>9, OwedParts
      <4>2. HostOwes(host[k])'
        BY <1>1, <4>1, OwesNext
      <4>3. NameTold(k)'
        <5>1. Current(k)' => k = n
          BY <3>3 DEF Current
        <5>2. call'.msg = host'[n].msg
          BY <3>2, <3>3, <3>9
        <5>3. QED
          BY <5>1, <5>2 DEF NameTold
      <4>4. QED
        BY <4>2, <4>3
    <3>11. \A k \in Nums, m \in Ids : HasHost(k, m) => HasHost(k, m)'
      BY <3>1, <3>3, <3>9 DEF HasHost
    <3>12. QED
      BY <1>1, <3>3, <3>4, <3>10, <3>11, AppOwed
  <2>4. CASE /\ r.kind # "placed" /\ host' = host /\ tasks' = tasks
             /\ call' = [call EXCEPT !.state = call'.state]
    <3>1. call'.num = call.num /\ call'.msg = call.msg /\ call'.early = call.early
      BY <2>4, OwedParts DEF AppTypes, Call
    <3>2. EventTruth'
      BY <1>1, <3>1, SameTruth
    <3>3. ASSUME NEW k \in Nums PROVE NameTold(k)'
      <4>1. NameTold(k) /\ (Current(k)' => Current(k))
        BY <2>1, <3>1, OwedParts DEF Current
      <4>2. [num |-> k, kind |-> "placed", msg |-> host[k].msg] # r
        BY <2>4
      <4>3. QED
        BY <1>1, <2>4, <3>1, <4>1, <4>2 DEF NameTold
    <3>4. QED
      BY <1>1, <2>4, <3>2, <3>3, AppStays
  <2>5. CASE IsClosed(host[call.num]) /\ tasks' = tasks
    <3>1. PICK h : h = host[call.num] /\ IsClosed(h)
      BY <2>5
    <3>2. call'.early = call.early
      BY <3>1, OwedParts DEF IsClosed, AppTypes, Call
    <3>3. EventTruth'
      BY <1>1, <3>2, SameTruth
    <3>4. QED
      BY <1>1, <2>5, <3>1, <3>3, ClosedOwed
  <2>6. QED
    BY <2>1, <2>3, <2>4, <2>5 DEF IsReported
<1>4. QED
  BY <1>2, <1>3

\* A host that comes up owes nothing yet.
LEMMA ServedOwes ==
    ASSUME NEW m \in Msg
    PROVE  HostOwes(ServedHost(m)) /\ ServedHost(m).msg = m /\ ServedHost(m).place = "no"
<1>1. PICK g : g = ServedHost(m)
  OBVIOUS
<1>2. /\ g.stage = "starting" /\ g.msg = m /\ ~g.ended /\ ~g.quiet /\ g.place = "no"
  BY <1>1, ServedHostIs
<1>3. HostOwes(g)
  BY <1>2 DEF HostOwes
<1>4. QED
  BY <1>1, <1>2, <1>3

\* Call n comes to have its host.
LEMMA ServedOwed ==
    ASSUME OwedInv, DueInv', NEW n \in Nums, host[n] = NoHost, NEW m \in Msg,
           host' = [host EXCEPT ![n] = ServedHost(m)], call'.num = n,
           call'.early \in {call.early, <<>>},
           tasks' = tasks, UNCHANGED coreVars, untold' = untold,
           mine' = mine \/ mine' = mine \cup {m}
    PROVE  OwedInv'
<1>1. PICK h : h = ServedHost(m) /\ HostOwes(h) /\ h.msg = m /\ h.place = "no"
  BY ServedOwes
<1>2. \A k \in Nums : host'[k] = IF k = n THEN h ELSE host[k]
  BY <1>1, OwedParts DEF AppTypes
<1>3. core' = core /\ EventTruth'
  BY SameTruth DEF coreVars
<1>4. ASSUME NEW k \in Nums PROVE HostOwes(host[k])' /\ NameTold(k)'
  <2>1. HostOwes(host'[k])
    BY <1>1, <1>2, OwedParts
  <2>2. HostOwes(host[k])'
    BY <1>3, <2>1, OwesNext
  <2>3. NameTold(k)'
    BY <1>1, <1>2 DEF NameTold, Current
  <2>4. QED
    BY <2>2, <2>3
<1>5. \A k \in Nums, j \in Ids : HasHost(k, j) => HasHost(k, j)'
  <2>1. \A j \in Ids : ~HasHost(n, j)
    BY NumsNat DEF HasHost, NoHost
  <2>2. QED
    BY <1>2, <2>1 DEF HasHost
<1>6. \A j \in mine' \ mine : \E k \in Nums : HasHost(k, j)'
  <2>1. m \in mine' \ mine => HasHost(n, m)'
    BY <1>1, <1>2 DEF HasHost
  <2>2. QED
    BY <2>1
<1>7. QED
  BY <1>3, <1>4, <1>5, <1>6, AppOwed

LEMMA PlaceOwed ==
    ASSUME OwedInv, DueInv', Place
    PROVE  OwedInv'
<1>1. IsPlaced
  BY PlacedIs, OwedParts
<1>2. PICK n : n = call.num + 1
  OBVIOUS
<1>3. n \in Nums /\ n > call.num
  <2>1. call.num \in 0..MaxCalls /\ call.num < MaxCalls
    BY <1>1, OwedParts DEF IsPlaced, AppTypes, Call
  <2>2. QED
    BY <1>2, <2>1, NextNum
<1>4. host[n] = NoHost
  BY <1>3, OwedParts DEF World, Hosts
<1>5. /\ host' = [host EXCEPT ![n] = ServedHost(0)] /\ tasks' = tasks
      /\ call'.num = n /\ call'.early = <<>>
  BY <1>1, <1>2 DEF IsPlaced
<1>6. UNCHANGED coreVars /\ untold' = untold /\ mine' = mine /\ 0 \in Msg
  BY DEF Place, ghostVars, Msg
<1>7. QED
  BY <1>3, <1>4, <1>5, <1>6, ServedOwed

LEMMA AnswerOwed ==
    ASSUME OwedInv, DueInv', Answer
    PROVE  OwedInv'
<1>1. IsAccepted
  BY AcceptedIs, OwedParts
<1>2. PICK n \in Nums : n = call.num
  BY <1>1 DEF IsAccepted
<1>3. PICK m \in Ids : m = call.msg
  BY <1>1, OwedParts DEF IsAccepted, World, CallFits
<1>4. host[n] = NoHost
  BY <1>1, <1>2, OwedParts DEF IsAccepted, World, CallFits
<1>5. /\ host' = [host EXCEPT ![n] = ServedHost(m)] /\ tasks' = tasks
      /\ call'.num = n /\ call'.early = call.early
  BY <1>1, <1>2, <1>3, OwedParts DEF IsAccepted, AppTypes, Call
<1>6. UNCHANGED coreVars /\ untold' = untold /\ mine' = mine \cup {m} /\ m \in Msg
  BY <1>3 DEF Answer, Msg
<1>7. QED
  BY <1>4, <1>5, <1>6, ServedOwed

LEMMA PickUpOwed ==
    ASSUME OwedInv, DueInv', NEW m \in Ids, PickUp(m)
    PROVE  OwedInv'
<1>1. PICK t : t = NewTask("pick", 0, m)
  OBVIOUS
<1>2. t.kind = "pick" /\ t \in Task
  <2>1. 0 \in 0..MaxCalls
    BY NumsNat
  <2>2. QED
    BY <1>1, <2>1, WhyTask DEF NewTask
<1>3. PICK o : o = Started(Now, t)
  OBVIOUS
<1>4. /\ o \in State /\ o.call = call /\ o.host = host /\ o.tasks = tasks \cup {t}
  BY <1>2, <1>3, StartedIs, NowIsState, OwedParts
<1>5. Becomes(o)
  BY <1>1, <1>3 DEF PickUp
<1>6. call' = call /\ host' = host /\ tasks' = tasks \cup {t}
  BY <1>4, <1>5, BecomesIs
<1>7. UNCHANGED coreVars /\ untold' = untold /\ mine' = mine /\ reports' = reports
  BY DEF PickUp, ghostVars
<1>8. CoreGoes /\ CoreTruth' /\ EventTruth'
  BY <1>6, <1>7, SameTruth
<1>9. QED
  BY <1>2, <1>6, <1>7, <1>8, SameOwed

LEMMA PickUpLandsOwed ==
    ASSUME OwedInv, DueInv', NEW t \in tasks, PickUpLands(t)
    PROVE  OwedInv'
<1>1. PICK m \in Ids : m = t.msg
  BY OwedParts
<1>2. UNCHANGED coreVars /\ core' = core /\ untold' = untold /\ mine' = mine
      /\ reports' = reports /\ t.kind = "pick"
  BY DEF PickUpLands, coreVars
<1>3. CASE UNCHANGED <<call, host>> /\ tasks' = tasks \ {t}
  <2>1. CoreGoes /\ CoreTruth' /\ EventTruth'
    BY <1>2, <1>3, SameTruth
  <2>2. QED
    BY <1>2, <1>3, <2>1, SameOwed
<1>4. CASE /\ IsRinging(m)
           /\ tasks' = (tasks \ {t}) \cup {NewTask("watch", call.num + 1, m)}
  <2>1. PICK w : w = NewTask("watch", call.num + 1, m)
    OBVIOUS
  <2>2. w.kind = "watch" /\ tasks' = (tasks \ {t}) \cup {w}
    BY <1>4, <2>1 DEF NewTask
  <2>3. call'.early = <<>>
    BY <1>4 DEF IsRinging
  <2>4. EventTruth'
    BY <1>2, <2>3, SameTruth
  <2>5. QED
    BY <1>2, <1>4, <2>2, <2>4, RingOwed
<1>5. QED
  BY <1>1, <1>3, <1>4, PickedUpIs, OwedParts

LEMMA HangUpOwed ==
    ASSUME OwedInv, DueInv', HangUp
    PROVE  OwedInv'
<1>1. IsHungUp
  BY HungUpIs, OwedParts
<1>2. PICK h : h = host[call.num] /\ IsClosed(h)
  BY <1>1 DEF IsHungUp
<1>3. UNCHANGED coreVars /\ core' = core /\ untold' = untold
  BY DEF HangUp, coreVars
<1>4. call'.early = call.early
  BY <1>2, OwedParts DEF IsClosed, AppTypes, Call
<1>5. EventTruth'
  BY <1>3, <1>4, SameTruth
<1>6. CASE call.state = "ringing"
  <2>1. PICK m \in Ids : m = call.msg /\ m \in begun
    BY <1>6, RingsAlone, OwedParts
  <2>2. CameIn(m)
    BY <2>1, OwedParts, DueParts DEF BegunWay
  <2>3. PICK w : w = NewTask("decline", call.num, m)
    OBVIOUS
  <2>4. w.kind = "decline" /\ w.msg = m /\ tasks' = tasks \cup {w}
    BY <1>1, <1>6, <2>1, <2>3 DEF IsHungUp, NewTask
  <2>5. mine' = mine \cup {m}
    BY <1>6, <2>1 DEF HangUp
  <2>6. QED
    BY <1>2, <1>3, <1>5, <2>2, <2>4, <2>5, ClosedOwed
<1>7. CASE call.state # "ringing"
  <2>1. tasks' = tasks /\ mine' = mine
    BY <1>1, <1>7 DEF IsHungUp, HangUp
  <2>2. QED
    BY <1>2, <1>3, <1>5, <2>1, ClosedOwed
<1>8. QED
  BY <1>6, <1>7

LEMMA ResetOwed ==
    ASSUME OwedInv, DueInv', Reset
    PROVE  OwedInv'
<1>1. /\ host' = host /\ tasks' = tasks
      /\ call' = [call EXCEPT !.state = call'.state, !.reason = call'.reason]
      /\ ~Busy'
  BY ResetTypes, OwedParts
<1>2. call'.early = call.early
  BY <1>1, OwedParts DEF AppTypes, Call
<1>3. UNCHANGED coreVars /\ core' = core /\ untold' = untold /\ mine' = mine
  BY DEF Reset, ghostVars, coreVars
<1>4. EventTruth'
  BY <1>2, <1>3, SameTruth
<1>5. \A k \in Nums : NameTold(k)'
  BY <1>1 DEF NameTold, Current
<1>6. QED
  BY <1>1, <1>3, <1>4, <1>5, AppStays

LEMMA RingLimitOwed ==
    ASSUME OwedInv, DueInv', NEW t \in tasks, RingLimit(t)
    PROVE  OwedInv'
<1>1. UNCHANGED coreVars /\ core' = core /\ untold' = untold /\ mine' = mine
      /\ reports' = reports /\ t.kind = "watch"
  BY DEF RingLimit, ghostVars, coreVars
<1>2. CASE UNCHANGED <<call, host>> /\ tasks' = tasks \ {t}
  <2>1. CoreGoes /\ CoreTruth' /\ EventTruth'
    BY <1>1, <1>2, SameTruth
  <2>2. QED
    BY <1>1, <1>2, <2>1, SameOwed
<1>3. CASE /\ IsClosed(host[call.num])
           /\ tasks' = (tasks \ {t}) \cup {NewTask("why", call.num, call.msg)}
  <2>1. PICK w : w = NewTask("why", call.num, call.msg)
    OBVIOUS
  <2>2. w.kind = "why" /\ tasks' = (tasks \ {t}) \cup {w}
    BY <1>3, <2>1 DEF NewTask
  <2>3. PICK h : h = host[call.num] /\ IsClosed(h)
    BY <1>3
  <2>4. call'.early = call.early
    BY <2>3, OwedParts DEF IsClosed, AppTypes, Call
  <2>5. EventTruth'
    BY <1>1, <2>4, SameTruth
  <2>6. QED
    BY <1>1, <2>2, <2>3, <2>5, ClosedOwed
<1>4. QED
  BY <1>2, <1>3, RingLimitIs, OwedParts

LEMMA WhyLandsOwed ==
    ASSUME OwedInv, DueInv', NEW t \in tasks, WhyLands(t)
    PROVE  OwedInv'
<1>1. IsExplained(t)
  BY ExplainedIs, OwedParts
<1>2. /\ call'.num = call.num /\ call'.msg = call.msg /\ call'.state = call.state
      /\ call'.early = call.early
  BY <1>1, OwedParts DEF IsExplained, AppTypes, Call
<1>3. UNCHANGED coreVars /\ core' = core /\ untold' = untold /\ mine' = mine
      /\ reports' = reports /\ t.kind = "why"
  BY DEF WhyLands, ghostVars, coreVars
<1>4. EventTruth'
  BY <1>2, <1>3, SameTruth
<1>5. ASSUME NEW k \in Nums PROVE NameTold(k)'
  <2>1. NameTold(k) /\ (Current(k)' => Current(k))
    BY <1>2, OwedParts DEF Current, Busy, BusyIn
  <2>2. QED
    BY <1>1, <1>2, <1>3, <2>1, NameKept DEF IsExplained
<1>6. QED
  BY <1>1, <1>3, <1>4, <1>5, AppStays DEF IsExplained

-----------------------------------------------------------------------------
(* What is owed is done *)

LEMMA InitOwed ==
    ASSUME Init
    PROVE  OwedInv
<1>1. DueInv
  BY InitDue
<1>2. DOMAIN events = {} /\ DOMAIN call.early = {}
  BY NoEntries DEF Init, NoCall
<1>3. CoreTruth /\ EventTruth /\ DeclineWay /\ MineWay
  BY <1>2 DEF Init, CoreTruth, EventTruth, DeclineWay, MineWay
<1>4. ASSUME NEW n \in Nums PROVE HostOwes(host[n]) /\ NameTold(n)
  <2>1. host[n] = NoHost
    BY DEF Init
  <2>2. QED
    BY <2>1, NumsNat DEF HostOwes, NameTold, NoHost
<1>5. QED
  BY <1>1, <1>3, <1>4 DEF OwedInv, Owed

LEMMA SystemOwed ==
    ASSUME OwedInv, DueInv', System
    PROVE  OwedInv'
<1>1. ASSUME NEW n \in Nums, NEW ok \in BOOLEAN, NEW done \in BOOLEAN, CoreAccepts(n, ok, done)
      PROVE  OwedInv'
  BY <1>1, CoreAcceptsOwed
<1>2. ASSUME NEW n \in Nums, NEW ok \in BOOLEAN, CoreEndsCall(n, ok) \/ HostStarts(n, ok)
      PROVE  OwedInv'
  BY <1>2, CoreEndsCallOwed, HostStartsOwed
<1>3. ASSUME NEW n \in Nums,
             \/ CorePlaces(n) \/ CoreRefuses(n) \/ HostLands(n) \/ PlaceAnswered(n)
             \/ PlaceChecks(n)
      PROVE  OwedInv'
  BY <1>3, CorePlacesOwed, CoreRefusesOwed, HostLandsOwed, PlaceAnsweredOwed, PlaceChecksOwed
<1>4. ASSUME NEW n \in Nums, NEW who \in {"place", "page", "drop"}, EndBegins(n, who)
      PROVE  OwedInv'
  BY <1>4, EndBeginsOwed
<1>5. ASSUME NEW t \in tasks, NEW ok \in BOOLEAN, CoreDeclines(t, ok)
      PROVE  OwedInv'
  BY <1>5, CoreDeclinesOwed
<1>6. ASSUME NEW t \in tasks, NEW found \in {"", "Alerting", "Declined", "other"},
             CoreSays(t, found)
      PROVE  OwedInv'
  BY <1>6, CoreSaysOwed
<1>7. ASSUME NEW t \in tasks, PickUpLands(t) \/ RingLimit(t) \/ WhyLands(t)
      PROVE  OwedInv'
  BY <1>7, PickUpLandsOwed, RingLimitOwed, WhyLandsOwed
<1>8. ASSUME NEW r \in reports, ReportLands(r)
      PROVE  OwedInv'
  BY <1>8, ReportLandsOwed
<1>9. CASE HandleEvent
  BY <1>9, HandleEventOwed
<1>10. QED
  BY <1>1, <1>2, <1>3, <1>4, <1>5, <1>6, <1>7, <1>8, <1>9 DEF System

LEMMA OthersOwed ==
    ASSUME OwedInv, DueInv', Others
    PROVE  OwedInv'
<1>1. CASE CoreRings \/ CoreLosesEvents
  BY <1>1, CoreRingsOwed, CoreLosesEventsOwed
<1>2. ASSUME NEW m \in Ids, CoreTaken(m) \/ CoreAnswered(m) \/ CoreEnds(m) \/ PickUp(m)
      PROVE  OwedInv'
  BY <1>2, CoreTakenOwed, CoreAnsweredOwed, CoreEndsOwed, PickUpOwed
<1>3. ASSUME NEW n \in Nums, PagePlaces(n) \/ PageAccepts(n) \/ PageEnds(n)
      PROVE  OwedInv'
  BY <1>3, PagePlacesOwed, PageAcceptsOwed, PageEndsOwed
<1>4. ASSUME NEW n \in Nums, NEW k \in {"connected", "disconnected", "gave up"},
             PageConnects(n, k)
      PROVE  OwedInv'
  BY <1>4, PageConnectsOwed
<1>5. CASE Place \/ Answer \/ HangUp \/ Reset
  BY <1>5, PlaceOwed, AnswerOwed, HangUpOwed, ResetOwed
<1>6. QED
  BY <1>1, <1>2, <1>3, <1>4, <1>5 DEF Others

LEMMA StutterOwed ==
    ASSUME OwedInv, DueInv', UNCHANGED vars
    PROVE  OwedInv'
<1>1. UNCHANGED <<coreVars, call, host, tasks, reports, mine, untold>>
  BY DEF vars, appVars, ghostVars
<1>2. CoreGoes /\ CoreTruth' /\ EventTruth'
  BY <1>1, SameTruth
<1>3. QED
  BY <1>1, <1>2, SameOwed

LEMMA OwedAlways == Spec => []OwedInv
<1>1. Init => OwedInv
  BY InitOwed
<1>2. OwedInv /\ [Next]_vars => OwedInv'
  <2>1. ASSUME OwedInv, [Next]_vars PROVE DueInv'
    BY <2>1, SystemDue, OthersDue, StutterDue, OwedParts DEF Next
  <2>2. QED
    BY <2>1, SystemOwed, OthersOwed, StutterOwed DEF Next
<1>3. QED
  BY <1>1, <1>2, PTL DEF Spec

\* What a host that has come to rest leaves of its call.
LEMMA RestOwed ==
    ASSUME OwedInv, Quiet, NEW n \in Nums, host[n].msg \in Ids
    PROVE  OverIn(host[n].msg) \/ host[n].msg \in untold \/ (Busy /\ call.msg = host[n].msg)
<1>1. PICK g \in Host : g = host[n] /\ HostFits(g) /\ HostOwes(g) /\ g.msg \in Ids
  BY OwedParts
<1>2. /\ g.stage \in {"none", "held", "dropped"} /\ g.place \in {"no", "done"}
      /\ g.page # "ending" /\ g.drop # "ending" /\ reports = {}
  BY <1>1 DEF Quiet, Host
<1>3. CASE g.stage = "none"
  BY <1>1, <1>3 DEF HostOwes
<1>4. CASE g.stage = "held"
  <2>1. Current(n) /\ n = call.num /\ Busy /\ call.num > 0
    BY <1>1, <1>4, OwedParts, NumsNat DEF World, Hosts, Current, Nums
  <2>2. CASE call.incoming
    BY <1>1, <1>4, <2>1, <2>2, OwedParts DEF World, CallFits
  <2>3. CASE ~call.incoming
    <3>1. g.place # "no"
      BY <1>1, <2>1, <2>3, OwedParts, NumsNat DEF World, CallFits
    <3>2. QED
      BY <1>1, <1>2, <2>1, <3>1, OwedParts DEF NameTold
  <2>4. QED
    BY <2>2, <2>3
<1>5. CASE g.stage = "dropped"
  <2>1. g.ended /\ g.ending_call = "no"
    BY <1>1, <1>2, <1>5 DEF HostOwes, HostFits, Host
  <2>2. QED
    BY <1>1, <2>1 DEF HostOwes
<1>6. QED
  BY <1>2, <1>3, <1>4, <1>5

\* However a call is placed, answered, declined, hung up, failed or ended from both ends
\* at once, and whatever is in flight then: the core is told once that it is over, and
\* once nothing is in flight no call this device took part in rings or runs that the app
\* is not in, but those whose ending the core could not be told of.  What a host lets go
\* of before the core has named it is ended when it does, by the task that placed it.
THEOREM EndsAreTold == Spec => []CoreToldOnce
<1>1. ASSUME OwedInv, Quiet, NEW m \in mine, m \notin untold, ~(Busy /\ call.msg = m)
      PROVE  OverIn(m)
  <2>1. m \in Ids
    BY <1>1, OwedParts DEF GhostTypes
  <2>2. PICK n \in Nums : OverIn(m) \/ HasHost(n, m)
    <3>1. tasks = {}
      BY <1>1 DEF Quiet
    <3>2. OverIn(m) \/ \E n \in Nums : HasHost(n, m)
      BY <1>1, <3>1, OwedParts DEF MineWay
    <3>3. 1 \in Nums
      BY NumsNat DEF Nums
    <3>4. QED
      BY <3>2, <3>3
  <2>3. CASE m = host[n].msg
    BY <1>1, <2>1, <2>3, RestOwed
  <2>4. CASE m = host[n].made
    <3>1. PICK g \in Host : g = host[n] /\ HostFits(g) /\ HostOwes(g)
      BY OwedParts, <1>1
    <3>2. g.place \in {"no", "done"} /\ g.made \in Ids
      BY <1>1, <2>1, <2>4, <3>1 DEF Quiet
    <3>3. g.place = "done"
      BY <2>1, <3>1, <3>2, NumsNat DEF HostFits
    <3>4. m = g.msg \/ m \in untold
      BY <2>4, <3>1, <3>2, <3>3 DEF HostOwes
    <3>5. QED
      BY <1>1, <2>3, <3>1, <3>4
  <2>5. QED
    BY <2>2, <2>3, <2>4 DEF HasHost
<1>2. ASSUME OwedInv PROVE CoreToldOnce
  <2>1. \A m \in Ids \ late : tells[m] <= 1
    <3>1. \A m \in Ids \ late : tells[m] = 0 \/ tells[m] = 1
      BY <1>2, OwedParts, DueParts DEF Due, ToldInv
    <3>2. QED
      BY <3>1
  <2>2. ASSUME Quiet, NEW m \in mine \ (untold \cup (IF Busy THEN {call.msg} ELSE {}))
        PROVE  core[m].state = "ended" \/ core[m].device = "elsewhere"
    <3>1. m \in mine /\ m \notin untold /\ ~(Busy /\ call.msg = m)
      BY <2>2
    <3>2. OverIn(m)
      BY <1>1, <1>2, <2>2, <3>1
    <3>3. QED
      BY <3>2 DEF OverIn
  <2>3. QED
    BY <2>1, <2>2 DEF CoreToldOnce
<1>3. OwedInv => CoreToldOnce
  BY <1>2
<1>4. QED
  BY <1>3, OwedAlways, PTL

-----------------------------------------------------------------------------
(* The inductive invariant: what the app is going to hear *)

\* The end of m is on its way, or kept until the call has its name; and so its answer.
EndComes(m) == \/ \E i \in DOMAIN events : EndsIt(events[i], m)
               \/ \E i \in DOMAIN call.early : EndsIt(call.early[i], m)
AnswerComes(m) == \/ \E i \in DOMAIN events : AnswersIt(events[i], m)
                  \/ \E i \in DOMAIN call.early : AnswersIt(call.early[i], m)

\* A call that goes on does so on some device.
Somewhere == \A m \in Ids : core[m].state = "active" => core[m].device # "none"

\* Whatever is told of a call that is over, its end is told with it or after it.
EndFollows ==
    \A i \in DOMAIN events :
        events[i].kind # "IncomingCall" /\ OverIn(events[i].msg) =>
            \E j \in DOMAIN events : i <= j /\ EndsIt(events[j], events[i].msg)

\* m is the call the app is in: by its name, or before it has one by its host's.
Meant(m) == IF Unnamed(call) THEN m = host[call.num].made ELSE m = call.msg /\ m \notin late

AnsweredOut(m) == WentOut(m) /\ core[m].state = "active"

\* What the app does not know of m yet, it is going to hear.
Hears(m) == /\ OverIn(m) => EndComes(m)
            /\ AnsweredOut(m) => AnswerComes(m) \/ host[call.num].answered

HearsAll == ~lost /\ Busy => \A m \in Ids : Meant(m) => Hears(m)

Coming == Somewhere /\ EndFollows /\ HearsAll

-----------------------------------------------------------------------------
(* What the core tells *)

News ==
    \A m \in Ids : /\ OverIn(m)' => OverIn(m) \/ EndComes(m)'
                   /\ EndComes(m) => EndComes(m)'
                   /\ AnsweredOut(m)' => AnsweredOut(m) \/ AnswerComes(m)'
                   /\ AnswerComes(m) => AnswerComes(m)'

\* The core tells no more, and has nothing more to tell.
TellsAll == News /\ Somewhere' /\ EndFollows'

LEMMA SameTold ==
    ASSUME Coming, core' = core, events' = events, call'.early = call.early
    PROVE  TellsAll
BY DEF Coming, TellsAll, News, Somewhere, EndFollows, OverIn, EndComes, AnsweredOut, WentOut,
       AnswerComes

\* A call begins to ring at the other end.
LEMMA PlacedTold ==
    ASSUME Coming, CoreTypes, events' = events, call'.early = call.early, NEW m \in Ids, NEW c,
           core' = [core EXCEPT ![m] = c], c.state = "alerting", c.device # "elsewhere"
    PROVE  TellsAll
<1>1. \A k \in Ids : core'[k] = IF k = m THEN c ELSE core[k]
  BY DEF CoreTypes
<1>2. events \in Seq(Event) /\ \A i \in DOMAIN events : events[i].msg \in Ids
  <2>1. events \in Seq(Event) /\ \A i \in DOMAIN events : events[i] \in Event
    BY DEF CoreTypes
  <2>2. QED
    BY <2>1 DEF Event
<1>3. ASSUME NEW k \in Ids
      PROVE  /\ OverIn(k)' => OverIn(k)
             /\ AnsweredOut(k)' => AnsweredOut(k)
  BY <1>1 DEF OverIn, AnsweredOut, WentOut
<1>4. News
  BY <1>3 DEF News, EndComes, AnswerComes
<1>5. Somewhere'
  BY <1>1 DEF Coming, Somewhere
<1>6. EndFollows'
  <2>1. ASSUME NEW i \in DOMAIN events, events[i].kind # "IncomingCall", OverIn(events[i].msg)'
        PROVE  \E j \in DOMAIN events : i <= j /\ EndsIt(events[j], events[i].msg)
    <3>1. PICK k \in Ids : k = events[i].msg
      BY <1>2
    <3>2. OverIn(k)'
      BY <1>1, <2>1, <3>1 DEF OverIn
    <3>3. OverIn(events[i].msg)
      BY <1>3, <3>1, <3>2
    <3>4. QED
      BY <2>1, <3>3 DEF Coming, EndFollows
  <2>2. QED
    BY <2>1 DEF EndFollows, OverIn
<1>7. QED
  BY <1>4, <1>5, <1>6 DEF TellsAll

\* The core tells what comes to m.
LEMMA NewlyTold ==
    ASSUME Coming, CoreTypes, call'.early = call.early, NEW m \in Ids, NEW c,
           core' = [core EXCEPT ![m] = c], NEW e \in Event, e.msg = m,
           events' = Append(events, e),
           c.state = "active" => c.device # "none",
           c.state = "ended" \/ c.device = "elsewhere" => EndsIt(e, m),
           c.state = "active" /\ ~c.incoming => AnswersIt(e, m)
    PROVE  TellsAll
<1>1. \A k \in Ids : core'[k] = IF k = m THEN c ELSE core[k]
  BY DEF CoreTypes
<1>2. events \in Seq(Event) /\ \A i \in DOMAIN events : events[i].msg \in Ids
  <2>1. events \in Seq(Event) /\ \A i \in DOMAIN events : events[i] \in Event
    BY DEF CoreTypes
  <2>2. QED
    BY <2>1 DEF Event
<1>3. PICK last \in Nat : last = Len(events) + 1
  BY <1>2
<1>4. /\ last \in DOMAIN events' /\ events'[last] = e
      /\ \A i \in DOMAIN events : i \in DOMAIN events' /\ events'[i] = events[i] /\ i <= last
      /\ \A i \in DOMAIN events' : i = last \/ i \in DOMAIN events
  BY <1>2, <1>3
<1>5. (OverIn(m)' => EndsIt(e, m)) /\ (AnsweredOut(m)' => AnswersIt(e, m))
  BY <1>1 DEF OverIn, AnsweredOut, WentOut
<1>6. \A k \in Ids : k # m => (OverIn(k)' <=> OverIn(k)) /\ (AnsweredOut(k)' <=> AnsweredOut(k))
  BY <1>1 DEF OverIn, AnsweredOut, WentOut
<1>7. \A k \in Ids : /\ EndComes(k) => EndComes(k)'
                     /\ AnswerComes(k) => AnswerComes(k)'
  BY <1>4 DEF EndComes, AnswerComes
<1>8. /\ EndsIt(e, m) => EndComes(m)'
      /\ AnswersIt(e, m) => AnswerComes(m)'
  BY <1>4 DEF EndComes, AnswerComes
<1>9. News
  BY <1>5, <1>6, <1>7, <1>8 DEF News
<1>10. Somewhere'
  BY <1>1 DEF Coming, Somewhere
<1>11. EndFollows'
  <2>1. ASSUME NEW i \in DOMAIN events', events'[i].kind # "IncomingCall", NEW k \in Ids,
               k = events'[i].msg, OverIn(k)'
        PROVE  \E j \in DOMAIN events' : i <= j /\ EndsIt(events'[j], k)
    <3>1. CASE k = m
      <4>1. EndsIt(events'[last], k) /\ i <= last
        BY <1>3, <1>4, <1>5, <2>1, <3>1
      <4>2. QED
        BY <1>4, <4>1
    <3>2. CASE k # m
      <4>1. i \in DOMAIN events /\ events[i] = events'[i] /\ OverIn(events[i].msg)
        BY <1>4, <1>6, <2>1, <3>2
      <4>2. PICK j \in DOMAIN events : i <= j /\ EndsIt(events[j], events[i].msg)
        BY <2>1, <4>1 DEF Coming, EndFollows
      <4>3. QED
        BY <1>4, <2>1, <4>1, <4>2
    <3>3. QED
      BY <3>1, <3>2
  <2>2. \A i \in DOMAIN events' : events'[i].msg \in Ids
    BY <1>2, <1>4
  <2>3. QED
    BY <2>1, <2>2 DEF EndFollows, OverIn
<1>12. QED
  BY <1>9, <1>10, <1>11 DEF TellsAll

\* m is meant by the call as it was.
LEMMA MeantSame ==
    ASSUME call'.num = call.num, call'.msg = call.msg, call'.incoming = call.incoming,
           Busy' /\ Busy, late \subseteq late',
           host'[call.num].made = host[call.num].made, NEW m, Meant(m)'
    PROVE  Meant(m)
BY DEF Meant, Unnamed, Busy, BusyIn

\* The app's call goes on, or is over.
LEMMA StillHears ==
    ASSUME Coming, TellsAll, lost => lost', late \subseteq late', Busy' => Busy,
           call'.num = call.num, call'.msg = call.msg, call'.incoming = call.incoming,
           Busy => host'[call.num].made = host[call.num].made,
           Busy => (host[call.num].answered => host'[call.num].answered)
    PROVE  Coming'
<1>1. ASSUME ~lost', Busy', NEW m \in Ids, Meant(m)'
      PROVE  Hears(m)'
  <2>1. Hears(m)
    BY <1>1, MeantSame DEF Coming, HearsAll
  <2>2. host[call.num].answered => host'[call'.num].answered
    BY <1>1
  <2>3. QED
    BY <2>1, <2>2 DEF Hears, TellsAll, News
<1>2. QED
  BY <1>1 DEF Coming, HearsAll, TellsAll

LEMMA OverHears ==
    ASSUME TellsAll, ~Busy'
    PROVE  Coming'
BY DEF Coming, TellsAll, HearsAll

\* One host goes on.
LEMMA HostHears ==
    ASSUME TypeOK, World, Coming, AppTypes, TellsAll, lost' = lost, late' = late, call' = call,
           NEW n \in Nums, NEW h, host' = [host EXCEPT ![n] = h],
           h.made = host[n].made, host[n].answered => h.answered
    PROVE  Coming'
<1>1. \A k \in Nums : host'[k] = IF k = n THEN h ELSE host[k]
  BY DEF AppTypes
<1>2. Busy => call.num \in Nums
  BY BusyNum
<1>3. \A k \in Nums : /\ host'[k].made = host[k].made
                     /\ host[k].answered => host'[k].answered
  BY <1>1
<1>4. Busy' <=> Busy
  BY DEF Busy
<1>5. QED
  BY <1>2, <1>3, <1>4, StillHears

LEMMA SameHears ==
    ASSUME Coming, TellsAll, lost' = lost, late' = late, call' = call, host' = host
    PROVE  Coming'
<1>1. Busy' => Busy
  BY DEF Busy
<1>2. QED
  BY <1>1, StillHears

-----------------------------------------------------------------------------
(* Every step keeps what is to be heard: the core *)

LEMMA CoreRingsHears ==
    ASSUME OwedInv, Coming, CoreRings
    PROVE  Coming'
<1>1. PICK m \in Ids : m = NextId
  BY NextIdIs DEF CoreRings
<1>2. PICK c : c = [state |-> "alerting", incoming |-> TRUE, device |-> "none"]
  OBVIOUS
<1>3. PICK e : e = [kind |-> "IncomingCall", msg |-> m, here |-> FALSE]
  OBVIOUS
<1>4. c.state = "alerting" /\ c.device = "none" /\ e \in Event /\ e.msg = m
  BY <1>2, <1>3 DEF Event
<1>5. core' = [core EXCEPT ![m] = c] /\ events' = Append(events, e)
  BY <1>1, <1>2, <1>3 DEF CoreRings, Tell
<1>6. call' = call /\ host' = host /\ late' = late /\ lost' = lost
  BY DEF CoreRings, appVars, ghostVars
<1>7. TellsAll
  BY <1>4, <1>5, <1>6, NewlyTold, OwedParts
<1>8. QED
  BY <1>6, <1>7, SameHears

LEMMA CoreTakenHears ==
    ASSUME OwedInv, Coming, NEW m \in Ids, CoreTaken(m)
    PROVE  Coming'
<1>1. PICK c : c = [core[m] EXCEPT !.state = "active", !.device = "elsewhere"]
  OBVIOUS
<1>2. PICK e : e = [kind |-> "IncomingCallAccepted", msg |-> m, here |-> FALSE]
  OBVIOUS
<1>3. c.state = "active" /\ c.device = "elsewhere" /\ c.incoming
  BY <1>1, OwedParts DEF CoreTaken, CoreTypes, CoreCall
<1>4. e \in Event /\ e.msg = m /\ EndsIt(e, m)
  BY <1>2 DEF Event, EndsIt
<1>5. core' = [core EXCEPT ![m] = c] /\ events' = Append(events, e)
  BY <1>1, <1>2, OwedParts DEF CoreTaken, Tell, CoreTypes
<1>6. call' = call /\ host' = host /\ late' = late /\ lost' = lost
  BY DEF CoreTaken, appVars, ghostVars
<1>7. TellsAll
  BY <1>3, <1>4, <1>5, <1>6, NewlyTold, OwedParts
<1>8. QED
  BY <1>6, <1>7, SameHears

LEMMA CoreAnsweredHears ==
    ASSUME OwedInv, Coming, NEW m \in Ids, CoreAnswered(m)
    PROVE  Coming'
<1>1. PICK c : c = [core[m] EXCEPT !.state = "active", !.device = "here"]
  OBVIOUS
<1>2. PICK e : e = [kind |-> "OutgoingCallAccepted", msg |-> m, here |-> TRUE]
  OBVIOUS
<1>3. c.state = "active" /\ c.device = "here"
  BY <1>1, OwedParts DEF CoreAnswered, CoreTypes, CoreCall
<1>4. e \in Event /\ e.msg = m /\ AnswersIt(e, m)
  BY <1>2 DEF Event, AnswersIt
<1>5. core' = [core EXCEPT ![m] = c] /\ events' = Append(events, e)
  BY <1>1, <1>2, OwedParts DEF CoreAnswered, Tell, CoreTypes
<1>6. call' = call /\ host' = host /\ late' = late /\ lost' = lost
  BY DEF CoreAnswered, appVars, ghostVars
<1>7. TellsAll
  BY <1>3, <1>4, <1>5, <1>6, NewlyTold, OwedParts
<1>8. QED
  BY <1>6, <1>7, SameHears

\* The core ends m, if it is not over.
LEMMA OverTold ==
    ASSUME OwedInv, Coming, NEW m \in Ids, Over(m), call' = call
    PROVE  TellsAll
<1>1. CASE core[m].state \in {"alerting", "active"}
  <2>1. PICK c : c = [core[m] EXCEPT !.state = "ended"]
    OBVIOUS
  <2>2. PICK e : e = [kind |-> "CallEnded", msg |-> m, here |-> FALSE]
    OBVIOUS
  <2>3. c.state = "ended"
    BY <2>1, OwedParts DEF CoreTypes, CoreCall
  <2>4. e \in Event /\ e.msg = m /\ EndsIt(e, m)
    BY <2>2 DEF Event, EndsIt
  <2>5. core' = [core EXCEPT ![m] = c] /\ events' = Append(events, e)
    BY <1>1, <2>1, <2>2, OwedParts DEF Over, Tell, CoreTypes
  <2>6. QED
    BY <2>3, <2>4, <2>5, NewlyTold, OwedParts
<1>2. CASE core[m].state \notin {"alerting", "active"}
  BY <1>2, SameTold DEF Over, coreVars
<1>3. QED
  BY <1>1, <1>2

LEMMA CoreEndsHears ==
    ASSUME OwedInv, Coming, NEW m \in Ids, CoreEnds(m)
    PROVE  Coming'
<1>1. call' = call /\ host' = host /\ late' = late /\ lost' = lost /\ Over(m)
  BY DEF CoreEnds, appVars, ghostVars
<1>2. QED
  BY <1>1, OverTold, SameHears

LEMMA CoreLosesEventsHears ==
    ASSUME Coming, CoreLosesEvents
    PROVE  Coming'
<1>1. events' = <<>> /\ lost' /\ core' = core
  BY DEF CoreLosesEvents
<1>2. Somewhere' /\ HearsAll'
  BY <1>1 DEF Coming, Somewhere, HearsAll
<1>3. DOMAIN events' = {}
  BY <1>1, NoEntries
<1>4. EndFollows'
  BY <1>3 DEF EndFollows
<1>5. QED
  BY <1>2, <1>4 DEF Coming

LEMMA CoreDeclinesHears ==
    ASSUME OwedInv, Coming, NEW t \in tasks, NEW ok \in BOOLEAN, CoreDeclines(t, ok)
    PROVE  Coming'
<1>1. call' = call /\ host' = host /\ late' = late /\ lost' = lost
  BY DEF CoreDeclines
<1>2. PICK m \in Ids : m = t.msg
  BY OwedParts
<1>3. CASE ok
  <2>1. Over(m)
    BY <1>2, <1>3 DEF CoreDeclines
  <2>2. QED
    BY <1>1, <2>1, OverTold, SameHears
<1>4. CASE ~ok
  <2>1. UNCHANGED coreVars
    BY <1>4 DEF CoreDeclines
  <2>2. QED
    BY <1>1, <2>1, SameTold, SameHears DEF coreVars
<1>5. QED
  BY <1>3, <1>4

LEMMA CoreSaysHears ==
    ASSUME Coming, NEW t \in tasks, NEW found, CoreSays(t, found)
    PROVE  Coming'
<1>1. UNCHANGED coreVars /\ call' = call /\ host' = host /\ late' = late /\ lost' = lost
  BY DEF CoreSays, ghostVars
<1>2. QED
  BY <1>1, SameTold, SameHears DEF coreVars

-----------------------------------------------------------------------------
(* Every step keeps what is to be heard: the hosts *)

\* One host goes on, and the core as it is.
LEMMA QuietHostHears ==
    ASSUME OwedInv, Coming, UNCHANGED coreVars, lost' = lost, late' = late, call' = call,
           NEW n \in Nums, NEW h, host' = [host EXCEPT ![n] = h],
           h.made = host[n].made, host[n].answered => h.answered
    PROVE  Coming'
<1>1. TellsAll
  BY SameTold DEF coreVars
<1>2. QED
  BY <1>1, HostHears, OwedParts

\* The host has a new call, which rings at the other end.
LEMMA CorePlacesHears ==
    ASSUME OwedInv, Coming, NEW n \in Nums, CorePlaces(n)
    PROVE  Coming'
<1>1. PICK m \in Ids : m = NextId /\ core[m].state = "none"
  BY NextIdIs DEF CorePlaces
<1>2. PICK c : c = [state |-> "alerting", incoming |-> FALSE, device |-> "here"]
  OBVIOUS
<1>3. c.state = "alerting" /\ c.device = "here"
  BY <1>2
<1>4. core' = [core EXCEPT ![m] = c] /\ events' = events /\ call' = call /\ late' = late
      /\ lost' = lost
  BY <1>1, <1>2 DEF CorePlaces
<1>5. TellsAll
  BY <1>3, <1>4, PlacedTold, OwedParts
<1>6. core'[m] = c
  BY <1>4, OwedParts DEF CoreTypes
<1>7. Hears(m)'
  BY <1>3, <1>6 DEF Hears, OverIn, AnsweredOut
<1>8. PICK g \in Host : g = host[n]
  BY OwedParts
<1>9. PICK h : h = [g EXCEPT !.place = "made", !.made = m]
  OBVIOUS
<1>10. h.made = m /\ h.answered = g.answered
  BY <1>8, <1>9 DEF Host
<1>11. \A k \in Nums : host'[k] = IF k = n THEN h ELSE host[k]
  BY <1>1, <1>8, <1>9, OwedParts DEF CorePlaces, AppTypes
<1>12. ASSUME ~lost', Busy', NEW k \in Ids, Meant(k)'
       PROVE  Hears(k)'
  <2>1. Busy /\ ~lost /\ call.num \in Nums
    BY <1>4, <1>12, BusyNum, OwedParts DEF Busy
  <2>2. CASE k = m
    BY <1>7, <2>2
  <2>3. CASE k # m
    <3>1. Meant(k)
      BY <1>4, <1>10, <1>11, <1>12, <2>1, <2>3 DEF Meant
    <3>2. Hears(k)
      BY <2>1, <3>1 DEF Coming, HearsAll
    <3>3. host[call.num].answered => host'[call'.num].answered
      BY <1>4, <1>8, <1>10, <1>11, <2>1
    <3>4. QED
      BY <1>5, <3>2, <3>3 DEF Hears, TellsAll, News
  <2>4. QED
    BY <2>2, <2>3
<1>13. QED
  BY <1>5, <1>12 DEF Coming, TellsAll, HearsAll

LEMMA CoreRefusesHears ==
    ASSUME OwedInv, Coming, NEW n \in Nums, CoreRefuses(n)
    PROVE  Coming'
<1>1. PICK h : h = [host[n] EXCEPT !.place = "done"]
  OBVIOUS
<1>2. h.made = host[n].made /\ h.answered = host[n].answered
  BY <1>1, OwedParts DEF Host
<1>3. UNCHANGED coreVars /\ lost' = lost /\ late' = late /\ call' = call
      /\ host' = [host EXCEPT ![n] = h]
  BY <1>1, OwedParts DEF CoreRefuses, AppTypes
<1>4. QED
  BY <1>2, <1>3, QuietHostHears

LEMMA CoreAcceptsHears ==
    ASSUME OwedInv, Coming, NEW n \in Nums, NEW ok \in BOOLEAN, NEW done \in BOOLEAN,
           CoreAccepts(n, ok, done)
    PROVE  Coming'
<1>1. PICK h : h = [host[n] EXCEPT !.accept = "done"]
  OBVIOUS
<1>2. h.made = host[n].made /\ h.answered = host[n].answered
  BY <1>1, OwedParts DEF Host
<1>3. lost' = lost /\ late' = late /\ call' = call /\ host' = [host EXCEPT ![n] = h]
  BY <1>1, OwedParts DEF CoreAccepts, AppTypes, ghostVars
<1>4. PICK m : m = host[n].msg
  OBVIOUS
<1>5. CASE done /\ core[m].state = "alerting"
  <2>1. m \in Ids /\ core[m].incoming
    <3>1. host[n].accept = "asked" /\ HostFits(host[n]) /\ HostWay(host[n])
      BY OwedParts DEF CoreAccepts
    <3>2. m \in Ids /\ m \in begun
      BY <1>4, <3>1 DEF HostFits, HostWay
    <3>3. QED
      BY <3>2, OwedParts DEF DueInv, Ways, BegunWay, CameIn
  <2>2. PICK c : c = [core[m] EXCEPT !.state = "active", !.device = "here"]
    OBVIOUS
  <2>3. PICK e : e = [kind |-> "IncomingCallAccepted", msg |-> m, here |-> TRUE]
    OBVIOUS
  <2>4. c.state = "active" /\ c.device = "here" /\ c.incoming
    BY <2>1, <2>2, OwedParts DEF CoreTypes, CoreCall
  <2>5. e \in Event /\ e.msg = m
    BY <2>1, <2>3 DEF Event
  <2>6. core' = [core EXCEPT ![m] = c] /\ events' = Append(events, e)
    BY <1>4, <1>5, <2>1, <2>2, <2>3, OwedParts DEF CoreAccepts, Tell, CoreTypes
  <2>7. TellsAll
    BY <1>3, <2>1, <2>4, <2>5, <2>6, NewlyTold, OwedParts
  <2>8. QED
    BY <1>2, <1>3, <2>7, HostHears, OwedParts
<1>6. CASE ~(done /\ core[m].state = "alerting")
  <2>1. UNCHANGED coreVars
    BY <1>4, <1>6 DEF CoreAccepts
  <2>2. QED
    BY <1>2, <1>3, <2>1, QuietHostHears
<1>7. QED
  BY <1>5, <1>6

\* Shared::end is through.
LEMMA EndedSame ==
    ASSUME NEW h \in Host, NEW who \in {"place", "page", "drop"}
    PROVE  Ended(h, who).made = h.made /\ Ended(h, who).answered = h.answered
BY DEF Ended, Host

LEMMA CoreEndsCallHears ==
    ASSUME OwedInv, Coming, NEW n \in Nums, NEW ok \in BOOLEAN, CoreEndsCall(n, ok)
    PROVE  Coming'
<1>1. PICK g \in Host : g = host[n] /\ HostFits(g)
  BY OwedParts
<1>2. PICK who : who = g.ending_call
  OBVIOUS
<1>3. who \in {"place", "page", "drop"} /\ g.msg \in Ids
  BY <1>1, <1>2 DEF CoreEndsCall, Host, HostFits
<1>4. PICK h : h = Ended(g, who)
  OBVIOUS
<1>5. h.made = g.made /\ h.answered = g.answered
  BY <1>3, <1>4, EndedSame
<1>6. lost' = lost /\ late' = late /\ call' = call /\ host' = [host EXCEPT ![n] = h]
  BY <1>1, <1>2, <1>4, OwedParts DEF CoreEndsCall, AppTypes
<1>7. CASE ok
  <2>1. PICK m \in Ids : m = g.msg
    BY <1>3
  <2>2. Over(m)
    BY <1>1, <1>7, <2>1 DEF CoreEndsCall
  <2>3. TellsAll
    BY <1>6, <2>2, OverTold
  <2>4. QED
    BY <1>1, <1>5, <1>6, <2>3, HostHears, OwedParts
<1>8. CASE ~ok
  <2>1. UNCHANGED coreVars
    BY <1>8 DEF CoreEndsCall
  <2>2. QED
    BY <1>1, <1>5, <1>6, <2>1, QuietHostHears
<1>9. QED
  BY <1>7, <1>8

LEMMA HostStartsHears ==
    ASSUME OwedInv, Coming, NEW n \in Nums, NEW ok \in BOOLEAN, HostStarts(n, ok)
    PROVE  Coming'
<1>1. PICK h : h = [host[n] EXCEPT !.stage = IF ok THEN "started" ELSE "failed"]
  OBVIOUS
<1>2. h.made = host[n].made /\ h.answered = host[n].answered
  BY <1>1, OwedParts DEF Host
<1>3. UNCHANGED coreVars /\ lost' = lost /\ late' = late /\ call' = call
      /\ host' = [host EXCEPT ![n] = h]
  BY <1>1, OwedParts DEF HostStarts, ghostVars, AppTypes
<1>4. QED
  BY <1>2, <1>3, QuietHostHears

LEMMA PagePlacesHears ==
    ASSUME OwedInv, Coming, NEW n \in Nums, PagePlaces(n)
    PROVE  Coming'
<1>1. PICK h : h = [host[n] EXCEPT !.place = "asked"]
  OBVIOUS
<1>2. h.made = host[n].made /\ h.answered = host[n].answered
  BY <1>1, OwedParts DEF Host
<1>3. UNCHANGED coreVars /\ lost' = lost /\ late' = late /\ call' = call
      /\ host' = [host EXCEPT ![n] = h]
  BY <1>1, OwedParts DEF PagePlaces, ghostVars, AppTypes
<1>4. QED
  BY <1>2, <1>3, QuietHostHears

LEMMA PlaceAnsweredHears ==
    ASSUME OwedInv, Coming, NEW n \in Nums, PlaceAnswered(n)
    PROVE  Coming'
<1>1. PICK h : h = [host[n] EXCEPT !.msg = host[n].made, !.place = "stored"]
  OBVIOUS
<1>2. h.made = host[n].made /\ h.answered = host[n].answered
  BY <1>1, OwedParts DEF Host
<1>3. UNCHANGED coreVars /\ lost' = lost /\ late' = late /\ call' = call
      /\ host' = [host EXCEPT ![n] = h]
  BY <1>1, OwedParts DEF PlaceAnswered, ghostVars, AppTypes
<1>4. QED
  BY <1>2, <1>3, QuietHostHears

LEMMA PlaceChecksHears ==
    ASSUME OwedInv, Coming, NEW n \in Nums, PlaceChecks(n)
    PROVE  Coming'
<1>1. PICK h : h = [host[n] EXCEPT !.place = IF host[n].ending THEN "ending" ELSE "done"]
  OBVIOUS
<1>2. h.made = host[n].made /\ h.answered = host[n].answered
  BY <1>1, OwedParts DEF Host
<1>3. UNCHANGED coreVars /\ lost' = lost /\ late' = late /\ call' = call
      /\ host' = [host EXCEPT ![n] = h]
  BY <1>1, OwedParts DEF PlaceChecks, ghostVars, AppTypes
<1>4. QED
  BY <1>2, <1>3, QuietHostHears

LEMMA PageAcceptsHears ==
    ASSUME OwedInv, Coming, NEW n \in Nums, PageAccepts(n)
    PROVE  Coming'
<1>1. PICK h : h = [host[n] EXCEPT !.accept = "asked"]
  OBVIOUS
<1>2. h.made = host[n].made /\ h.answered = host[n].answered
  BY <1>1, OwedParts DEF Host
<1>3. UNCHANGED coreVars /\ lost' = lost /\ late' = late /\ call' = call
      /\ host' = [host EXCEPT ![n] = h]
  BY <1>1, OwedParts DEF PageAccepts, ghostVars, AppTypes
<1>4. QED
  BY <1>2, <1>3, QuietHostHears

LEMMA PageEndsHears ==
    ASSUME OwedInv, Coming, NEW n \in Nums, PageEnds(n)
    PROVE  Coming'
<1>1. PICK h : h = [host[n] EXCEPT !.page = "ending", !.ending = TRUE]
  OBVIOUS
<1>2. h.made = host[n].made /\ h.answered = host[n].answered
  BY <1>1, OwedParts DEF Host
<1>3. UNCHANGED coreVars /\ lost' = lost /\ late' = late /\ call' = call
      /\ host' = [host EXCEPT ![n] = h]
  BY <1>1, OwedParts DEF PageEnds, ghostVars, AppTypes
<1>4. QED
  BY <1>2, <1>3, QuietHostHears

LEMMA PageConnectsHears ==
    ASSUME Coming, NEW n \in Nums, NEW kind, PageConnects(n, kind)
    PROVE  Coming'
<1>1. UNCHANGED coreVars /\ call' = call /\ host' = host /\ late' = late /\ lost' = lost
  BY DEF PageConnects, ghostVars
<1>2. QED
  BY <1>1, SameTold, SameHears DEF coreVars

LEMMA EndBeginsHears ==
    ASSUME OwedInv, Coming, NEW n \in Nums, NEW who \in {"place", "page", "drop"},
           EndBegins(n, who)
    PROVE  Coming'
<1>1. PICK g \in Host : g = host[n]
  BY OwedParts
<1>2. PICK h : h = IF g.msg = 0 \/ g.ended THEN Ended(g, who) ELSE Ending(g, who)
  OBVIOUS
<1>3. h.made = g.made /\ h.answered = g.answered
  <2>1. Ending(g, who).made = g.made /\ Ending(g, who).answered = g.answered
    BY DEF Ending, Host
  <2>2. QED
    BY <1>2, <2>1, EndedSame
<1>4. UNCHANGED coreVars /\ lost' = lost /\ late' = late /\ call' = call
      /\ host' = [host EXCEPT ![n] = h]
  BY <1>1, <1>2, OwedParts DEF EndBegins, AppTypes, Ending
<1>5. QED
  BY <1>1, <1>3, <1>4, QuietHostHears

LEMMA HostLandsHears ==
    ASSUME OwedInv, Coming, NEW n \in Nums, HostLands(n)
    PROVE  Coming'
<1>1. PICK g \in Host : g = host[n] /\ HostFits(g) /\ g.stage \in {"started", "failed"}
  BY OwedParts DEF HostLands
<1>2. IsLanded(n)
  BY LandedIs, OwedParts
<1>3. PICK h : h = host'[n]
  OBVIOUS
<1>4. \A k \in Nums : host'[k] = IF k = n THEN h ELSE host[k]
  BY <1>2, <1>3 DEF IsLanded
<1>5. ~g.answered
  BY <1>1 DEF HostFits, Untouched
<1>6. h.made = g.made
  <2>1. CASE g.stage = "started" /\ Current(n)
    <3>1. h = [g EXCEPT !.stage = "held"]
      BY <1>1, <1>2, <1>3, <2>1 DEF IsLanded
    <3>2. QED
      BY <1>1, <2>1, <3>1, HeldHostIs
  <2>2. CASE g.stage = "started" /\ ~Current(n)
    <3>1. h = LateHost(g)
      BY <1>1, <1>2, <1>3, <2>2 DEF IsLanded, LateHost
    <3>2. QED
      BY <1>1, <2>2, <3>1, LateHostIs
  <2>3. CASE g.stage = "failed"
    <3>1. h = FailedHost(g)
      BY <1>1, <1>2, <1>3, <2>3 DEF IsLanded
    <3>2. QED
      BY <1>1, <2>3, <3>1, FailedHostIs
  <2>4. QED
    BY <1>1, <2>1, <2>2, <2>3
<1>7. /\ call'.num = call.num /\ call'.msg = call.msg /\ call'.incoming = call.incoming
      /\ call'.early = call.early /\ (Busy' => Busy)
  <2>1. CASE call' = call
    BY <2>1 DEF Busy
  <2>2. CASE call' = [call EXCEPT !.state = "ended", !.reason = call'.reason]
    BY <2>2, OwedParts DEF AppTypes, Call, Busy, BusyIn
  <2>3. QED
    BY <1>2, <2>1, <2>2 DEF IsLanded
<1>8. UNCHANGED coreVars /\ lost' = lost /\ late' = late
  BY DEF HostLands
<1>9. TellsAll
  BY <1>7, <1>8, SameTold DEF coreVars
<1>10. ASSUME Busy
       PROVE  /\ host'[call.num].made = host[call.num].made
              /\ host[call.num].answered => host'[call.num].answered
  <2>1. call.num \in Nums
    BY <1>10, BusyNum, OwedParts
  <2>2. QED
    BY <1>1, <1>4, <1>5, <1>6, <2>1
<1>11. QED
  BY <1>7, <1>8, <1>9, <1>10, StillHears

-----------------------------------------------------------------------------
(* Every step keeps what is to be heard: the Qt thread *)

LEMMA StillFollows ==
    ASSUME Coming, UNCHANGED coreVars
    PROVE  Somewhere' /\ EndFollows'
BY DEF Coming, coreVars, Somewhere, EndFollows, OverIn

\* The app's call is over.
LEMMA ClosedHears ==
    ASSUME OwedInv, Coming, UNCHANGED coreVars, NEW h, IsClosed(h)
    PROVE  Coming'
<1>1. ~Busy'
  BY OwedParts DEF IsClosed, AppTypes, Call, Busy, BusyIn
<1>2. QED
  BY <1>1, StillFollows DEF Coming, HearsAll

LEMMA PlaceHears ==
    ASSUME OwedInv, Coming, Place
    PROVE  Coming'
<1>1. IsPlaced
  BY PlacedIs, OwedParts
<1>2. PICK n : n = call.num + 1
  OBVIOUS
<1>3. n \in Nums
  <2>1. call.num \in 0..MaxCalls /\ call.num < MaxCalls
    BY <1>1, OwedParts DEF IsPlaced, AppTypes, Call
  <2>2. QED
    BY <1>2, <2>1, NextNum
<1>4. host'[n] = ServedHost(0) /\ call'.num = n /\ call'.msg = 0 /\ ~call'.incoming
      /\ call'.state = "starting"
  BY <1>1, <1>2, <1>3, OwedParts DEF IsPlaced, AppTypes
<1>5. 0 \in Msg
  BY DEF Msg
<1>6. host'[n].made = 0
  BY <1>4, <1>5, ServedHostIs
<1>7. \A m \in Ids : ~Meant(m)'
  BY <1>4, <1>6, NumsNat DEF Meant, Unnamed, BusyIn
<1>8. UNCHANGED coreVars
  BY DEF Place
<1>9. QED
  BY <1>7, <1>8, StillFollows DEF Coming, HearsAll

LEMMA AnswerHears ==
    ASSUME OwedInv, Coming, Answer
    PROVE  Coming'
<1>1. IsAccepted
  BY AcceptedIs, OwedParts
<1>2. PICK n \in Nums : n = call.num
  BY <1>1 DEF IsAccepted
<1>3. PICK m \in Ids : m = call.msg
  BY <1>1, OwedParts DEF IsAccepted, World, CallFits
<1>4. host[n] = NoHost
  BY <1>1, <1>2, OwedParts DEF IsAccepted, World, CallFits
<1>5. host'[n] = ServedHost(m)
  BY <1>1, <1>2, <1>3, OwedParts DEF IsAccepted, AppTypes
<1>6. host'[n].made = 0
  <2>1. m \in Msg
    BY DEF Msg
  <2>2. QED
    BY <1>5, <2>1, ServedHostIs
<1>7. host[n].made = 0 /\ ~host[n].answered
  BY <1>4 DEF NoHost
<1>8. /\ call'.num = call.num /\ call'.msg = call.msg /\ call'.incoming = call.incoming
      /\ call'.early = call.early /\ Busy
  BY <1>1, OwedParts DEF IsAccepted, AppTypes, Call, Busy, BusyIn
<1>9. UNCHANGED coreVars /\ lost' = lost /\ late' = late
  BY DEF Answer
<1>10. TellsAll
  BY <1>8, <1>9, SameTold DEF coreVars
<1>11. QED
  BY <1>2, <1>6, <1>7, <1>8, <1>9, <1>10, StillHears

LEMMA PickUpHears ==
    ASSUME OwedInv, Coming, NEW m \in Ids, PickUp(m)
    PROVE  Coming'
<1>1. PICK t : t = NewTask("pick", 0, m)
  OBVIOUS
<1>2. t \in Task
  <2>1. 0 \in 0..MaxCalls
    BY NumsNat
  <2>2. QED
    BY <1>1, <2>1, WhyTask
<1>3. PICK o : o = Started(Now, t)
  OBVIOUS
<1>4. o \in State /\ o.call = call /\ o.host = host
  BY <1>2, <1>3, StartedIs, NowIsState, OwedParts
<1>5. Becomes(o)
  BY <1>1, <1>3 DEF PickUp
<1>6. call' = call /\ host' = host
  BY <1>4, <1>5, BecomesIs
<1>7. UNCHANGED coreVars /\ lost' = lost /\ late' = late
  BY DEF PickUp, ghostVars
<1>8. QED
  BY <1>6, <1>7, SameTold, SameHears DEF coreVars

\* The app rings for m: what there is to say of it is still to come.
LEMMA RingHears ==
    ASSUME OwedInv, NEW m \in Ids, IsRinging(m), CameIn(m), core' = core, TakenUp,
           Somewhere', EndFollows'
    PROVE  Coming'
<1>1. /\ call'.num # call.num /\ call'.msg = m /\ call'.incoming /\ ~Unnamed(call')
  <2>1. PICK c \in 0..MaxCalls : c = call.num
    BY OwedParts DEF AppTypes, Call
  <2>2. c + 1 # c
    BY <2>1
  <2>3. call'.num = c + 1
    BY <2>1 DEF IsRinging
  <2>4. QED
    BY <2>1, <2>2, <2>3 DEF IsRinging, Unnamed
<1>2. m \notin late' => ~Past(m)'
  BY <1>1 DEF TakenUp
<1>3. ASSUME NEW k \in Ids, Meant(k)'
      PROVE  Hears(k)'
  <2>1. k = m /\ ~Past(m)'
    BY <1>1, <1>2, <1>3 DEF Meant
  <2>2. ~AnsweredOut(k)'
    BY <2>1 DEF AnsweredOut, WentOut, CameIn
  <2>3. ASSUME OverIn(m)' PROVE EndComes(m)'
    <3>1. core'[m].state # "alerting"
      BY <2>3, OwedParts DEF OverIn, CoreTruth
    <3>2. PICK i \in DOMAIN events' : events'[i].msg = m /\ events'[i].kind # "IncomingCall"
      BY <2>1, <3>1 DEF Past
    <3>3. \E j \in DOMAIN events' : i <= j /\ EndsIt(events'[j], m)
      BY <2>3, <3>2 DEF EndFollows, OverIn
    <3>4. QED
      BY <3>3 DEF EndComes
  <2>4. QED
    BY <2>1, <2>2, <2>3 DEF Hears
<1>4. QED
  BY <1>3 DEF Coming, HearsAll

LEMMA PickUpLandsHears ==
    ASSUME OwedInv, Coming, NEW t \in tasks, PickUpLands(t)
    PROVE  Coming'
<1>1. PICK m \in Ids : m = t.msg
  BY OwedParts
<1>2. UNCHANGED coreVars /\ core' = core /\ lost' = lost /\ TakenUp /\ t.kind = "pick"
  BY DEF PickUpLands, coreVars
<1>3. CASE UNCHANGED <<call, host>>
  <2>1. late' = late
    BY <1>2, <1>3, OwedParts DEF TakenUp, GhostTypes
  <2>2. QED
    BY <1>2, <1>3, <2>1, SameTold, SameHears DEF coreVars
<1>4. CASE IsRinging(m)
  <2>1. CameIn(m)
    BY <1>1, <1>2, OwedParts, DueParts DEF TaskWay
  <2>2. QED
    BY <1>2, <1>4, <2>1, StillFollows, RingHears
<1>5. QED
  BY <1>1, <1>3, <1>4, PickedUpIs, OwedParts

LEMMA HangUpHears ==
    ASSUME OwedInv, Coming, HangUp
    PROVE  Coming'
<1>1. IsHungUp
  BY HungUpIs, OwedParts
<1>2. PICK h : h = host[call.num] /\ IsClosed(h)
  BY <1>1 DEF IsHungUp
<1>3. UNCHANGED coreVars
  BY DEF HangUp
<1>4. QED
  BY <1>2, <1>3, ClosedHears

LEMMA ResetHears ==
    ASSUME OwedInv, Coming, Reset
    PROVE  Coming'
<1>1. ~Busy'
  BY ResetTypes, OwedParts
<1>2. UNCHANGED coreVars
  BY DEF Reset
<1>3. QED
  BY <1>1, <1>2, StillFollows DEF Coming, HearsAll

LEMMA RingLimitHears ==
    ASSUME OwedInv, Coming, NEW t \in tasks, RingLimit(t)
    PROVE  Coming'
<1>1. UNCHANGED coreVars /\ lost' = lost /\ late' = late
  BY DEF RingLimit, ghostVars
<1>2. CASE UNCHANGED <<call, host>>
  BY <1>1, <1>2, SameTold, SameHears DEF coreVars
<1>3. CASE IsClosed(host[call.num])
  <2>1. PICK h : h = host[call.num] /\ IsClosed(h)
    BY <1>3
  <2>2. QED
    BY <1>1, <2>1, ClosedHears
<1>4. QED
  BY <1>2, <1>3, RingLimitIs, OwedParts

LEMMA WhyLandsHears ==
    ASSUME OwedInv, Coming, NEW t \in tasks, WhyLands(t)
    PROVE  Coming'
<1>1. IsExplained(t)
  BY ExplainedIs, OwedParts
<1>2. /\ call'.num = call.num /\ call'.msg = call.msg /\ call'.incoming = call.incoming
      /\ call'.early = call.early /\ (Busy' => Busy) /\ host' = host
  BY <1>1, OwedParts DEF IsExplained, AppTypes, Call, Busy, BusyIn
<1>3. UNCHANGED coreVars /\ lost' = lost /\ late' = late
  BY DEF WhyLands, ghostVars
<1>4. TellsAll
  BY <1>2, <1>3, SameTold DEF coreVars
<1>5. QED
  BY <1>2, <1>3, <1>4, StillHears

\* The events left, once the first is heard.
LEMMA TailFollows ==
    ASSUME Coming, CoreTypes, core' = core, events # <<>>, events' = Tail(events)
    PROVE  Somewhere' /\ EndFollows'
<1>1. events \in Seq(Event)
  BY DEF CoreTypes
<1>2. Len(events) \in Nat /\ DOMAIN events = 1..Len(events) /\ DOMAIN events' = 1..Len(events) - 1
      /\ \A i \in DOMAIN events' : events'[i] = events[i + 1] /\ i + 1 \in DOMAIN events
  BY <1>1
<1>3. ASSUME NEW i \in DOMAIN events', events'[i].kind # "IncomingCall",
             OverIn(events'[i].msg)
      PROVE  \E j \in DOMAIN events' : i <= j /\ EndsIt(events'[j], events'[i].msg)
  <2>1. PICK k \in DOMAIN events : i + 1 <= k /\ EndsIt(events[k], events'[i].msg)
    BY <1>2, <1>3 DEF Coming, EndFollows
  <2>2. k - 1 \in DOMAIN events' /\ i <= k - 1 /\ (k - 1) + 1 = k
    BY <1>2, <1>3, <2>1
  <2>3. events'[k - 1] = events[k]
    BY <1>2, <2>2
  <2>4. QED
    BY <2>1, <2>2, <2>3
<1>4. EndFollows'
  BY <1>3 DEF EndFollows, OverIn
<1>5. Somewhere'
  BY DEF Coming, Somewhere
<1>6. QED
  BY <1>4, <1>5

\* What came before, still comes, or is the event that was heard.
LEMMA TailComes ==
    ASSUME CoreTypes, AppTypes, events # <<>>, events' = Tail(events), NEW e, e = Head(events),
           call'.early \in {call.early, Append(call.early, e)}, NEW m
    PROVE  /\ EndComes(m) => EndComes(m)' \/ (call'.early = call.early /\ EndsIt(e, m))
           /\ AnswerComes(m) => AnswerComes(m)' \/ (call'.early = call.early /\ AnswersIt(e, m))
<1>1. events \in Seq(Event) /\ call.early \in Seq(Event)
  BY DEF CoreTypes, AppTypes, Call
<1>2. Len(events) \in Nat /\ DOMAIN events = 1..Len(events) /\ DOMAIN events' = 1..Len(events) - 1
      /\ \A i \in DOMAIN events' : events'[i] = events[i + 1]
  BY <1>1
<1>3. e = events[1]
  BY <1>1
<1>4. \A i \in DOMAIN events : events[i] = e \/ \E j \in DOMAIN events' : events'[j] = events[i]
  <2>1. ASSUME NEW i \in DOMAIN events, i # 1
        PROVE  \E j \in DOMAIN events' : events'[j] = events[i]
    <3>1. i - 1 \in DOMAIN events' /\ (i - 1) + 1 = i
      BY <1>2, <2>1
    <3>2. QED
      BY <1>2, <3>1
  <2>2. QED
    BY <1>3, <2>1
<1>5. /\ \A i \in DOMAIN call.early : i \in DOMAIN call'.early /\ call'.early[i] = call.early[i]
      /\ call'.early # call.early => \E i \in DOMAIN call'.early : call'.early[i] = e
  <2>1. CASE call'.early = Append(call.early, e)
    <3>1. PICK k \in Nat : k = Len(call.early) + 1
      BY <1>1
    <3>2. k \in DOMAIN call'.early /\ call'.early[k] = e
      BY <1>1, <2>1, <3>1
    <3>3. \A i \in DOMAIN call.early : i \in DOMAIN call'.early /\ call'.early[i] = call.early[i]
      BY <1>1, <2>1
    <3>4. QED
      BY <3>2, <3>3
  <2>2. QED
    BY <2>1
<1>6. ASSUME EndComes(m) PROVE EndComes(m)' \/ (call'.early = call.early /\ EndsIt(e, m))
  <2>1. CASE \E i \in DOMAIN events : EndsIt(events[i], m)
    BY <1>4, <1>5, <2>1 DEF EndComes
  <2>2. CASE \E i \in DOMAIN call.early : EndsIt(call.early[i], m)
    BY <1>5, <2>2 DEF EndComes
  <2>3. QED
    BY <1>6, <2>1, <2>2 DEF EndComes
<1>7. ASSUME AnswerComes(m)
      PROVE  AnswerComes(m)' \/ (call'.early = call.early /\ AnswersIt(e, m))
  <2>1. CASE \E i \in DOMAIN events : AnswersIt(events[i], m)
    BY <1>4, <1>5, <2>1 DEF AnswerComes
  <2>2. CASE \E i \in DOMAIN call.early : AnswersIt(call.early[i], m)
    BY <1>5, <2>2 DEF AnswerComes
  <2>3. QED
    BY <1>7, <2>1, <2>2 DEF AnswerComes
<1>8. QED
  BY <1>6, <1>7

\* A call placed, that has its name: its host is up.
LEMMA NamedHeld ==
    ASSUME TypeInv, Busy, call.msg \in Ids, ~call.incoming
    PROVE  call.num \in Nums /\ host[call.num].stage = "held" /\ host[call.num] \in Host
<1>1. PICK n \in Nums : n = call.num /\ n > 0
  BY BusyNum, NumsNat DEF TypeInv, Nums
<1>2. host[n].place = "done" /\ call.state # "ringing"
  BY <1>1, NumsNat DEF TypeInv, World, CallFits
<1>3. host[n].stage \in Running /\ HostFits(host[n]) /\ host[n] \in Host
  BY <1>1, <1>2 DEF TypeInv, TypeOK, World, CallFits, Hosts
<1>4. host[n].stage \in {"held", "dropped"}
  BY <1>2, <1>3 DEF HostFits, Untouched
<1>5. QED
  BY <1>1, <1>3, <1>4 DEF Running

LEMMA HandleEventHears ==
    ASSUME OwedInv, Coming, HandleEvent
    PROVE  Coming'
<1>1. PICK e \in Event : e = Head(events) /\ IsHandled(Now, e, Now')
  BY HandleEventIs, OwedParts
<1>2. /\ Now' \in State /\ events # <<>> /\ events' = Tail(events) /\ core' = core
      /\ TakenUp
  BY HandleEventIs, OwedParts DEF HandleEvent
<1>3. lost' = (lost \/ Overflown(e))
  BY <1>1 DEF HandleEvent
<1>4. Now.call = call /\ Now.host = host /\ Now.tasks = tasks /\ Now \in State
  BY NowIsState, OwedParts
<1>5. Now'.call = call' /\ Now'.host = host' /\ Now'.tasks = tasks'
  BY <1>2, NowNext
<1>6. Somewhere' /\ EndFollows'
  BY <1>2, TailFollows, OwedParts
<1>7. ASSUME call'.num = call.num PROVE late' = late
  BY <1>2, <1>7, OwedParts DEF TakenUp, GhostTypes
<1>8. \A m \in Ids : (OverIn(m)' <=> OverIn(m)) /\ (AnsweredOut(m)' <=> AnsweredOut(m))
  BY <1>2 DEF OverIn, AnsweredOut, WentOut
<1>9. CASE IsKept(Now, e, Now')
  <2>1. /\ call' = [call EXCEPT !.early = call'.early] /\ host' = host /\ Unnamed(call)
        /\ call'.early = IF Len(call.early) < EARLY_EVENTS THEN Append(call.early, e)
                         ELSE call.early
        /\ e.kind # "IncomingCall"
    BY <1>4, <1>5, <1>9 DEF IsKept
  <2>2. /\ call'.num = call.num /\ call'.msg = call.msg /\ call'.incoming = call.incoming
        /\ call'.state = call.state
    BY <2>1, OwedParts DEF AppTypes, Call
  <2>3. Busy /\ (Busy' <=> Busy) /\ late' = late
    BY <1>7, <2>1, <2>2 DEF Unnamed, Busy, BusyIn
  <2>4. ASSUME ~lost', NEW m \in Ids, Meant(m)' PROVE Hears(m)'
    <3>1. ~lost /\ ~Overflown(e)
      BY <1>3, <2>4
    <3>2. Len(call.early) < EARLY_EVENTS
      <4>1. call.early \in Seq(Event) /\ EARLY_EVENTS \in Nat
        BY OwedParts, CallsAssumption DEF AppTypes, Call
      <4>2. ~(Len(call.early) >= EARLY_EVENTS)
        BY <2>1, <3>1 DEF Overflown
      <4>3. QED
        BY <4>1, <4>2
    <3>3. call'.early = Append(call.early, e) /\ call'.early # call.early
      <4>1. call'.early = Append(call.early, e) /\ call.early \in Seq(Event)
        BY <2>1, <3>2, OwedParts DEF AppTypes, Call
      <4>2. Len(call'.early) = Len(call.early) + 1 /\ Len(call.early) \in Nat
        BY <4>1
      <4>3. QED
        BY <4>1, <4>2
    <3>4. Hears(m)
      <4>1. Meant(m)
        BY <2>1, <2>2, <2>3, <2>4, MeantSame
      <4>2. QED
        BY <2>3, <3>1, <4>1 DEF Coming, HearsAll
    <3>5. (EndComes(m) => EndComes(m)') /\ (AnswerComes(m) => AnswerComes(m)')
      BY <1>1, <1>2, <3>3, TailComes, OwedParts
    <3>6. QED
      BY <1>8, <2>1, <2>2, <3>4, <3>5 DEF Hears
  <2>5. QED
    BY <1>6, <2>4 DEF Coming, HearsAll
<1>10. CASE IsAnswered(Now, e, Now')
  <2>1. /\ AnswersIt(e, call.msg) /\ ~call.incoming
        /\ call' = [call EXCEPT !.state = call'.state]
        /\ call'.state = IF call.state = "calling" THEN "connecting" ELSE call.state
        /\ \A k \in Nums : host'[k] = IF k = call.num
                                      THEN [host[k] EXCEPT !.answered = @ \/ host[k].stage = "held"]
                                      ELSE host[k]
    BY <1>4, <1>5, <1>10 DEF IsAnswered
  <2>2. /\ call'.num = call.num /\ call'.msg = call.msg /\ call'.incoming = call.incoming
        /\ call'.early = call.early /\ (Busy' <=> Busy)
    BY <2>1, OwedParts DEF AppTypes, Call, Busy, BusyIn
  <2>3. call.msg \in Ids /\ ~EndsIt(e, call.msg) /\ call.msg # 0
    BY <2>1, NumsNat DEF AnswersIt, EndsIt, Event
  <2>4. ASSUME ~lost', Busy', NEW m \in Ids, Meant(m)' PROVE Hears(m)'
    <3>1. m = call.msg /\ m \notin late /\ Busy /\ ~lost
      BY <1>3, <1>7, <2>2, <2>3, <2>4 DEF Meant, Unnamed
    <3>2. Hears(m)
      BY <2>3, <3>1 DEF Coming, HearsAll, Meant, Unnamed
    <3>3. EndComes(m) => EndComes(m)'
      BY <1>1, <1>2, <2>2, <2>3, <3>1, TailComes, OwedParts
    <3>4. host'[call.num].answered
      <4>1. PICK n \in Nums : n = call.num /\ host[n].stage = "held" /\ host[n] \in Host
        BY <2>1, <2>3, <3>1, NamedHeld, OwedParts
      <4>2. host'[n] = [host[n] EXCEPT !.answered = TRUE]
        BY <2>1, <4>1
      <4>3. host'[n].answered
        BY <4>1, <4>2 DEF Host
      <4>4. QED
        BY <4>1, <4>3
    <3>5. QED
      BY <1>8, <2>2, <3>2, <3>3, <3>4 DEF Hears
  <2>5. QED
    BY <1>6, <2>4 DEF Coming, HearsAll
<1>11. CASE IsIgnored(Now, e, Now')
  <2>1. /\ call' = call /\ host' = host
        /\ Busy => ~EndsIt(e, call.msg)
        /\ AnswersIt(e, call.msg) => call.incoming
        /\ Unnamed(call) => e.kind = "IncomingCall"
    BY <1>4, <1>5, <1>11 DEF IsIgnored, Busy
  <2>2. ASSUME ~lost', Busy', NEW m \in Ids, Meant(m)' PROVE Hears(m)'
    <3>1. Meant(m) /\ Busy /\ ~lost
      BY <1>3, <1>7, <2>1, <2>2 DEF Meant, Busy
    <3>2. Hears(m)
      BY <3>1 DEF Coming, HearsAll
    <3>3. ~EndsIt(e, m) /\ (AnswersIt(e, m) => ~AnsweredOut(m))
      <4>1. CASE Unnamed(call)
        BY <2>1, <4>1 DEF EndsIt, AnswersIt
      <4>2. CASE ~Unnamed(call)
        <5>1. m = call.msg
          BY <3>1, <4>2 DEF Meant
        <5>2. call.incoming => CameIn(m)
          BY <5>1, OwedParts, DueParts DEF CallWay, BegunWay
        <5>3. QED
          BY <2>1, <3>1, <5>1, <5>2 DEF AnsweredOut, WentOut, CameIn
      <4>3. QED
        BY <4>1, <4>2
    <3>4. /\ EndComes(m) => EndComes(m)'
          /\ AnswerComes(m) => AnswerComes(m)' \/ AnswersIt(e, m)
      BY <1>1, <1>2, <2>1, <3>3, TailComes, OwedParts
    <3>5. QED
      BY <1>8, <2>1, <3>2, <3>3, <3>4 DEF Hears
  <2>3. QED
    BY <1>6, <2>2 DEF Coming, HearsAll
<1>12. CASE IsEnded(Now, e, Now')
  <2>1. IsClosed(Settled(host[call.num]))
    BY <1>2, <1>12, EndedIsClosed, OwedParts
  <2>2. ~Busy'
    BY <2>1, OwedParts DEF IsClosed, AppTypes, Call, Busy, BusyIn
  <2>3. QED
    BY <1>6, <2>2 DEF Coming, HearsAll
<1>13. CASE IsRung(Now, e, Now')
  <2>1. PICK m \in Ids : m = e.msg /\ IsRinging(m) /\ e.kind = "IncomingCall"
    BY <1>2, <1>13, RungIs, OwedParts
  <2>2. CameIn(m)
    <3>1. e = events[1] /\ 1 \in DOMAIN events
      BY <1>1, <1>2, OwedParts DEF CoreTypes
    <3>2. QED
      BY <2>1, <3>1, OwedParts, DueParts DEF EventWay
  <2>3. QED
    BY <1>2, <1>6, <2>1, <2>2, RingHears
<1>14. QED
  BY <1>1, <1>9, <1>10, <1>11, <1>12, <1>13 DEF IsHandled

LEMMA ReportLandsHears ==
    ASSUME OwedInv, Coming, NEW r \in reports, ReportLands(r)
    PROVE  Coming'
<1>1. UNCHANGED coreVars /\ core' = core /\ events' = events /\ lost' = lost /\ late' = late
  BY DEF ReportLands, ghostVars, coreVars
<1>2. CASE ~Current(r.num)
  <2>1. UNCHANGED <<call, host>>
    BY <1>2, ReportedIs, OwedParts
  <2>2. QED
    BY <1>1, <2>1, SameTold, SameHears
<1>3. CASE Current(r.num)
  <2>1. IsReported(r) /\ Busy
    BY <1>3, ReportedIs, OwedParts DEF Current
  <2>2. PICK n \in Nums : n = r.num /\ n = call.num /\ n > 0
    BY <1>3, <2>1, BusyNum, OwedParts, NumsNat DEF Current, Nums
  <2>3. CASE r.kind = "placed" /\ IsNamed(r)
    <3>1. PICK g \in Host : g = host[n] /\ HostFits(g)
      BY OwedParts
    <3>2. /\ r.msg \in Ids /\ r.msg # 0 /\ r.msg = g.msg /\ g.place = "done" /\ ~call.incoming
      BY <1>3, <2>2, <2>3, <3>1, NamedByPlaced, NumsNat, OwedParts
    <3>3. g.made = r.msg
      BY <3>1, <3>2 DEF HostFits
    <3>4. /\ call'.num = n /\ call'.msg = r.msg /\ call'.early = <<>>
      BY <2>2, <2>3 DEF IsNamed
    <3>5. ASSUME ~lost', Busy', NEW m \in Ids, Meant(m)' PROVE Hears(m)'
      <4>1. m = r.msg /\ m \notin late
        BY <1>1, <3>2, <3>4, <3>5 DEF Meant, Unnamed
      <4>2. Meant(m)
        <5>1. CASE Unnamed(call)
          BY <2>2, <3>1, <3>3, <4>1, <5>1 DEF Meant
        <5>2. CASE ~Unnamed(call)
          <6>1. call.msg # 0
            BY <2>1, <3>2, <5>2 DEF Unnamed, Busy
          <6>2. call.msg = g.msg
            BY <2>2, <3>1, <3>2, <6>1, OwedParts DEF World, CallFits
          <6>3. QED
            BY <3>2, <4>1, <5>2, <6>2 DEF Meant
        <5>3. QED
          BY <5>1, <5>2
      <4>3. Hears(m)
        BY <1>1, <2>1, <3>5, <4>2 DEF Coming, HearsAll
      <4>4. call'.state # "ended"
        BY <3>5 DEF Busy, BusyIn
      <4>5. PICK a \in BOOLEAN :
               /\ g.answered => a
               /\ host'[n] = [g EXCEPT !.answered = a]
               /\ \A i \in DOMAIN call.early : /\ ~EndsIt(call.early[i], r.msg)
                                               /\ AnswersIt(call.early[i], r.msg) => a
        BY <2>2, <2>3, <3>1, <4>4 DEF IsNamed
      <4>6. host'[n].answered = a
        BY <4>5, AnsweredHost
      <4>7. EndComes(m) => EndComes(m)'
        BY <1>1, <4>1, <4>5 DEF EndComes
      <4>8. AnswerComes(m) => AnswerComes(m)' \/ a
        BY <1>1, <4>1, <4>5 DEF AnswerComes
      <4>9. (OverIn(m)' <=> OverIn(m)) /\ (AnsweredOut(m)' <=> AnsweredOut(m))
        BY <1>1 DEF OverIn, AnsweredOut, WentOut
      <4>10. AnsweredOut(m)' => AnswerComes(m)' \/ host'[n].answered
        BY <2>2, <3>1, <4>3, <4>5, <4>6, <4>8, <4>9 DEF Hears
      <4>11. QED
        BY <3>4, <4>3, <4>7, <4>9, <4>10 DEF Hears
    <3>6. QED
      BY <1>1, <3>5, StillFollows DEF Coming, HearsAll
  <2>4. CASE /\ r.kind # "placed" /\ host' = host
             /\ call' = [call EXCEPT !.state = call'.state]
    <3>1. /\ call'.num = call.num /\ call'.msg = call.msg /\ call'.early = call.early
          /\ call'.incoming = call.incoming
      BY <2>4, OwedParts DEF AppTypes, Call
    <3>2. TellsAll
      BY <1>1, <3>1, SameTold
    <3>3. QED
      BY <1>1, <2>1, <2>4, <3>1, <3>2, StillHears
  <2>5. CASE IsClosed(host[call.num])
    <3>1. PICK h : h = host[call.num] /\ IsClosed(h)
      BY <2>5
    <3>2. QED
      BY <1>1, <3>1, ClosedHears
  <2>6. QED
    BY <2>1, <2>3, <2>4, <2>5 DEF IsReported
<1>4. QED
  BY <1>2, <1>3

-----------------------------------------------------------------------------
(* What the app does not know is coming to it *)

LEMMA InitHears ==
    ASSUME Init
    PROVE  Coming
<1>1. DOMAIN events = {}
  BY NoEntries DEF Init
<1>2. ~Busy
  BY DEF Init, NoCall, Busy, BusyIn
<1>3. Somewhere
  BY DEF Init, Somewhere
<1>4. QED
  BY <1>1, <1>2, <1>3 DEF Coming, EndFollows, HearsAll

LEMMA SystemHears ==
    ASSUME OwedInv, Coming, System
    PROVE  Coming'
<1>1. ASSUME NEW n \in Nums, NEW ok \in BOOLEAN, NEW done \in BOOLEAN, CoreAccepts(n, ok, done)
      PROVE  Coming'
  BY <1>1, CoreAcceptsHears
<1>2. ASSUME NEW n \in Nums, NEW ok \in BOOLEAN, CoreEndsCall(n, ok) \/ HostStarts(n, ok)
      PROVE  Coming'
  BY <1>2, CoreEndsCallHears, HostStartsHears
<1>3. ASSUME NEW n \in Nums,
             \/ CorePlaces(n) \/ CoreRefuses(n) \/ HostLands(n) \/ PlaceAnswered(n)
             \/ PlaceChecks(n)
      PROVE  Coming'
  BY <1>3, CorePlacesHears, CoreRefusesHears, HostLandsHears, PlaceAnsweredHears,
     PlaceChecksHears
<1>4. ASSUME NEW n \in Nums, NEW who \in {"place", "page", "drop"}, EndBegins(n, who)
      PROVE  Coming'
  BY <1>4, EndBeginsHears
<1>5. ASSUME NEW t \in tasks, NEW ok \in BOOLEAN, CoreDeclines(t, ok)
      PROVE  Coming'
  BY <1>5, CoreDeclinesHears
<1>6. ASSUME NEW t \in tasks, NEW found \in {"", "Alerting", "Declined", "other"},
             CoreSays(t, found)
      PROVE  Coming'
  BY <1>6, CoreSaysHears
<1>7. ASSUME NEW t \in tasks, PickUpLands(t) \/ RingLimit(t) \/ WhyLands(t)
      PROVE  Coming'
  BY <1>7, PickUpLandsHears, RingLimitHears, WhyLandsHears
<1>8. ASSUME NEW r \in reports, ReportLands(r)
      PROVE  Coming'
  BY <1>8, ReportLandsHears
<1>9. CASE HandleEvent
  BY <1>9, HandleEventHears
<1>10. QED
  BY <1>1, <1>2, <1>3, <1>4, <1>5, <1>6, <1>7, <1>8, <1>9 DEF System

LEMMA OthersHears ==
    ASSUME OwedInv, Coming, Others
    PROVE  Coming'
<1>1. CASE CoreRings \/ CoreLosesEvents
  BY <1>1, CoreRingsHears, CoreLosesEventsHears
<1>2. ASSUME NEW m \in Ids, CoreTaken(m) \/ CoreAnswered(m) \/ CoreEnds(m) \/ PickUp(m)
      PROVE  Coming'
  BY <1>2, CoreTakenHears, CoreAnsweredHears, CoreEndsHears, PickUpHears
<1>3. ASSUME NEW n \in Nums, PagePlaces(n) \/ PageAccepts(n) \/ PageEnds(n)
      PROVE  Coming'
  BY <1>3, PagePlacesHears, PageAcceptsHears, PageEndsHears
<1>4. ASSUME NEW n \in Nums, NEW k \in {"connected", "disconnected", "gave up"},
             PageConnects(n, k)
      PROVE  Coming'
  BY <1>4, PageConnectsHears
<1>5. CASE Place \/ Answer \/ HangUp \/ Reset
  BY <1>5, PlaceHears, AnswerHears, HangUpHears, ResetHears
<1>6. QED
  BY <1>1, <1>2, <1>3, <1>4, <1>5 DEF Others

LEMMA StutterHears ==
    ASSUME Coming, UNCHANGED vars
    PROVE  Coming'
<1>1. UNCHANGED <<core, events, call, host, late, lost>>
  BY DEF vars, coreVars, appVars, ghostVars
<1>2. TellsAll
  BY <1>1, SameTold
<1>3. QED
  BY <1>1, <1>2, SameHears

LEMMA ComingAlways == Spec => []Coming
<1>1. Init => Coming
  BY InitHears
<1>2. OwedInv /\ Coming /\ [Next]_vars => Coming'
  BY SystemHears, OthersHears, StutterHears DEF Next
<1>3. QED
  BY <1>1, <1>2, OwedAlways, PTL DEF Spec

\* A host is held only while its call is the app's.  Once every event and report there is
\* has been handled and none was lost, the app is in no call the core has ended or another
\* device has, knows of the answer to what it placed, and keeps nothing for later: however
\* the answer, the ending or the other device's acceptance overtook the host's report.
THEOREM AppKnows == Spec => []AppAgrees
<1>1. ASSUME OwedInv, NEW n \in Nums, host[n].stage = "held" PROVE Current(n)
  BY <1>1, OwedParts DEF World, Hosts
<1>2. ASSUME OwedInv, Coming, events = <<>>, ~lost, Busy, call.msg \in Ids \ late
      PROVE  /\ call.early = <<>>
             /\ core[call.msg].state # "ended"
             /\ core[call.msg].state = "active" => core[call.msg].device = "here"
             /\ (~call.incoming /\ core[call.msg].state = "active") =>
                   host[call.num].answered
  <2>1. PICK m \in Ids : m = call.msg /\ m \notin late /\ m # 0
    BY <1>2, NumsNat
  <2>2. call.early = <<>>
    BY <1>2, <2>1, OwedParts DEF World, CallFits
  <2>3. DOMAIN events = {} /\ DOMAIN call.early = {}
    BY <1>2, <2>2, NoEntries
  <2>4. ~EndComes(m) /\ ~AnswerComes(m)
    BY <2>3 DEF EndComes, AnswerComes
  <2>5. Meant(m)
    BY <2>1 DEF Meant, Unnamed
  <2>6. ~OverIn(m) /\ (AnsweredOut(m) => host[call.num].answered)
    BY <1>2, <2>4, <2>5 DEF Coming, HearsAll, Hears
  <2>7. core[m].state # "ended" /\ core[m].device # "elsewhere"
    BY <2>6 DEF OverIn
  <2>8. core[m].state = "active" => core[m].device = "here"
    <3>1. core[m] \in CoreCall
      BY <1>2, OwedParts DEF CoreTypes
    <3>2. core[m].device \in {"none", "here", "elsewhere"}
      BY <3>1 DEF CoreCall
    <3>3. QED
      BY <1>2, <2>7, <3>2 DEF Coming, Somewhere
  <2>9. ASSUME ~call.incoming, core[m].state = "active" PROVE host[call.num].answered
    <3>1. WentOut(m)
      BY <1>2, <2>1, <2>9, OwedParts, DueParts DEF CallWay
    <3>2. QED
      BY <2>6, <2>9, <3>1 DEF AnsweredOut
  <2>10. QED
    BY <2>1, <2>2, <2>7, <2>8, <2>9
<1>3. OwedInv /\ Coming => AppAgrees
  BY <1>1, <1>2 DEF AppAgrees
<1>4. QED
  BY <1>3, OwedAlways, ComingAlways, PTL

=============================================================================
