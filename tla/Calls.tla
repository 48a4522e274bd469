--------------------------------- MODULE Calls ---------------------------------
(***************************************************************************)
(* The app's one call (Call of piirit-shim/src/calls.rs) and the host that *)
(* serves its page (call_host.rs).  The core keeps the call; the Qt thread *)
(* hears its events, the reader, and what hosts report; each host answers  *)
(* the page's requests on the runtime and is dropped when its call is      *)
(* over, which tells the core.                                             *)
(*                                                                         *)
(* One action is one turn of the Qt thread, one request of the page, one   *)
(* step of a host's task between two awaits, or one call the core answers. *)
(*                                                                         *)
(* Abstracted: one account; offers and answers; what the connection's      *)
(* state is called.  Left out: microphone, camera and pictures, the name   *)
(* of the other end, sounds, and the app's exit (end_all).  The core is    *)
(* connected whenever a call is begun.                                     *)
(***************************************************************************)
EXTENDS Integers, Sequences, FiniteSets

CONSTANTS
    Ids,            \* messages that are calls: integers, given out counting up
    MaxCalls,       \* bound: calls the app begins
    EARLY_EVENTS,   \* events kept for a call the core has not named
    Budgets         \* bounds: how often each kind may happen

BudgetKinds == {"ring", "take", "end", "lose", "fail", "place", "pick", "ice", "red"}

ASSUME CallsAssumption ==
    /\ Ids \subseteq Nat \ {0} /\ IsFiniteSet(Ids)
    /\ MaxCalls \in Nat \ {0} /\ EARLY_EVENTS \in Nat
    /\ Budgets \subseteq [BudgetKinds -> Nat]

VARIABLES
    \* the core
    core,       \* [Ids -> a call: its state, its way, which device has it]
    events,     \* to handle_event
    \* the app
    call,       \* Call, and the number of the call it is in or was in last
    host,       \* [Nums -> the host of a call, with the tasks of its requests]
    tasks,      \* answers and timers of Call
    reports,    \* of hosts
    budget,
    \* history
    tells,      \* [Ids -> how often the core was told to end it]
    mine,       \* calls placed, answered or declined here
    untold,     \* those the core could not be told of
    handed,     \* those another device was seen to have
    begun,      \* those the app was in
    late,       \* those taken up once more, or when their ending was past
    lost        \* events were, or not kept for the call to be named

coreVars  == <<core, events>>
appVars   == <<call, host, tasks, reports>>
ghostVars == <<tells, mine, untold, handed, begun, late, lost>>
vars == <<coreVars, appVars, budget, ghostVars>>

Nums == 1..MaxCalls

States  == {"", "ringing", "starting", "calling", "connecting", "connected", "reconnecting", "ended"}
Reasons == {"", "hung-up", "declined", "remote", "answered-elsewhere", "missed", "failed"}

CoreCall == [state : {"none", "alerting", "active", "ended"}, incoming : BOOLEAN,
             device : {"none", "here", "elsewhere"}]
Event    == [kind : {"IncomingCall", "IncomingCallAccepted", "OutgoingCallAccepted", "CallEnded"},
             msg : Ids, here : BOOLEAN]
Msg      == Ids \cup {0}

Call == [num : 0..MaxCalls, state : States, reason : Reasons, msg : Msg, incoming : BOOLEAN,
         early : Seq(Event)]

NoCall == [num |-> 0, state |-> "", reason |-> "", msg |-> 0, incoming |-> FALSE,
           early |-> <<>>]

\* stage: held by no call, coming up, up or failed but not told, the call's, dropped.
\* place, accept, page, drop: its tasks; ending_call: the one that holds the lock.
Host == [stage : {"none", "starting", "started", "failed", "held", "dropped"},
         msg : Msg, ending : BOOLEAN, ended : BOOLEAN, answered : BOOLEAN, quiet : BOOLEAN,
         place : {"no", "asked", "made", "stored", "ending", "done"}, made : Msg,
         accept : {"no", "asked", "done"},
         page : {"no", "ending", "done"}, drop : {"no", "ending", "done"},
         ending_call : {"no", "place", "page", "drop"}]

NoHost == [stage |-> "none", msg |-> 0, ending |-> FALSE, ended |-> FALSE, answered |-> FALSE,
           quiet |-> FALSE, place |-> "no", made |-> 0, accept |-> "no", page |-> "no",
           drop |-> "no", ending_call |-> "no"]

Task   == [kind : {"pick", "watch", "why", "decline"}, num : 0..MaxCalls, msg : Ids,
           phase : {"asked", "answered", "failed"}, found : {"", "Alerting", "Declined", "other"}]
Report == [num : Nums, kind : {"placed", "accepted", "connected", "disconnected", "gave up",
                               "ended by page", "failed"}, msg : Msg]

NewTask(kind, num, m) == [kind |-> kind, num |-> num, msg |-> m, phase |-> "asked", found |-> ""]

Spend(kind) == budget[kind] > 0 /\ budget' = [budget EXCEPT ![kind] = @ - 1]

-----------------------------------------------------------------------------
(* Call: s is it, its hosts and tasks *)

Now == [call |-> call, host |-> host, tasks |-> tasks]
Becomes(s) == call' = s.call /\ host' = s.host /\ tasks' = s.tasks

BusyIn(c) == c.state \notin {"", "ended"}
Busy == BusyIn(call)

\* The generation of call n is the call's: begun last, and not closed.
Current(n) == n = call.num /\ Busy

Started(s, t) == [s EXCEPT !.tasks = @ \cup {t}]

\* begin, and the state it goes to.
Begin(s, state, m, incoming) ==
    [s EXCEPT !.call = [NoCall EXCEPT !.num = s.call.num + 1, !.state = state, !.msg = m,
                                      !.incoming = incoming]]

\* serve, its task.
Serve(s) == [s EXCEPT !.host[s.call.num] = [NoHost EXCEPT !.stage = "starting", !.msg = s.call.msg]]

\* Drop of Host: nothing served, the ending spawned.
Drop(h) == [h EXCEPT !.stage = "dropped", !.ending = TRUE, !.drop = "ending"]

\* close: the host, if it is up, goes.
Close(s) ==
    LET n == s.call.num
        over == [s EXCEPT !.call.state = "ended", !.call.reason = ""] IN
    IF n > 0 /\ s.host[n].stage = "held" THEN [over EXCEPT !.host[n] = Drop(@)] ELSE over

\* finish.
Finish(s, reason) ==
    IF BusyIn(s.call) THEN [Close(s) EXCEPT !.call.reason = reason] ELSE s

\* finish_unanswered: the reason is the core's.
FinishUnanswered(s) == Started(Close(s), NewTask("why", s.call.num, s.call.msg))

\* Mutant: a host coming up is not told.
SettleHeld(s) ==
    [s EXCEPT !.host[s.call.num].ended = @ \/ s.host[s.call.num].stage = "held"]

\* settle: told to the host, remembered for one that is still coming up.
Settle(s) ==
    [s EXCEPT !.host[s.call.num].ended = @ \/ s.host[s.call.num].stage = "held",
              !.host[s.call.num].quiet = TRUE]

\* Mutant: no limit.
RingUnwatched(s, m) == Begin(s, "ringing", m, TRUE)

\* A call comes in, or is taken up: until watch_ringing's limit.
Ring(s, m) ==
    Started(Begin(s, "ringing", m, TRUE), NewTask("watch", s.call.num + 1, m))

\* handle_event, but for what comes before the core has named the call.
Heard(s, e) ==
    LET c == s.call
        ours == e.msg = c.msg IN
    CASE e.kind = "IncomingCall" /\ ~BusyIn(c) /\ c.num < MaxCalls ->
            Ring(s, e.msg)
      [] e.kind = "IncomingCallAccepted" /\ ours /\ ~e.here /\ BusyIn(c) ->
            Finish(Settle(s), "answered-elsewhere")
      [] e.kind = "OutgoingCallAccepted" /\ ours /\ ~c.incoming ->
            [s EXCEPT !.call.state = IF @ = "calling" THEN "connecting" ELSE @,
                      !.host[c.num].answered = @ \/ s.host[c.num].stage = "held"]
      [] e.kind = "CallEnded" /\ ours /\ BusyIn(c) ->
            IF c.state = "ringing" THEN FinishUnanswered(Settle(s)) ELSE Finish(Settle(s), "remote")
      [] OTHER -> s

Unnamed(c) == BusyIn(c) /\ ~c.incoming /\ c.msg = 0

\* Mutant: what overtakes the host's report is dropped.
HandleNamed(s, e) == IF e.kind # "IncomingCall" /\ Unnamed(s.call) THEN s ELSE Heard(s, e)

\* handle_event.
Handle(s, e) ==
    IF e.kind # "IncomingCall" /\ Unnamed(s.call)
    THEN [s EXCEPT !.call.early = IF Len(@) < EARLY_EVENTS THEN Append(@, e) ELSE @]
    ELSE Heard(s, e)

\* handle_event of one after another.
HandleAll(s, es) ==
    LET after[i \in 0..Len(es)] == IF i = 0 THEN s ELSE Handle(after[i - 1], es[i])
    IN  after[Len(es)]

\* Mutant: in the report's own words.
ReasonVerbatim(r) == r.kind

\* The reason a report ends its call for.
Reason(r) == IF r.kind = "ended by page" THEN "hung-up" ELSE "failed"

\* take_report.
Take(s, r) ==
    LET c == s.call IN
    CASE r.kind = "placed" ->
            HandleAll([s EXCEPT !.call.msg = r.msg, !.call.early = <<>>,
                                !.call.state = IF @ = "starting" THEN "calling" ELSE @],
                      c.early)
      [] r.kind = "accepted" ->
            [s EXCEPT !.call.state = IF @ = "starting" THEN "connecting" ELSE @]
      [] r.kind = "connected" ->
            [s EXCEPT !.call.state = IF @ # "ringing" THEN "connected" ELSE @]
      [] r.kind = "disconnected" ->
            [s EXCEPT !.call.state = IF @ = "connected" THEN "reconnecting" ELSE @]
      [] r.kind = "gave up" -> IF c.state = "ringing" THEN s ELSE Finish(s, Reason(r))
      [] OTHER              -> Finish(s, Reason(r))

-----------------------------------------------------------------------------
(* History *)

Told(m) == tells' = [tells EXCEPT ![m] = @ + 1]

\* The call the Qt thread hears to be another device's while it is in it.
HeardElsewhere(e) ==
    {m \in {call.msg} \cap Ids : /\ e.kind = "IncomingCallAccepted" /\ ~e.here /\ e.msg = m /\ Busy}

\* More comes for a call the core has not named than is kept.
Overflown(e) ==
    e.kind # "IncomingCall" /\ Unnamed(call) /\ Len(call.early) >= EARLY_EVENTS

\* What the core tells of m is past, and it has ended or is another device's.
Past(m) == /\ core[m].state # "alerting"
           /\ ~\E i \in DOMAIN events : events[i].msg = m /\ events[i].kind # "IncomingCall"

\* A call the app comes to be in.
TakenUp ==
    LET new == IF call'.num = call.num THEN {} ELSE {call'.msg} IN
    /\ begun' = begun \cup new
    /\ late' = late \cup {m \in new : m \in begun \/ Past(m)'}

-----------------------------------------------------------------------------
(* The core *)

Unused == {m \in Ids : core[m].state = "none"}
NextId == CHOOSE m \in Unused : \A k \in Unused : m <= k

Tell(kind, m, here) == events' = Append(events, [kind |-> kind, msg |-> m, here |-> here])

CoreRings ==
    /\ Spend("ring") /\ Unused # {}
    /\ core' = [core EXCEPT ![NextId] = [state |-> "alerting", incoming |-> TRUE, device |-> "none"]]
    /\ Tell("IncomingCall", NextId, FALSE)
    /\ UNCHANGED <<appVars, ghostVars>>

\* Another device accepts.
CoreTaken(m) ==
    /\ Spend("take")
    /\ core[m].state = "alerting" /\ core[m].incoming
    /\ core' = [core EXCEPT ![m].state = "active", ![m].device = "elsewhere"]
    /\ Tell("IncomingCallAccepted", m, FALSE)
    /\ UNCHANGED <<appVars, ghostVars>>

\* The other end answers.
CoreAnswered(m) ==
    /\ core[m].state = "alerting" /\ ~core[m].incoming
    /\ core' = [core EXCEPT ![m].state = "active", ![m].device = "here"]
    /\ Tell("OutgoingCallAccepted", m, TRUE)
    /\ UNCHANGED <<appVars, budget, ghostVars>>

Over(m) ==
    IF core[m].state \in {"alerting", "active"}
    THEN core' = [core EXCEPT ![m].state = "ended"] /\ Tell("CallEnded", m, FALSE)
    ELSE UNCHANGED coreVars

\* The other end, another device or two minutes of ringing end it.
CoreEnds(m) ==
    /\ Spend("end")
    /\ core[m].state \in {"alerting", "active"}
    /\ Over(m)
    /\ UNCHANGED <<appVars, ghostVars>>

\* Events are dropped: by an overflow, or by a restart.
CoreLosesEvents ==
    /\ Spend("lose") /\ events # <<>>
    /\ events' = <<>> /\ lost' = TRUE
    /\ UNCHANGED <<core, appVars, tells, mine, untold, handed, begun, late>>

\* Shared::end is through in one of the tasks that called it.
Ended(h, who) ==
    CASE who = "place" -> [h EXCEPT !.place = "done", !.ending_call = "no"]
      [] who = "page"  -> [h EXCEPT !.page = "done", !.ending_call = "no"]
      [] who = "drop"  -> [h EXCEPT !.drop = "done", !.ending_call = "no"]

\* A call to the core is answered, or fails: before or after it was carried out.
Answered(ok) == IF ok THEN UNCHANGED budget ELSE Spend("fail")

Reports(n, kind, m) == reports' = reports \cup {[num |-> n, kind |-> kind, msg |-> m]}

\* place and end report once it is.
EndReported(n, who) ==
    CASE who = "place" -> Reports(n, "placed", host[n].msg)
      [] who = "page"  -> Reports(n, "ended by page", 0)
      [] who = "drop"  -> UNCHANGED reports

\* place: what the core answers.
CorePlaces(n) ==
    /\ host[n].place = "asked" /\ Unused # {}
    /\ core' = [core EXCEPT ![NextId] = [state |-> "alerting", incoming |-> FALSE, device |-> "here"]]
    /\ host' = [host EXCEPT ![n].place = "made", ![n].made = NextId]
    /\ mine' = mine \cup {NextId}
    /\ UNCHANGED <<events, call, tasks, reports, budget, tells, untold, handed, begun, late, lost>>

CoreRefuses(n) ==
    /\ host[n].place \in {"asked", "made"}
    /\ Spend("fail")
    /\ host' = [host EXCEPT ![n].place = "done"]
    /\ untold' = untold \cup ({host[n].made} \ {0})
    /\ Reports(n, "failed", 0)
    /\ UNCHANGED <<coreVars, call, tasks, tells, mine, handed, begun, late, lost>>

\* accept_call: one that is taken or over already is left so.
CoreAccepts(n, ok, done) ==
    LET m == host[n].msg IN
    /\ host[n].accept = "asked" /\ (ok => done)
    /\ Answered(ok)
    /\ IF done /\ core[m].state = "alerting"
       THEN /\ core' = [core EXCEPT ![m].state = "active", ![m].device = "here"]
            /\ Tell("IncomingCallAccepted", m, TRUE)
       ELSE UNCHANGED coreVars
    /\ host' = [host EXCEPT ![n].accept = "done"]
    /\ Reports(n, IF ok THEN "accepted" ELSE "failed", 0)
    /\ UNCHANGED <<call, tasks, ghostVars>>

\* Shared::end, its end_call; what comes after it in the task that made it.
CoreEndsCall(n, ok) ==
    LET who == host[n].ending_call
        m   == host[n].msg IN
    /\ who # "no"
    /\ Answered(ok)
    /\ IF ok THEN Over(m) /\ UNCHANGED untold ELSE UNCHANGED coreVars /\ untold' = untold \cup {m}
    /\ host' = [host EXCEPT ![n] = Ended(@, who)]
    /\ EndReported(n, who)
    /\ UNCHANGED <<call, tasks, tells, mine, handed, begun, late, lost>>

\* end_call of a call that rings.
CoreDeclines(t, ok) ==
    /\ t.kind = "decline"
    /\ Answered(ok)
    /\ IF ok THEN Over(t.msg) /\ UNCHANGED untold
       ELSE UNCHANGED coreVars /\ untold' = untold \cup {t.msg}
    /\ tasks' = tasks \ {t}
    /\ UNCHANGED <<call, host, reports, tells, mine, handed, begun, late, lost>>

\* summary.
CoreSays(t, found) ==
    /\ t.kind \in {"pick", "why"} /\ t.phase = "asked"
    /\ IF found = "" THEN Spend("fail")
       ELSE /\ UNCHANGED budget
            /\ (found = "Alerting") = (core[t.msg].state = "alerting")
    /\ tasks' = (tasks \ {t}) \cup {[t EXCEPT !.phase = "answered", !.found = found]}
    /\ UNCHANGED <<coreVars, call, host, reports, ghostVars>>

-----------------------------------------------------------------------------
(* The host of call n *)

\* prepare and start: on its way to the Qt thread, up or not.
HostStarts(n, ok) ==
    /\ host[n].stage = "starting"
    /\ Answered(ok)
    /\ host' = [host EXCEPT ![n].stage = IF ok THEN "started" ELSE "failed"]
    /\ UNCHANGED <<coreVars, call, tasks, reports, ghostVars>>

\* start's result lands: a host nobody waits for is dropped, quietly if settled.
HostLands(n) ==
    LET h == host[n] IN
    /\ h.stage \in {"started", "failed"}
    /\ IF h.stage = "started"
       THEN /\ host' = [host EXCEPT ![n] = IF Current(n) THEN [@ EXCEPT !.stage = "held"]
                                           ELSE Drop([@ EXCEPT !.ended = h.quiet])]
            /\ UNCHANGED <<call, tasks, untold>>
       ELSE /\ LET gone == [Now EXCEPT !.host[n].stage = "none"] IN
               Becomes(IF Current(n) THEN Finish(gone, "failed") ELSE gone)
            /\ untold' = untold \cup ({h.msg} \ {0})
    /\ UNCHANGED <<coreVars, reports, budget, tells, mine, handed, begun, late, lost>>

\* The page asks for its call to be placed: once, and not once this end let go.
PagePlaces(n) ==
    LET h == host[n] IN
    /\ h.stage = "held" /\ ~call.incoming
    /\ ~h.ending /\ h.place = "no"
    /\ host' = [host EXCEPT ![n].place = "asked"]
    /\ UNCHANGED <<coreVars, call, tasks, reports, budget, ghostVars>>

\* Mutant: the call is looked at before its message is known.
PlaceAnsweredLetGo(n) ==
    /\ host[n].place = "made"
    /\ host' = [host EXCEPT ![n].msg = host[n].made, ![n].place = "done"]
    /\ Reports(n, "placed", host[n].made)
    /\ UNCHANGED <<coreVars, call, tasks, budget, ghostVars>>

\* The core's answer: its message first, then whether this end has let go.
PlaceAnswered(n) ==
    /\ host[n].place = "made"
    /\ host' = [host EXCEPT ![n].msg = host[n].made, ![n].place = "stored"]
    /\ UNCHANGED <<coreVars, call, tasks, reports, budget, ghostVars>>

PlaceChecks(n) ==
    /\ host[n].place = "stored"
    /\ IF host[n].ending THEN host' = [host EXCEPT ![n].place = "ending"] /\ UNCHANGED reports
       ELSE host' = [host EXCEPT ![n].place = "done"] /\ Reports(n, "placed", host[n].msg)
    /\ UNCHANGED <<coreVars, call, tasks, budget, ghostVars>>

\* The page's answer.
PageAccepts(n) ==
    LET h == host[n] IN
    /\ h.stage = "held" /\ call.incoming
    /\ ~h.ending /\ h.accept = "no"
    /\ host' = [host EXCEPT ![n].accept = "asked"]
    /\ UNCHANGED <<coreVars, call, tasks, reports, budget, ghostVars>>

\* The page's red button.
PageEnds(n) ==
    /\ Spend("red")
    /\ host[n].stage = "held" /\ host[n].page = "no"
    /\ host' = [host EXCEPT ![n].page = "ending", ![n].ending = TRUE]
    /\ UNCHANGED <<coreVars, call, tasks, reports, ghostVars>>

\* What the page hears of its connection.
PageConnects(n, kind) ==
    /\ Spend("ice")
    /\ host[n].stage = "held" /\ (host[n].answered \/ host[n].accept # "no")
    /\ Reports(n, kind, 0)
    /\ UNCHANGED <<coreVars, call, host, tasks, ghostVars>>

Enders(h) == {who \in {"place", "page", "drop"} : h[who] = "ending" /\ h.ending_call # who}

\* Shared::end, under its lock: once, and if there is a call.
EndBegins(n, who) ==
    LET h == host[n] IN
    /\ who \in Enders(h) /\ h.ending_call = "no"
    /\ IF h.msg = 0 \/ h.ended
       THEN host' = [host EXCEPT ![n] = Ended(@, who)] /\ EndReported(n, who) /\ UNCHANGED tells
       ELSE /\ host' = [host EXCEPT ![n].ending_call = who, ![n].ended = TRUE]
            /\ UNCHANGED reports
            /\ Told(h.msg)
    /\ UNCHANGED <<coreVars, call, tasks, budget, mine, untold, handed, begun, late, lost>>

-----------------------------------------------------------------------------
(* The Qt thread *)

HandleEvent ==
    LET e == Head(events) IN
    /\ events # <<>> /\ events' = Tail(events)
    /\ Becomes(Handle(Now, e))
    /\ handed' = handed \cup HeardElsewhere(e)
    /\ lost' = (lost \/ Overflown(e))
    /\ UNCHANGED <<core, reports, budget, tells, mine, untold>>
    /\ TakenUp

\* A report of another call is turned away.
ReportLands(r) ==
    /\ reports' = reports \ {r}
    /\ Becomes(IF Current(r.num) THEN Take(Now, r) ELSE Now)
    /\ UNCHANGED <<coreVars, budget, ghostVars>>

Place ==
    /\ Spend("place") /\ ~Busy /\ call.num < MaxCalls
    /\ Becomes(Serve(Begin(Now, "starting", 0, FALSE)))
    /\ UNCHANGED <<coreVars, reports, ghostVars>>

\* pick_up: the core is asked first.
PickUp(m) ==
    /\ Spend("pick") /\ ~Busy /\ core[m].state # "none" /\ core[m].incoming
    /\ Becomes(Started(Now, NewTask("pick", 0, m)))
    /\ UNCHANGED <<coreVars, reports, ghostVars>>

PickUpLands(t) ==
    LET s == [Now EXCEPT !.tasks = @ \ {t}] IN
    /\ t.kind = "pick" /\ t.phase = "answered"
    /\ Becomes(IF t.found = "Alerting" /\ ~Busy /\ call.num < MaxCalls THEN Ring(s, t.msg) ELSE s)
    /\ UNCHANGED <<coreVars, reports, budget, tells, mine, untold, handed, lost>>
    /\ TakenUp

Answer ==
    /\ call.state = "ringing"
    /\ Becomes(Serve([Now EXCEPT !.call.state = "starting"]))
    /\ mine' = mine \cup {call.msg}
    /\ UNCHANGED <<coreVars, reports, budget, tells, untold, handed, begun, late, lost>>

\* hang_up: a call that rings has no host to tell the core.
HangUp ==
    /\ Busy
    /\ IF call.state = "ringing"
       THEN /\ Becomes(Finish(Started(Now, NewTask("decline", call.num, call.msg)), "declined"))
            /\ Told(call.msg) /\ mine' = mine \cup {call.msg}
       ELSE Becomes(Finish(Now, "hung-up")) /\ UNCHANGED <<tells, mine>>
    /\ UNCHANGED <<coreVars, reports, budget, untold, handed, begun, late, lost>>

Reset ==
    /\ call.state = "ended"
    /\ Becomes([Now EXCEPT !.call.state = "", !.call.reason = ""])
    /\ UNCHANGED <<coreVars, reports, budget, ghostVars>>

\* watch_ringing, past its limit.
RingLimit(t) ==
    /\ t.kind = "watch"
    /\ LET s == [Now EXCEPT !.tasks = @ \ {t}] IN
       Becomes(IF Current(t.num) /\ call.state = "ringing" THEN FinishUnanswered(s) ELSE s)
    /\ UNCHANGED <<coreVars, reports, budget, ghostVars>>

\* finish_unanswered: why.
WhyLands(t) ==
    LET s == [Now EXCEPT !.tasks = @ \ {t}] IN
    /\ t.kind = "why" /\ t.phase = "answered"
    /\ Becomes(IF t.num # call.num THEN s
               ELSE [s EXCEPT !.call.reason = IF t.found = "Declined" THEN "declined" ELSE "missed"])
    /\ UNCHANGED <<coreVars, reports, budget, ghostVars>>

-----------------------------------------------------------------------------

Init ==
    /\ core = [m \in Ids |-> [state |-> "none", incoming |-> FALSE, device |-> "none"]]
    /\ events = <<>> /\ call = NoCall /\ host = [n \in Nums |-> NoHost]
    /\ tasks = {} /\ reports = {}
    /\ budget \in Budgets
    /\ tells = [m \in Ids |-> 0]
    /\ mine = {} /\ untold = {} /\ handed = {} /\ begun = {} /\ late = {} /\ lost = FALSE

\* What comes of itself.
System ==
    \/ \E n \in Nums, ok, done \in BOOLEAN : CoreAccepts(n, ok, done)
    \/ \E n \in Nums, ok \in BOOLEAN : CoreEndsCall(n, ok) \/ HostStarts(n, ok)
    \/ \E n \in Nums : CorePlaces(n) \/ CoreRefuses(n) \/ HostLands(n) \/ PlaceAnswered(n) \/ PlaceChecks(n)
    \/ \E n \in Nums, who \in {"place", "page", "drop"} : EndBegins(n, who)
    \/ \E t \in tasks, ok \in BOOLEAN : CoreDeclines(t, ok)
    \/ \E t \in tasks, found \in {"", "Alerting", "Declined", "other"} : CoreSays(t, found)
    \/ \E t \in tasks : PickUpLands(t) \/ RingLimit(t) \/ WhyLands(t)
    \/ \E r \in reports : ReportLands(r)
    \/ HandleEvent

\* What the reader, the page and others do.
Others ==
    \/ CoreRings \/ CoreLosesEvents
    \/ \E m \in Ids : CoreTaken(m) \/ CoreAnswered(m) \/ CoreEnds(m) \/ PickUp(m)
    \/ \E n \in Nums : PagePlaces(n) \/ PageAccepts(n) \/ PageEnds(n)
    \/ \E n \in Nums, kind \in {"connected", "disconnected", "gave up"} : PageConnects(n, kind)
    \/ Place \/ Answer \/ HangUp \/ Reset

Next == System \/ Others

Spec == Init /\ [][Next]_vars
FairSpec == Spec /\ WF_vars(System)

-----------------------------------------------------------------------------
(* Properties *)

\* The app's call, its hosts and their reports, and the core's calls are of their type.
TypeOK ==
    /\ core \in [Ids -> CoreCall] /\ events \in Seq(Event)
    /\ call \in Call /\ host \in [Nums -> Host]
    /\ tasks \subseteq Task /\ reports \subseteq Report
    /\ budget \in [BudgetKinds -> Nat]
    /\ tells \in [Ids -> Nat] /\ {mine, untold, handed, begun, late} \subseteq SUBSET Ids
    /\ lost \in BOOLEAN

Quiet ==
    /\ events = <<>> /\ tasks = {} /\ reports = {}
    /\ \A n \in Nums : /\ host[n].stage \notin {"starting", "started", "failed"}
                       /\ host[n].place \in {"no", "done"} /\ host[n].accept # "asked"
                       /\ host[n].page # "ending" /\ host[n].drop # "ending"

\* However a call is placed, answered, declined, hung up, failed or ended from both ends
\* at once, and whatever is in flight then: the core is told once that it is over, unless
\* it could not be, and never of a call that was seen to be another device's.  Nothing
\* this device took part in is left ringing or running when the app is in no call of it.
CoreToldOnce ==
    /\ \A m \in Ids \ late : tells[m] <= 1
    /\ Quiet => \A m \in mine \ (untold \cup (IF Busy THEN {call.msg} ELSE {})) :
                   core[m].state = "ended" \/ core[m].device = "elsewhere"

\* Once this device has heard that another took a call (IncomingCallAccepted of another
\* device), it never tells the core that the call is over: it would end it there.
NeverForOthers == [][\A m \in handed \ late : tells'[m] = tells[m]]_vars

\* The app agrees with the core once it has heard everything, and nothing was lost: no
\* answer, ending or other device's acceptance that overtook the host's report is
\* forgotten, and no answer of an earlier call is taken for this one's.
AppAgrees ==
    /\ \A n \in Nums : host[n].stage = "held" => Current(n)
    /\ events = <<>> /\ reports = {} /\ ~lost /\ Busy /\ call.msg \in Ids \ late =>
          /\ call.early = <<>>
          /\ core[call.msg].state # "ended"
          /\ core[call.msg].state = "active" => core[call.msg].device = "here"
          /\ ~call.incoming /\ core[call.msg].state = "active" => host[call.num].answered

\* A call that rings stops ringing, its events lost or not, and is said to have ended for
\* a reason.
RingingEnds ==
    <>[](call.state # "ringing" /\ (call.state = "ended" => call.reason # ""))
=============================================================================
