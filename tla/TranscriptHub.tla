---------------------------- MODULE TranscriptHub ----------------------------
(***************************************************************************)
(* Voice messages turned into text (piirit-shim/src/transcripts/hub.rs,    *)
(* its rules in schedule.rs, its thread in worker.rs): one queue and one   *)
(* running job on the Qt thread, fed by events, taps and searches whose    *)
(* answers come later, under settings and power that change meanwhile.     *)
(*                                                                         *)
(* One action is one turn of the Qt thread (an event, a tap, a queued      *)
(* callback, each with the refresh and pump it ends in), one read of a     *)
(* task on the runtime, or the end of a run on the speech thread.          *)
(*                                                                         *)
(* Abstracted: every message is a voice message of one chat; text,         *)
(* progress and language of a transcript; listeners (see ChatList).  The   *)
(* store's thread does its tasks in the order sent, so a task is done when *)
(* it is sent and only its answer comes later.  Two lookups alike are one. *)
(* The store opens, the speech thread starts and does not panic, the core  *)
(* is connected.                                                           *)
(***************************************************************************)
EXTENDS Integers, Sequences, FiniteSets, SequencesExt

CONSTANTS
    Msgs,           \* messages, by time: integers
    Own,            \* those the reader sent
    Older,          \* those there when the app starts
    Profiles, ProfileOf,    \* [Msgs -> Profiles]
    Views,          \* messages a Transcript is watching
    Settings,       \* Conditions that occur
    AtStart,        \* those the app starts with
    NoJob,
    Budgets         \* bounds: for each kind, how often it may happen

\* A tap queues as Manual, an arrival as New, a search of older ones as Backlog: in
\* the order of their priority.
Kinds == {"Manual", "New", "Backlog"}
Priority(kind) == CASE kind = "Manual" -> 1 [] kind = "New" -> 2 [] OTHER -> 3

Conditions == [enabled : BOOLEAN, modelReady : BOOLEAN, mode : {"never", "charging", "always"},
               older : BOOLEAN, charging : BOOLEAN, powerSaving : BOOLEAN]

BudgetKinds == {"arrive", "download", "delete", "remove", "settings", "tap", "chat", "cancel",
                "watch", "connect", "fail"}

ASSUME TranscriptAssumption ==
    /\ Msgs \subseteq Int /\ IsFiniteSet(Msgs) /\ Own \subseteq Msgs /\ Older \subseteq Msgs
    /\ ProfileOf \in [Msgs -> Profiles] /\ Views \subseteq Msgs
    /\ Settings \subseteq Conditions /\ AtStart \subseteq Settings
    /\ Budgets \subseteq [BudgetKinds -> Nat]

VARIABLES
    \* Hub
    conditions, queue, running, seq, swept, scanning, skip,
    \* tasks on the runtime and answers on their way
    lookups,        \* tasks, the answer included until the Qt thread has it
    replies,        \* answers of the store not yet posted
    posted,         \* apply callbacks in the Qt queue
    \* what is kept and shown
    rows,           \* [Msgs -> Rows], the store
    shown,          \* [Views -> Shown]
    \* the core
    status,         \* [Msgs -> "absent", "partial", "there" or "gone"]
    profiles,
    events,
    budget,
    \* history
    wanted,         \* messages to be transcribed, as told so far
    refused,        \* arrivals the core would not show, and nothing else is after
    slipped,        \* went while transcribed or looked up, or tapped since
    unswept,        \* gone, and left by a sweep or a look at the profiles that failed
    untold          \* their rows deleted by a sweep that failed before views were told

hubVars   == <<conditions, queue, running, seq, swept, scanning, skip>>
coreVars  == <<status, profiles, events>>
showVars  == <<replies, posted, shown>>
wishVars  == <<wanted, refused>>
goneVars  == <<slipped, unswept, untold>>
ghostVars == <<wishVars, goneVars>>
vars == <<hubVars, lookups, showVars, rows, coreVars, budget, ghostVars>>

Rows  == {"none", "done", "failed"}
Shown == Rows \cup {"queued", "running"}
Job   == [key : Msgs, kind : Kinds, seq : Nat]
\* result: what the speech thread reports, "none" before.
Run   == [job : Job, cancel : BOOLEAN, requeue : BOOLEAN,
          result : {"none", "ok", "failed", "cancelled"}]

ASSUME NoJobAssumption == NoJob \notin Run

\* arrived, transcribe: one message; scan_backlog, transcribe_chat, sweep: many;
\* accounts_changed.
Lookup == [kind : {"arrived", "tap", "scan", "chat", "sweep", "accounts"},
           phase : {"listing", "known", "loading", "answered"},
           keys : SUBSET Msgs, profiles : SUBSET Profiles,
           found : {"some", "none", "error"}]

NewLookup(kind, phase, keys) ==
    [kind |-> kind, phase |-> phase, keys |-> keys, profiles |-> {}, found |-> "some"]

Spend(kind) == budget[kind] > 0 /\ budget' = [budget EXCEPT ![kind] = @ - 1]

Voices == {m \in Msgs : status[m] = "there"}
GoneIn(ps) == {m \in Msgs : ProfileOf[m] \notin ps}

-----------------------------------------------------------------------------
(* schedule.rs *)

MayRun(kind, c) ==
    LET plugged == c.charging /\ ~c.powerSaving IN
    /\ c.enabled /\ c.modelReady
    /\ CASE kind = "Manual"  -> TRUE
         [] kind = "New"     -> \/ c.mode = "charging" /\ plugged
                                \/ c.mode = "always" /\ ~c.powerSaving
         [] OTHER            -> c.older /\ plugged

Keeps(kind, c) ==
    /\ c.enabled
    /\ kind = "New" => c.mode # "never"
    /\ kind = "Backlog" => c.older

\* Manual first, then arrivals, then backlog, newest first.
Before(j, k) ==
    \/ Priority(j.kind) < Priority(k.kind)
    \/ /\ j.kind = k.kind
       /\ IF j.kind = "Backlog" /\ j.key # k.key THEN j.key > k.key ELSE j.seq < k.seq

-----------------------------------------------------------------------------
(* Hub *)

LiveIn(q, run, m) == (run # NoJob /\ run.job.key = m) \/ \E j \in q : j.key = m
Live(m) == LiveIn(queue, running, m)

\* Mutant: the running job may be queued again.
AcceptsRunning(kind, m) == Keeps(kind, conditions)

\* enqueue: what it takes at all.
Accepts(kind, m) == Keeps(kind, conditions) /\ ~(running # NoJob /\ running.job.key = m)

\* enqueue, for several, the newest first; a tap on a queued job moves it up.
Taken(ms, kind) == {m \in ms : Accepts(kind, m)}
SeqAfter(m, ms)    == seq + Cardinality({k \in ms : k >= m})
WithJobs(ms, kind) ==
    {IF j.key \in ms /\ kind = "Manual" /\ j.kind # "Manual"
     THEN [j EXCEPT !.kind = "Manual", !.seq = SeqAfter(j.key, ms)] ELSE j : j \in queue}
    \cup {[key |-> m, kind |-> kind, seq |-> SeqAfter(m, ms)] :
             m \in {k \in ms : \A j \in queue : j.key # k}}
\* Those enqueue says it has queued.
Queued(ms, kind) == IF kind = "Manual" THEN ms ELSE {m \in ms : \A j \in queue : j.key # m}

\* drop_key, for several.
Without(ms) == {j \in queue : j.key \notin ms}
Stopped(ms) ==
    IF running # NoJob /\ running.job.key \in ms
    THEN [running EXCEPT !.requeue = FALSE, !.cancel = TRUE] ELSE running

\* The next job of q, if one may run under c.
StartNext(q, c) ==
    LET able  == {j \in q : MayRun(j.kind, c)}
        first == {j \in able : \A k \in able \ {j} : Before(j, k)} IN
    IF first = {} THEN [queue |-> q, running |-> NoJob]
    ELSE LET next == CHOOSE j \in first : TRUE IN
         [queue |-> q \ {next},
          running |-> [job |-> next, cancel |-> FALSE, requeue |-> FALSE, result |-> "none"]]

\* Mutant: stopped by the power, and not taken back.
PumpForgetting(q, run, c) ==
    IF run = NoJob THEN StartNext(q, c)
    ELSE [queue |-> q, running |-> IF MayRun(run.job.kind, c) THEN run
                                   ELSE [run EXCEPT !.cancel = TRUE]]

\* pump: starts the next job if none runs; stops one that may not run now, to take it
\* back.
Pump(q, run, c) ==
    IF run = NoJob THEN StartNext(q, c)
    ELSE [queue |-> q,
          running |-> IF run.requeue \/ MayRun(run.job.kind, c) THEN run
                      ELSE [run EXCEPT !.requeue = TRUE, !.cancel = TRUE]]

\* The hub once pump has seen queue q and run.
ThenPump(q, run, c) ==
    LET hub == Pump(q, run, c) IN queue' = hub.queue /\ running' = hub.running
\* The job pump started, which it refreshes.
Started == IF running = NoJob /\ running' # NoJob THEN {running'.job.key} ELSE {}

\* refresh, after what is left in the Qt queue and what the store was asked before:
\* asked of the store, unless the queue's state is what is shown.
Refresh(ms, left, before) ==
    LET asked == {m \in ms \cap Views : conditions'.enabled /\ ~LiveIn(queue', running', m)} IN
    /\ replies' = replies \o before \o SetToSeq({[key |-> m, row |-> rows'[m]] : m \in asked})
    /\ posted' = left \o SetToSeq({[key |-> m, row |-> "none"] : m \in (ms \cap Views) \ asked})

\* record and write: the row, and its answer.
Write(m, row) ==
    /\ rows' = [rows EXCEPT ![m] = row]
    /\ skip' = skip \cup {m}
Answer(m, row) == IF m \in Views THEN <<[key |-> m, row |-> row]>> ELSE <<>>

-----------------------------------------------------------------------------
(* The core, and its events *)

Tell(kind, m) == events' = Append(events, [kind |-> kind, msg |-> m])

\* A message comes, whole or not yet.
CoreArrives(m, how) ==
    /\ Spend("arrive")
    /\ status[m] = "absent" /\ ProfileOf[m] \in profiles
    /\ status' = [status EXCEPT ![m] = how]
    /\ Tell("message", m)
    /\ UNCHANGED <<hubVars, lookups, showVars, rows, profiles, ghostVars>>

CoreDownloads(m) ==
    /\ Spend("download")
    /\ status[m] = "partial"
    /\ status' = [status EXCEPT ![m] = "there"]
    /\ Tell("message", m)
    /\ UNCHANGED <<hubVars, lookups, showVars, rows, profiles, ghostVars>>

CoreDeletes(m) ==
    /\ Spend("delete")
    /\ status[m] \in {"partial", "there"}
    /\ status' = [status EXCEPT ![m] = "gone"]
    /\ Tell("deleted", m)
    /\ UNCHANGED <<hubVars, lookups, showVars, rows, profiles, ghostVars>>

\* A profile is removed, its messages with it.
CoreRemoves(p) ==
    /\ Spend("remove")
    /\ p \in profiles
    /\ profiles' = profiles \ {p}
    /\ status' = [m \in Msgs |-> IF ProfileOf[m] = p THEN "gone" ELSE status[m]]
    /\ Tell("accounts", CHOOSE m \in Msgs : TRUE)
    /\ UNCHANGED <<hubVars, lookups, showVars, rows, ghostVars>>

-----------------------------------------------------------------------------
(* The Qt thread: events *)

Handles(kind) == events # <<>> /\ Head(events).kind = kind /\ events' = Tail(events)

\* Told to stop, and not to be taken back.
Doomed(m) == running # NoJob /\ running.job.key = m /\ running.cancel /\ ~running.requeue

\* arrived.
Arrived ==
    LET m == Head(events).msg
        automatic == Keeps("New", conditions)
        due == IF automatic /\ m \notin Own /\ status[m] = "there" /\ ~Doomed(m) THEN {m} ELSE {} IN
    /\ Handles("message")
    /\ lookups' = IF automatic /\ m \notin skip /\ ~Live(m)
                  THEN lookups \cup {NewLookup("arrived", "known", {m})} ELSE lookups
    /\ wanted' = wanted \cup due /\ refused' = refused \ due
    /\ UNCHANGED <<hubVars, showVars, rows, status, profiles, budget, goneVars>>

\* In a lookup that may give it a job or a row; in one for it alone, or with a job.
LookedUp == UNION {t.keys : t \in {u \in lookups : u.kind # "sweep"}}
Pursued(m, ts) == Live(m) \/ \E t \in ts : t.kind \in {"arrived", "tap"} /\ m \in t.keys

\* Mutant: the row stays.
DeletedKeepingRow ==
    LET m == Head(events).msg IN
    /\ Handles("deleted")
    /\ queue' = Without({m}) /\ running' = Stopped({m}) /\ skip' = skip \ {m}
    /\ wanted' = wanted \ {m}
    /\ slipped' = IF Live(m) \/ m \in LookedUp THEN slipped \cup {m} ELSE slipped
    /\ unswept' = unswept \ {m}
    /\ replies' = replies \o Answer(m, "again")
    /\ UNCHANGED <<conditions, seq, swept, scanning, lookups, posted, shown, rows, status,
                   profiles, budget, refused, untold>>

\* deleted: out of the queue or stopped, then the row; its views are refreshed once
\* the store has answered.
Deleted ==
    LET m == Head(events).msg IN
    /\ Handles("deleted")
    /\ queue' = Without({m}) /\ running' = Stopped({m}) /\ skip' = skip \ {m}
    /\ rows' = [rows EXCEPT ![m] = "none"]
    /\ wanted' = wanted \ {m}
    /\ slipped' = IF (running # NoJob /\ running.job.key = m) \/ m \in LookedUp
                  THEN slipped \cup {m} ELSE slipped
    /\ unswept' = unswept \ {m}
    /\ replies' = replies \o Answer(m, "again")
    /\ UNCHANGED <<conditions, seq, swept, scanning, lookups, posted, shown, status, profiles,
                   budget, refused, untold>>

\* accounts_changed.
AccountsChanged ==
    /\ Handles("accounts")
    /\ lookups' = lookups \cup {NewLookup("accounts", "listing", {})}
    /\ UNCHANGED <<hubVars, showVars, rows, status, profiles, budget, ghostVars>>

-----------------------------------------------------------------------------
(* The Qt thread: settings, power, taps *)

\* scan_backlog, if none is under way: its task, and the flag.
Scan(goes) ==
    IF goes /\ ~scanning THEN {NewLookup("scan", "listing", {})} ELSE {}

\* One setter, then settle: switched off, the model goes too.
SettledBy(c) ==
    LET changed == {f \in DOMAIN c : c[f] # conditions[f]} IN
    \/ changed \in {{"mode"}, {"older"}, {"charging"}, {"powerSaving"}}
    \/ changed = {"enabled"} /\ ~c.modelReady
    \/ changed = {"enabled", "modelReady"} /\ ~c.enabled
    \/ changed = {"modelReady"} /\ c.modelReady /\ c.enabled

\* Who has job m: its kind.
KindOf(m) == IF running # NoJob /\ running.job.key = m THEN running.job.kind
             ELSE (CHOOSE j \in queue : j.key = m).kind
StillWanted(m, c) ==
    IF Live(m) THEN Keeps(KindOf(m), c) /\ ~Doomed(m)
    ELSE \/ Keeps("New", c)
         \/ c.enabled /\ \E t \in lookups : t.kind = "tap" /\ m \in t.keys

\* Mutant: only the queue is looked through when a kind is dropped.
SetConditionsShowingOld(c) ==
    LET kept == {j \in queue : Keeps(j.kind, c)} IN
    /\ Spend("settings") /\ SettledBy(c)
    /\ conditions' = c
    /\ lookups' = lookups \cup Scan(Keeps("Backlog", c) /\ ~Keeps("Backlog", conditions))
    /\ scanning' = (scanning \/ (Keeps("Backlog", c) /\ ~Keeps("Backlog", conditions)))
    /\ skip' = IF conditions.enabled /\ ~c.enabled THEN {} ELSE skip
    /\ ThenPump(kept, IF running # NoJob /\ ~Keeps(running.job.kind, c)
                      THEN Stopped({running.job.key}) ELSE running, c)
    /\ wanted' = {m \in wanted : StillWanted(m, c)}
    /\ UNCHANGED <<seq, swept, rows, coreVars, refused, goneVars>>
    /\ Refresh(Started, posted, <<>>)
    /\ UNCHANGED shown

\* set_conditions: what would never run is dropped; switched, all views are refreshed;
\* the older ones are looked for if they count now.
SetConditions(c) ==
    LET kept == {j \in queue : Keeps(j.kind, c)}
        dropped == {j.key : j \in queue \ kept} IN
    /\ Spend("settings") /\ SettledBy(c)
    /\ conditions' = c
    /\ lookups' = lookups \cup Scan(Keeps("Backlog", c) /\ ~Keeps("Backlog", conditions))
    /\ scanning' = (scanning \/ (Keeps("Backlog", c) /\ ~Keeps("Backlog", conditions)))
    /\ skip' = IF conditions.enabled /\ ~c.enabled THEN {} ELSE skip
    /\ ThenPump(kept, IF running # NoJob /\ ~Keeps(running.job.kind, c)
                      THEN Stopped({running.job.key}) ELSE running, c)
    /\ wanted' = {m \in wanted : StillWanted(m, c)}
    /\ UNCHANGED <<seq, swept, rows, coreVars, refused, goneVars>>
    /\ Refresh((IF conditions.enabled = c.enabled THEN dropped ELSE Views) \cup Started,
               posted, <<>>)
    /\ UNCHANGED shown

\* transcribe: a queued job is moved up, else the message is looked up.
Transcribe(m) ==
    /\ Spend("tap")
    /\ m \in Views /\ status[m] # "absent"
    /\ conditions.enabled /\ ~(running # NoJob /\ running.job.key = m)
    /\ wanted' = wanted \cup {m} /\ refused' = refused \ {m}
    /\ slipped' = IF status[m] = "gone" THEN slipped \cup {m} ELSE slipped
    /\ \/ /\ Live(m)
          /\ ThenPump(WithJobs({m}, "Manual"), running, conditions)
          /\ seq' = seq + 1
          /\ UNCHANGED <<conditions, swept, scanning, skip, lookups, rows>>
          /\ Refresh({m} \cup Started, posted, <<>>)
       \/ /\ ~Live(m)
          /\ lookups' = lookups \cup {NewLookup("tap", "loading", {m})}
          /\ UNCHANGED <<hubVars, rows, replies, posted>>
    /\ UNCHANGED <<shown, coreVars, unswept, untold>>

\* transcribe_chat.
TranscribeChat ==
    /\ Spend("chat")
    /\ conditions.enabled
    /\ lookups' = lookups \cup {NewLookup("chat", "listing", {})}
    /\ UNCHANGED <<hubVars, showVars, rows, coreVars, ghostVars>>

\* cancel.
Cancel(m) ==
    /\ Spend("cancel")
    /\ m \in Views /\ Live(m)
    /\ queue' = Without({m}) /\ running' = Stopped({m})
    /\ wanted' = wanted \ {m}
    /\ UNCHANGED <<conditions, seq, swept, scanning, skip, lookups, rows, coreVars, refused,
                   goneVars>>
    /\ Refresh({m}, posted, <<>>)
    /\ UNCHANGED shown

\* watch: a view of m comes up, and shows nothing yet.
Watch(m) ==
    /\ Spend("watch")
    /\ shown' = [shown EXCEPT ![m] = "none"]
    /\ UNCHANGED <<hubVars, lookups, rows, coreVars, ghostVars>>
    /\ Refresh({m}, posted, <<>>)

\* connected: the core runs; the first time, rows of gone messages are swept.
Connected ==
    /\ Spend("connect")
    /\ swept' = TRUE
    /\ lookups' = lookups \cup (IF swept THEN {} ELSE {NewLookup("sweep", "listing", {})})
                          \cup Scan(Keeps("Backlog", conditions))
    /\ scanning' = (scanning \/ Keeps("Backlog", conditions))
    /\ UNCHANGED <<conditions, queue, running, seq, skip, showVars, rows, coreVars, ghostVars>>

-----------------------------------------------------------------------------
(* Tasks on the runtime *)

Becomes(t, u) == lookups' = (lookups \ {t}) \cup {u}
Ends(t) == lookups' = lookups \ {t}
Many(t) == t.kind \in {"scan", "chat"}

\* The core is asked which profiles or messages there are.
Listing(t) ==
    /\ t.phase = "listing"
    /\ Becomes(t, [t EXCEPT !.phase = "known", !.profiles = profiles,
                            !.keys = IF Many(t) THEN Voices ELSE {}])
    /\ UNCHANGED <<hubVars, showVars, rows, coreVars, budget, ghostVars>>

\* The store is asked: a row is enough for an arrival; what has one is not looked up
\* again; rows of gone profiles go.
Known(t) ==
    /\ t.phase = "known"
    /\ \/ /\ t.kind = "arrived"
          /\ Becomes(t, IF \E m \in t.keys : rows[m] # "none"
                        THEN [t EXCEPT !.phase = "answered", !.found = "none"]
                        ELSE [t EXCEPT !.phase = "loading"])
          /\ UNCHANGED <<rows, slipped, unswept>>
       \/ /\ Many(t)
          /\ Becomes(t, [t EXCEPT !.phase = "loading", !.keys = {m \in @ : rows[m] = "none"}])
          /\ UNCHANGED <<rows, slipped, unswept>>
       \/ /\ t.kind \in {"sweep", "accounts"}
          /\ rows' = [m \in Msgs |-> IF m \in GoneIn(t.profiles) THEN "none" ELSE rows[m]]
          /\ Becomes(t, IF t.kind = "sweep"
                        THEN [t EXCEPT !.phase = "loading", !.keys = {m \in Msgs : rows'[m] # "none"}]
                        ELSE [t EXCEPT !.phase = "answered"])
          /\ slipped' = slipped \cup {m \in GoneIn(t.profiles) : Live(m) \/ m \in LookedUp}
          /\ unswept' = unswept \ GoneIn(t.profiles)
    /\ UNCHANGED <<hubVars, showVars, coreVars, budget, wishVars, untold>>

\* The core is asked for the messages, or which of them exist, and the rows of the
\* others are deleted.
Loading(t) ==
    /\ t.phase = "loading"
    /\ \/ /\ t.kind = "arrived" /\ t.keys \subseteq Voices
          /\ Becomes(t, [t EXCEPT !.phase = "answered"])
          /\ UNCHANGED rows
       \/ /\ t.kind = "arrived" /\ ~(t.keys \subseteq Voices)
          /\ Ends(t)
          /\ UNCHANGED rows
       \/ /\ t.kind = "tap"
          /\ Becomes(t, [t EXCEPT !.phase = "answered",
                                  !.found = IF t.keys \subseteq Voices THEN "some" ELSE "none"])
          /\ UNCHANGED rows
       \/ /\ Many(t)
          /\ Becomes(t, [t EXCEPT !.phase = "answered", !.keys = @ \cap Voices])
          /\ UNCHANGED rows
       \/ /\ t.kind = "sweep"
          /\ rows' = [m \in Msgs |-> IF m \in t.keys /\ status[m] = "gone" THEN "none" ELSE rows[m]]
          /\ Becomes(t, [t EXCEPT !.phase = "answered"])
    /\ UNCHANGED <<hubVars, showVars, coreVars, budget, ghostVars>>

\* The rows sweep t would have deleted.
ToDelete(t) ==
    {m \in Msgs : status[m] = "gone" /\ rows[m] # "none" /\ (t.phase = "listing" \/ m \in t.keys)}

\* A call to the core fails: a tap or a search is told so; nobody hears of an arrival, or of
\* the profiles, again; a sweep has deleted the rows of some, and is not made again.
Fails(t) ==
    /\ Spend("fail")
    /\ t.phase \in {"listing", "loading"}
    /\ \/ /\ t.kind = "tap" \/ Many(t)
          /\ Becomes(t, [t EXCEPT !.phase = "answered", !.found = "error"])
          /\ UNCHANGED <<rows, ghostVars>>
       \/ /\ t.kind = "arrived"
          /\ Ends(t)
          /\ refused' = refused \cup {m \in t.keys : ~Pursued(m, lookups \ {t})}
          /\ UNCHANGED <<rows, wanted, goneVars>>
       \/ /\ t.kind = "accounts"
          /\ Ends(t)
          /\ unswept' = unswept \cup {m \in GoneIn(profiles) :
                                        rows[m] # "none" \/ Live(m) \/ m \in LookedUp}
          /\ UNCHANGED <<rows, wishVars, slipped, untold>>
       \/ /\ t.kind = "sweep"
          /\ Ends(t)
          /\ \E ms \in SUBSET {m \in ToDelete(t) : t.phase = "loading"} :
                /\ rows' = [m \in Msgs |-> IF m \in ms THEN "none" ELSE rows[m]]
                /\ unswept' = unswept \cup (ToDelete(t) \ ms)
                /\ untold' = untold \cup ms \cup {m \in GoneIn(t.profiles) : t.phase = "loading"}
          /\ UNCHANGED <<wishVars, slipped>>
    /\ UNCHANGED <<hubVars, showVars, coreVars>>

-----------------------------------------------------------------------------
(* The Qt thread: answers *)

\* Those of ms are queued as kind, and pump runs.
QueueAll(ms, kind) ==
    LET taken == Taken(ms, kind) IN
    /\ seq' = seq + Cardinality(taken)
    /\ ThenPump(WithJobs(taken, kind), running, conditions)
    /\ wanted' = wanted \cup Queued(taken, kind) /\ refused' = refused \ Queued(taken, kind)
    /\ UNCHANGED rows
    /\ Refresh(Queued(taken, kind) \cup Started, posted, <<>>)

\* Only one: pump runs if it is queued or moved up.
QueueOne(ms, kind) ==
    \/ Queued(Taken(ms, kind), kind) # {} /\ QueueAll(ms, kind)
    \/ /\ Queued(Taken(ms, kind), kind) = {}
       /\ seq' = seq + Cardinality(Taken(ms, kind))
       /\ UNCHANGED <<queue, running, replies, posted, rows, wishVars>>

\* arrived, done: a voice message of somebody else is queued, else not looked up again.
ArrivalFound(t) ==
    /\ t.kind = "arrived" /\ t.phase = "answered"
    /\ Ends(t)
    /\ UNCHANGED <<conditions, swept, scanning, shown, coreVars, budget, goneVars>>
    /\ IF t.found = "some" /\ t.keys \cap Own = {}
       THEN QueueOne(t.keys, "New") /\ UNCHANGED skip
       ELSE skip' = skip \cup t.keys /\ UNCHANGED <<queue, running, seq, replies, posted, rows, wishVars>>

\* transcribe, done: queued, or a row says why not.
TapFound(t) ==
    LET m == CHOOSE k \in t.keys : TRUE IN
    /\ t.kind = "tap" /\ t.phase = "answered"
    /\ Ends(t)
    /\ UNCHANGED <<conditions, swept, scanning, shown, coreVars, budget, goneVars>>
    /\ \/ t.found = "some" /\ QueueOne(t.keys, "Manual") /\ UNCHANGED skip
       \/ /\ t.found # "some"
          /\ Write(m, "failed")
          /\ replies' = replies \o Answer(m, "failed")
          /\ UNCHANGED <<queue, running, seq, posted, wishVars>>

\* Mutant: a search that failed is never over.
ManyFoundIfAny(t) ==
    /\ Many(t) /\ t.phase = "answered"
    /\ Ends(t)
    /\ UNCHANGED <<conditions, swept, skip, shown, coreVars, budget, goneVars>>
    /\ scanning' = (scanning /\ (t.kind = "chat" \/ t.found = "error"))
    /\ IF t.found = "error" THEN UNCHANGED <<queue, running, seq, replies, posted, rows, wishVars>>
       ELSE IF t.kind = "chat" THEN QueueAll(t.keys, "Manual") ELSE QueueAll(t.keys \ Own, "Backlog")

\* scan_backlog, transcribe_chat, done.
ManyFound(t) ==
    /\ Many(t) /\ t.phase = "answered"
    /\ Ends(t)
    /\ UNCHANGED <<conditions, swept, skip, shown, coreVars, budget, goneVars>>
    /\ scanning' = (scanning /\ t.kind = "chat")
    /\ IF t.found = "error" THEN UNCHANGED <<queue, running, seq, replies, posted, rows, wishVars>>
       ELSE IF t.kind = "chat" THEN QueueAll(t.keys, "Manual") ELSE QueueAll(t.keys \ Own, "Backlog")

\* after_accounts: jobs of gone profiles go, views are refreshed.
AfterAccounts(t) ==
    LET gone == {m \in GoneIn(t.profiles) : Live(m)} IN
    /\ t.kind \in {"sweep", "accounts"} /\ t.phase = "answered"
    /\ Ends(t)
    /\ queue' = Without(gone) /\ running' = Stopped(gone)
    /\ wanted' = wanted \ gone
    /\ UNCHANGED <<conditions, seq, swept, scanning, skip, shown, rows, coreVars, budget, refused,
                   goneVars>>
    /\ Refresh(Views, posted, <<>>)

\* on_report, Done: a job stopped for the power is queued again, one that ended gets
\* its row; pump runs.
RunEnded ==
    LET m == running.job.key
        row == IF running.result = "ok" THEN "done" ELSE "failed"
    IN
    /\ running # NoJob /\ running.result # "none"
    /\ ThenPump(queue \cup (IF running.result = "cancelled" /\ running.requeue THEN {running.job}
                            ELSE {}), NoJob, conditions)
    /\ UNCHANGED <<conditions, seq, swept, scanning, lookups, shown, coreVars, budget, ghostVars>>
    /\ LET next == IF running' = NoJob THEN {} ELSE {running'.job.key} IN
       \/ /\ running.result = "cancelled"
          /\ UNCHANGED <<rows, skip>>
          /\ Refresh({m} \cup next, posted, <<>>)
       \/ /\ running.result # "cancelled"
          /\ Write(m, row)
          /\ Refresh(next, posted, Answer(m, row))

\* The store's thread posts its next answer.
StorePosts ==
    /\ replies # <<>>
    /\ replies' = Tail(replies)
    /\ posted' = Append(posted, Head(replies))
    /\ UNCHANGED <<hubVars, lookups, rows, shown, coreVars, budget, ghostVars>>

\* Mutant: an answer is shown as it comes, whatever it answers.
ApplyAny ==
    LET m == Head(posted).key IN
    /\ posted # <<>>
    /\ posted' = Tail(posted)
    /\ shown' = [shown EXCEPT ![m] = IF Live(m) THEN "queued" ELSE Head(posted).row]
    /\ UNCHANGED <<hubVars, lookups, rows, replies, coreVars, budget, ghostVars>>

\* apply: the queue's state, else the row that was read.
Apply ==
    LET m == Head(posted).key IN
    /\ posted # <<>> /\ Head(posted).row # "again"
    /\ posted' = Tail(posted)
    /\ shown' = [shown EXCEPT ![m] =
                    IF ~conditions.enabled THEN "none"
                    ELSE CASE running # NoJob /\ running.job.key = m -> "running"
                           [] \E j \in queue : j.key = m             -> "queued"
                           [] OTHER                                  -> Head(posted).row]
    /\ UNCHANGED <<hubVars, lookups, rows, replies, coreVars, budget, ghostVars>>

\* deleted, the store's answer.
ApplyDeleted ==
    /\ posted # <<>> /\ Head(posted).row = "again"
    /\ UNCHANGED <<hubVars, lookups, rows, shown, coreVars, budget, ghostVars>>
    /\ Refresh({Head(posted).key}, Tail(posted), <<>>)

-----------------------------------------------------------------------------
(* The speech thread *)

\* run: stopped only if told so; told late, it may end all the same.
RunEnds(result) ==
    /\ running # NoJob /\ running.result = "none"
    /\ result = "cancelled" => running.cancel
    /\ running' = [running EXCEPT !.result = result]
    /\ UNCHANGED <<conditions, queue, seq, swept, scanning, skip, lookups, showVars, rows,
                   coreVars, budget, ghostVars>>

-----------------------------------------------------------------------------
(* Specification *)

\* An earlier run has left rows, of messages that are gone by now among them.
Init ==
    /\ conditions \in AtStart
    /\ queue = {} /\ running = NoJob /\ seq = 0
    /\ swept = FALSE /\ scanning = FALSE /\ skip = {}
    /\ lookups = {} /\ replies = <<>> /\ posted = <<>>
    /\ rows \in [Msgs -> {"none", "done"}]
    /\ \A m \in Msgs \ Older : rows[m] = "none"
    /\ shown = [m \in Views |-> IF conditions.enabled THEN rows[m] ELSE "none"]
    /\ status \in [Msgs -> {"absent", "there", "gone"}]
    /\ \A m \in Msgs : status[m] = "absent" <=> m \notin Older
    /\ \A m \in Msgs : status[m] = "gone" => rows[m] = "done"
    /\ profiles = Profiles /\ events = <<>>
    /\ budget \in Budgets
    /\ wanted = {} /\ refused = {} /\ slipped = {} /\ unswept = {} /\ untold = {}

\* The app, the core and the power.
Environment ==
    \/ \E m \in Msgs : \/ \E how \in {"partial", "there"} : CoreArrives(m, how)
                       \/ CoreDownloads(m) \/ CoreDeletes(m)
    \/ \E p \in Profiles : CoreRemoves(p)
    \/ \E c \in Settings : SetConditions(c)
    \/ \E m \in Views : Transcribe(m) \/ Cancel(m) \/ Watch(m)
    \/ TranscribeChat \/ Connected

QtThread ==
    \/ Arrived \/ Deleted \/ AccountsChanged
    \/ \E t \in lookups : ArrivalFound(t) \/ TapFound(t) \/ ManyFound(t) \/ AfterAccounts(t)
    \/ RunEnded \/ Apply \/ ApplyDeleted

Tasks == \E t \in lookups : Listing(t) \/ Known(t) \/ Loading(t)

Speech == \E result \in {"ok", "failed", "cancelled"} : RunEnds(result)

Next ==
    \/ Environment \/ QtThread \/ Tasks \/ StorePosts \/ Speech
    \/ \E t \in lookups : Fails(t)

Spec == Init /\ [][Next]_vars

\* Threads run, the core answers and a run ends; nobody has to touch anything.  As
\* every step but a restart of a job is one of finitely many, it is enough that
\* something goes on while something can.
FairSpec == Spec /\ WF_vars(QtThread \/ Tasks \/ StorePosts \/ Speech)

-----------------------------------------------------------------------------
(* Properties *)

\* Every variable keeps to its range.
TypeOK ==
    /\ conditions \in Conditions
    /\ \A j \in queue : j \in Job
    /\ running = NoJob \/ running \in Run
    /\ seq \in Nat /\ swept \in BOOLEAN /\ scanning \in BOOLEAN /\ skip \subseteq Msgs
    /\ \A t \in lookups : t \in Lookup
    /\ \A i \in DOMAIN replies : replies[i] \in [key : Views, row : Rows \cup {"again"}]
    /\ \A i \in DOMAIN posted : posted[i] \in [key : Views, row : Rows \cup {"again"}]
    /\ rows \in [Msgs -> Rows] /\ shown \in [Views -> Shown]
    /\ status \in [Msgs -> {"absent", "partial", "there", "gone"}] /\ profiles \subseteq Profiles
    /\ wanted \subseteq Msgs /\ refused \subseteq Msgs
    /\ slipped \subseteq Msgs /\ unswept \subseteq Msgs /\ untold \subseteq Msgs

\* A message has one job at most, queued or running, whatever taps, events and
\* searches name it at once (enqueue, and the requeue of on_report).
OneJobEach ==
    \A j \in queue : /\ \A k \in queue : j.key = k.key => j = k
                     /\ running # NoJob => running.job.key # j.key

\* A message to be transcribed is not forgotten while its job is looked up, moved up,
\* stopped for the power and taken back, or passed over because of its row: until
\* the reader, its deletion or the settings drop it, it is looked up for its own sake, has
\* a job or has its row (skip, requeue).  One exception: an arrival whose get_message the
\* core refuses, with no tap, job or other lookup after it by then, is not asked for again
\* (hub.rs:775-777), until the next event, tap or search that names it.
NothingLost ==
    \A m \in wanted \ refused : status[m] = "there" => rows[m] # "none" \/ Pursued(m, lookups)

\* Nothing is under way but jobs that wait.
Quiet == /\ events = <<>> /\ lookups = {} /\ running = NoJob
         /\ replies = <<>> /\ posted = <<>>

\* The text of a message that is gone does not stay.  Three exceptions: it was being made
\* or looked up when its row was deleted, or the reader tapped it afterwards (slipped); a
\* sweep that failed left it, and no later sweep is made (hub.rs:849, 868-871); a look at
\* the profiles that failed left it, its job or its lookup, and no later one has found its
\* profile gone (accounts_changed; unswept).
GoneLeavesNoRow ==
    Quiet /\ swept =>
        \A m \in Msgs : status[m] = "gone" /\ rows[m] # "none" => m \in slipped \cup unswept

\* What a view of m is to show: the queue's state, else the row's.
ToShow(m) ==
    IF ~conditions.enabled THEN "none"
    ELSE IF running # NoJob /\ running.job.key = m THEN "running"
    ELSE IF \E j \in queue : j.key = m THEN "queued"
    ELSE rows[m]

\* A view at rest shows the state of its message, however answers of the store crossed
\* changes of the queue (refresh, apply); but a sweep that fails after it has deleted rows
\* refreshes no view, and the text of a message that is gone may stay in sight.
ShownInSync ==
    replies = <<>> /\ posted = <<>> /\ (\A t \in lookups : t.kind \notin {"sweep", "accounts"}) =>
        \A m \in Views :
            shown[m] = ToShow(m) \/ (m \in untold /\ status[m] = "gone" /\ rows[m] = "none")

\* In the end no job waits that may run: the queue is drained, after jobs that were
\* stopped, dropped or refused (pump), and searches are open to be made again.
NoneWaitsInVain ==
    <>[](/\ running = NoJob /\ lookups = {} /\ ~scanning
         /\ \A j \in queue : ~MayRun(j.kind, conditions))

\* keeps: "Job of `kind` stays queued under these settings; else dropped (would never
\* run)" (schedule.rs:59).
QueueKept == \A j \in queue : Keeps(j.kind, conditions)
=============================================================================
