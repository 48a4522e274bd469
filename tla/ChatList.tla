------------------------------ MODULE ChatList ------------------------------
(***************************************************************************)
(* The chat list of one account (piirit-shim/src/chatlist.rs): rows held   *)
(* on the Qt thread, brought in line with the core by refreshes that run   *)
(* as tasks, each reading the listing first and some rows after it, while  *)
(* the core goes on changing and its events arrive through a queue.        *)
(*                                                                         *)
(* A row is abstracted to the account it was read from, the version of the *)
(* chat and the version of the transcript it previews: two rows are equal  *)
(* exactly if those are.  The order of the rows is left out; the set of    *)
(* listed chats stands for "set of chats or order".                        *)
(***************************************************************************)
EXTENDS Integers, Sequences, FiniteSets

CONSTANTS
    Accounts,       \* configured accounts
    NoAccount,      \* account_id 0
    Chats,          \* chat ids; the same id in two accounts is two chats
    NoChat,         \* event without a chat id (absent, null or 0)
    Modes,          \* archived x for_forwarding: which listing is asked for
    Ordinary,       \* the mode a list starts in
    Queries,        \* search texts
    NoQuery,        \* the empty search, which matches all
    Matches,        \* [Queries -> SUBSET Chats]: what the core finds
    VoiceChats,     \* chats whose last message is a voice message
    MutedChats,     \* muted chats
    NoRow,          \* no row held for a chat
    Screenful,      \* FIRST_SCREENFUL
    Budgets         \* subset of [BudgetKinds -> Nat]: bounds on what the environment does

\* What the environment may do, each at most so often in a behaviour as its budget says.
BudgetKinds == {"change", "listing", "overflow", "act", "account", "query",
                "mode", "pause", "reload", "transcript", "switch", "fail", "die"}

ASSUME ChatListAssumption ==
    /\ NoAccount \notin Accounts
    /\ NoChat \notin Chats
    /\ Ordinary \in Modes
    /\ Matches \in [Queries -> SUBSET Chats]
    /\ NoQuery \in Queries /\ Matches[NoQuery] = Chats
    /\ VoiceChats \subseteq Chats
    /\ MutedChats \subseteq Chats
    /\ NoRow \notin [account : Accounts, version : Nat, text : Nat]
    /\ Screenful \in Nat \ {0}
    /\ Budgets \subseteq [BudgetKinds -> Nat]

VARIABLES
    \* the core, its server process and the transcript store
    version,    \* [Accounts -> [Chats -> Nat]]: contents of each chat's row
    listed,     \* [Accounts -> [Modes -> SUBSET Chats]]
    events,     \* core events not yet handled by the list, oldest first
    server,     \* "up", "dead" (unnoticed) or "down" (connection() is None)
    text,       \* [Accounts -> [Chats -> Nat]]: stored transcript, 0 if none
    enabled,    \* transcripts switched on
    epoch,      \* transcripts::epoch
    untold,     \* rows stored whose tell() has not run
    told,       \* changes told, their queued callback not yet run
    \* what QML sets
    account, mode, query, paused,
    \* the list's own fields
    rows,       \* all_rows
    awaiting, asking, inFlight, generation, again, restartDue,
    following, askedEpoch, pendingAnnouncements, mentioned, pendingRestatements,
    \* callbacks and tasks under way
    kicks,      \* queued kicks of restart()
    acts,       \* row actions the core has done, answer not landed
    checks,     \* mention checks not answered
    tasks,      \* refreshes under way
    outdated,   \* history: rows left with an older transcript than there is
    budget

coreVars   == <<version, listed, events, server, text, enabled, epoch, untold, told>>
qmlVars    == <<account, mode, query, paused>>
askVars    == <<awaiting, asking, inFlight, generation, again, following, askedEpoch, tasks,
                outdated>>
statedVars == <<pendingAnnouncements, mentioned, pendingRestatements>>
vars == <<coreVars, qmlVars, rows, askVars, restartDue, statedVars, kicks, acts,
          checks, budget>>

-----------------------------------------------------------------------------
(* Data *)

Row == [account : Accounts, version : Nat, text : Nat]

\* Awaiting: Nothing, Chats(set) or Everything.
Awaiting   == [everything : BOOLEAN, chats : SUBSET Chats]
Nothing    == [everything |-> FALSE, chats |-> {}]
Everything == [everything |-> TRUE, chats |-> {}]
Owes(a, c) == a.everything \/ c \in a.chats

\* Awaiting::merge.
Merge(a, b) ==
    IF a.everything \/ b.everything THEN Everything
    ELSE [everything |-> FALSE, chats |-> a.chats \cup b.chats]

\* Refresh: All, Order and One(chat), each as what Awaiting::add makes owed.
All    == Everything
Order  == Nothing
One(c) == [everything |-> FALSE, chats |-> {c}]

EventKinds == {"IncomingMsg", "MsgsChanged", "ChatlistItemChanged",
               "ChatlistChanged", "EventChannelOverflow"}
Event == [account : Accounts, kind : EventKinds, chat : Chats \cup {NoChat}]
EventOf(a, kind, c) == [account |-> a, kind |-> kind, chat |-> c]

\* Mutants: a dropped-events notice taken for a new order; chat id 0 for a chat.
ScopeMissesOverflow(e) ==
    CASE e.chat # NoChat -> One(e.chat)
      [] e.kind = "EventChannelOverflow" -> Order
      [] OTHER -> IF e.kind = "ChatlistChanged" THEN Order ELSE All
ScopeOfZero(e) == IF e.kind = "EventChannelOverflow" THEN All ELSE One(e.chat)

\* How much an event makes the list re-read.
Scope(e) ==
    CASE e.kind = "EventChannelOverflow"                  -> All
      [] e.kind # "EventChannelOverflow" /\ e.chat # NoChat -> One(e.chat)
      [] e.kind = "ChatlistChanged" /\ e.chat = NoChat    -> Order
      [] OTHER                                            -> All

\* chat_entries: archived listing and search are intersected.
Entries(a, m, q) == listed[a][m] \cap Matches[q]

NoRows == [c \in Chats |-> NoRow]

\* Transcript a preview shows now; other rows keep the core's words.
TextNow(a, c) == IF enabled /\ c \in VoiceChats THEN text[a][c] ELSE 0

Spend(kind) ==
    /\ budget[kind] > 0
    /\ budget' = [budget EXCEPT ![kind] = @ - 1]

-----------------------------------------------------------------------------
(* Asking the core *)

NewTask(held, ask) ==
    [gen      |-> generation + 1, account |-> account, mode |-> mode,
     query    |-> query,          cached  |-> held,    previews |-> enabled,
     asked    |-> ask,
     phase    |-> IF server' = "up" THEN "listing" ELSE "lost",
     entries  |-> {},             wanted  |-> {},      rest |-> {},
     fresh    |-> NoRows,         early   |-> {}]

\* Transcripts changed since the refresh in flight read them.
TextsNeverMove == FALSE    \* mutant
TextsMoved == askedEpoch # epoch

\* Voice rows a first load under way has shown early, with transcripts since changed.
ShownOld(held, flying, running) ==
    {c \in VoiceChats : /\ held[c] # NoRow /\ TextsMoved
                        /\ \E t \in running : t.gen = flying /\ t.cached = NoRows}

\* What the refresh in flight, about to be replaced, asks.
Replaced(flying) == IF flying # 0 THEN asking ELSE Nothing

\* start_refresh with `held` as all_rows, `owed` as awaiting, `flying` as
\* in_flight (0: None) and `running` the tasks already under way.  `owed` is
\* asked together with what the refresh it replaces asked.
StartRefresh(held, owed, flying, running) ==
    LET ask == Replaced(flying) IN
    /\ again' = FALSE
    /\ IF account = NoAccount \/ server' = "down"
       THEN /\ awaiting' = owed
            /\ asking' = ask
            /\ inFlight' = flying
            /\ tasks' = running
            /\ UNCHANGED <<generation, following, askedEpoch, outdated>>
       ELSE /\ awaiting' = Nothing
            /\ asking' = Merge(owed, ask)
            /\ generation' = generation + 1
            /\ inFlight' = generation + 1
            /\ following' = TRUE
            /\ askedEpoch' = epoch
            /\ tasks' = running \cup {NewTask(held, Merge(owed, ask))}
            /\ outdated' = {c \in outdated \cup ShownOld(held, flying, running) :
                               held[c] # NoRow /\ ~Owes(Merge(owed, ask), c)}

\* refresh_announcing, its announcement apart: noted while one is in flight,
\* paused or about to restart, else asked at once.
RefreshOwing(owed) ==
    IF account = NoAccount THEN UNCHANGED askVars
    ELSE IF paused \/ inFlight # 0 \/ restartDue
    THEN /\ awaiting' = owed
         /\ again' = TRUE
         /\ UNCHANGED <<asking, inFlight, generation, following, askedEpoch, tasks,
                        outdated>>
    ELSE StartRefresh(rows, owed, inFlight, tasks)

Refresh(scope) == RefreshOwing(Merge(awaiting, scope))

\* restart: answered from the event loop, once QML has set every property.
Restart(scope) ==
    /\ awaiting' = Merge(awaiting, scope)
    /\ restartDue' = TRUE
    /\ kicks' = IF restartDue THEN kicks ELSE kicks + 1
    /\ UNCHANGED <<asking, inFlight, generation, again, following, askedEpoch, tasks,
                   outdated>>

\* The kick restart() queued; a paused list leaves restart_due for set_paused.
Kick ==
    /\ kicks > 0
    /\ kicks' = kicks - 1
    /\ UNCHANGED <<coreVars, qmlVars, rows, statedVars, acts, checks, budget>>
    /\ IF paused THEN UNCHANGED <<askVars, restartDue>>
       ELSE /\ restartDue' = FALSE
            /\ StartRefresh(rows, awaiting, inFlight, tasks)

-----------------------------------------------------------------------------
(* QML: properties and methods *)

SetAccount(a) ==
    /\ Spend("account")
    /\ account # a
    /\ account' = a
    /\ Restart(All)
    /\ UNCHANGED <<coreVars, mode, query, paused, rows, statedVars, acts, checks>>

SetQuery(q) ==
    /\ Spend("query")
    /\ query # q
    /\ query' = q
    /\ Restart(Order)
    /\ UNCHANGED <<coreVars, account, mode, paused, rows, statedVars, acts, checks>>

\* set_archived, set_for_forwarding.
SetMode(m) ==
    /\ Spend("mode")
    /\ mode # m
    /\ mode' = m
    /\ Restart(All)
    /\ UNCHANGED <<coreVars, account, query, paused, rows, statedVars, acts, checks>>

\* Resuming has a refresh to start.
StartDueIfAgain == again /\ inFlight = 0    \* mutant
StartDue == restartDue \/ (again /\ inFlight = 0)

SetPaused ==
    /\ Spend("pause")
    /\ paused' = ~paused
    /\ UNCHANGED <<coreVars, account, mode, query, rows, statedVars, kicks, acts, checks>>
    /\ IF paused /\ StartDue
       THEN /\ restartDue' = FALSE
            /\ StartRefresh(rows, awaiting, inFlight, tasks)
       ELSE UNCHANGED <<askVars, restartDue>>

Reload ==
    /\ Spend("reload")
    /\ UNCHANGED <<coreVars, qmlVars, rows, restartDue, statedVars, kicks, acts, checks>>
    /\ Refresh(All)

\* act: mark read, pin, mute, archive, accept...  The core does it, with or
\* without an event of its own, before the answer lands (ActLands).
Act(c) ==
    /\ Spend("act")
    /\ account # NoAccount /\ server = "up"
    /\ version' = [version EXCEPT ![account][c] = @ + 1]
    /\ events' \in {events, Append(events, EventOf(account, "ChatlistItemChanged", c))}
    /\ acts' = acts \cup {<<account, c>>}
    /\ UNCHANGED <<listed, server, text, enabled, epoch, untold, told, qmlVars, rows,
                   askVars, restartDue, statedVars, kicks, checks>>

ActLands(act) ==
    /\ act \in acts
    /\ acts' = acts \ {act}
    /\ UNCHANGED <<coreVars, qmlVars, rows, restartDue, statedVars, kicks, checks, budget>>
    /\ Refresh(One(act[2]))

-----------------------------------------------------------------------------
(* Core events *)

\* is_muted reads the held row: an unlisted chat is new, hence not muted.
IsMuted(c) == rows[c] # NoRow /\ c \in MutedChats

\* handle_event on the oldest event.
HandleEvent ==
    /\ events # <<>>
    /\ LET e == Head(events)
           mine == account # NoAccount /\ e.account = account
           arrival == mine /\ e.kind = "IncomingMsg" /\ e.chat # NoChat
           restated == mine /\ e.kind = "MsgsChanged" /\ e.chat # NoChat
       IN  /\ events' = Tail(events)
           /\ UNCHANGED <<version, listed, server, text, enabled, epoch, untold, told,
                          qmlVars, rows, restartDue, mentioned, kicks, acts, budget>>
           /\ pendingAnnouncements' = pendingAnnouncements \cup
                                      (IF arrival THEN {e.chat} ELSE {})
           /\ pendingRestatements' = pendingRestatements \cup
                                     (IF restated THEN {e.chat} ELSE {})
           \* check_mention; without a connection nothing is asked.
           /\ checks' = IF arrival /\ IsMuted(e.chat) /\ server # "down"
                        THEN checks \cup {e.chat} ELSE checks
           /\ IF mine THEN Refresh(Scope(e)) ELSE UNCHANGED askVars

\* check_mention answered: the reader is mentioned, and the mute is passed once...
MentionFound(c) ==
    /\ c \in checks
    /\ checks' = checks \ {c}
    /\ mentioned' = mentioned \cup {c}
    /\ pendingAnnouncements' = IF account = NoAccount THEN pendingAnnouncements
                               ELSE pendingAnnouncements \cup {c}
    /\ UNCHANGED <<coreVars, qmlVars, rows, restartDue, pendingRestatements, kicks,
                   acts, budget>>
    /\ Refresh(One(c))

\* ...or is not, or the query failed.
MentionNotFound(c) ==
    /\ c \in checks
    /\ checks' = checks \ {c}
    /\ UNCHANGED <<coreVars, qmlVars, rows, askVars, restartDue, statedVars, kicks,
                   acts, budget>>

\* transcripts::follow's queued callback: voice rows `change` touches are owed
\* (without an account everything is owed already).  NoChat is Change::All.
TranscriptTold(change) ==
    LET touched == {c \in VoiceChats : /\ rows[c] # NoRow
                                       /\ change \in {NoChat, <<account, c>>}}
    IN  /\ change \in told
        /\ told' = told \ {change}
        /\ UNCHANGED <<version, listed, events, server, text, enabled, epoch, untold,
                       qmlVars, rows, restartDue, pendingAnnouncements, mentioned,
                       kicks, acts, checks, budget>>
        /\ pendingRestatements' = pendingRestatements \cup touched
        /\ IF touched = {} THEN UNCHANGED askVars
           ELSE Refresh([everything |-> FALSE, chats |-> touched])

-----------------------------------------------------------------------------
(* The task of a refresh: listing, rows, transcripts, rest, result *)

Step(t, u) == tasks' = (tasks \ {t}) \cup {u}

taskFrame == <<coreVars, qmlVars, rows, awaiting, asking, inFlight, generation, again,
               following, askedEpoch, outdated, restartDue, statedVars, kicks, acts, checks>>

\* chat_entries answered: asked and unlisted chats are read, on a first load a
\* screenful of them first.
ReadListing(t) ==
    /\ t.phase = "listing" /\ server = "up"
    /\ UNCHANGED <<taskFrame, budget>>
    /\ LET entries == Entries(t.account, t.mode, t.query)
           want == {c \in entries : Owes(t.asked, c) \/ t.cached[c] = NoRow}
           first == IF t.cached = NoRows /\ Cardinality(want) > Screenful
                    THEN {s \in SUBSET want : Cardinality(s) = Screenful}
                    ELSE {want}
       IN  \E s \in first :
             Step(t, [t EXCEPT !.entries = entries, !.wanted = s, !.rest = want \ s,
                               !.phase = IF s = {} THEN "done" ELSE "items"])

\* chat_items answered.
ReadItems(t) ==
    /\ t.phase = "items" /\ server = "up"
    /\ UNCHANGED <<taskFrame, budget>>
    /\ Step(t, [t EXCEPT !.phase = "texts",
                         !.fresh = [c \in Chats |-> IF c \in t.wanted
                            THEN [account |-> t.account,
                                  version |-> version[t.account][c], text |-> 0]
                            ELSE t.fresh[c]]])

\* with_transcripts answered: the store is read if previews were on when the
\* refresh started.  With more to read, what is there is posted early.
ReadTexts(t) ==
    /\ t.phase = "texts"
    /\ UNCHANGED <<taskFrame, budget>>
    /\ Step(t, [t EXCEPT
         !.phase = IF t.rest = {} THEN "done" ELSE "items",
         !.early = IF t.rest = {} THEN t.early ELSE t.wanted,
         !.wanted = IF t.rest = {} THEN t.wanted ELSE t.rest,
         !.rest = {},
         !.fresh = [c \in Chats |-> IF c \in t.wanted /\ c \in VoiceChats /\ t.previews
                      THEN [t.fresh[c] EXCEPT !.text = text[t.account][c]]
                      ELSE t.fresh[c]]])

\* A call of the task fails: the core refused it, or...
Refused(t) ==
    /\ Spend("fail")
    /\ t.phase \in {"listing", "items"} /\ server = "up"
    /\ UNCHANGED taskFrame
    /\ Step(t, [t EXCEPT !.phase = "failed"])

\* ...the server it was sent to is gone: told at once, or by the call's timeout
\* when another server is up already.
CutOff(t) ==
    /\ t.phase = "lost"
    /\ UNCHANGED <<taskFrame, budget>>
    /\ Step(t, [t EXCEPT !.phase = "failed"])

\* The screenful comes from the newest refresh.
NewestAnyway(t) == TRUE    \* mutant
Newest(t) == t.gen = generation

\* show_early: the screenful becomes the rows unless a newer refresh started.
ShowEarly(t) ==
    /\ t.early # {}
    /\ Step(t, [t EXCEPT !.early = {}])
    /\ rows' = IF Newest(t) THEN [c \in Chats |-> IF c \in t.early THEN t.fresh[c] ELSE NoRow]
               ELSE rows
    /\ UNCHANGED <<coreVars, qmlVars, awaiting, asking, inFlight, generation, again,
                   following, askedEpoch, outdated, restartDue, statedVars, kicks, acts,
                   checks, budget>>

\* Order from the core; contents from the fetch, else the row held at the start.
Result(t) ==
    [c \in Chats |-> IF c \notin t.entries THEN NoRow
                     ELSE IF t.fresh[c] # NoRow THEN t.fresh[c] ELSE t.cached[c]]

\* Chats the landing of `held` says something of (settled_announcements).
Announced(held) ==
    {c \in pendingAnnouncements : held[c] # NoRow
                                  /\ (c \notin MutedChats \/ c \in mentioned)}

landFrame == <<coreVars, qmlVars, restartDue, kicks, acts, checks, budget>>

\* The landing refresh is the one in flight.
Current(t) == t.gen = inFlight

\* landed, superseded: a newer refresh asks this one's chats too.
LandStale(t) ==
    /\ t.phase \in {"done", "failed"} /\ t.early = {}
    /\ ~Current(t)
    /\ tasks' = tasks \ {t}
    /\ UNCHANGED <<landFrame, rows, statedVars, awaiting, asking, inFlight, generation,
                   again, following, askedEpoch, outdated>>

\* What is owed once a refresh failed.
OwedAnyway == awaiting    \* mutant: what was asked is taken for answered
OwedAfterError == Merge(awaiting, asking)

\* What a landing does last: ask again if asked meanwhile.
AskAgain(held, owed, wanted, t) ==
    IF wanted /\ ~paused /\ ~restartDue
    THEN StartRefresh(held, owed, 0, tasks \ {t})
    ELSE /\ awaiting' = owed
         /\ asking' = Nothing
         /\ inFlight' = 0
         /\ again' = wanted
         /\ tasks' = tasks \ {t}
         /\ UNCHANGED <<generation, following, askedEpoch, outdated>>

\* landed with rows: shown, announcements and restatements settled, voice rows
\* owed again if a transcript changed since they were asked.
LandRows(t) ==
    LET held == Result(t)
        voice == {c \in VoiceChats : held[c] # NoRow}
        stale == TextsMoved /\ voice # {}
    IN  /\ t.phase = "done" /\ t.early = {}
        /\ Current(t)
        /\ UNCHANGED landFrame
        /\ rows' = held
        /\ pendingAnnouncements' = {}
        /\ mentioned' = mentioned \ pendingAnnouncements
        /\ pendingRestatements' = IF stale THEN voice ELSE {}
        /\ AskAgain(held,
                    IF stale THEN Merge(awaiting, [everything |-> FALSE, chats |-> voice])
                    ELSE awaiting,
                    again \/ stale, t)

\* landed with an error: what was asked is owed again.
LandError(t) ==
    /\ t.phase = "failed" /\ t.early = {}
    /\ Current(t)
    /\ UNCHANGED <<landFrame, rows, statedVars>>
    /\ AskAgain(rows, OwedAfterError, again, t)

-----------------------------------------------------------------------------
(* The core and the transcript store: external to the list *)

coreFrame == <<qmlVars, rows, askVars, restartDue, statedVars, kicks, acts, checks>>

\* A chat's row changes; the core says so in one of several ways.
CoreChange(a, c) ==
    /\ Spend("change") /\ server = "up"
    /\ version' = [version EXCEPT ![a][c] = @ + 1]
    /\ \/ events' = events \o <<EventOf(a, "IncomingMsg", c),
                                EventOf(a, "ChatlistItemChanged", c)>>
       \/ events' = Append(events, EventOf(a, "MsgsChanged", c))
       \/ events' = Append(events, EventOf(a, "MsgsChanged", NoChat))
    /\ UNCHANGED <<listed, server, text, enabled, epoch, untold, told, coreFrame>>

\* A chat enters or leaves a listing (new chat, archive, delete).
ListingChange(a, m, c) ==
    /\ Spend("listing") /\ server = "up"
    /\ listed' = [listed EXCEPT ![a][m] = IF c \in @ THEN @ \ {c} ELSE @ \cup {c}]
    /\ events' = Append(events, EventOf(a, "ChatlistChanged", NoChat))
    /\ UNCHANGED <<version, server, text, enabled, epoch, untold, told, coreFrame>>

\* The core's event channel is full: events i..j are dropped, and said to be.
Overflow(i, j) ==
    /\ Spend("overflow") /\ server = "up"
    /\ events' = SubSeq(events, 1, i - 1)
                 \o <<EventOf(events[i].account, "EventChannelOverflow", NoChat)>>
                 \o SubSeq(events, j + 1, Len(events))
    /\ \A k \in i..j : events[k].account = events[i].account
    /\ UNCHANGED <<version, listed, server, text, enabled, epoch, untold, told, coreFrame>>

\* The server dies: events and answers not yet out are lost, calls fail.
ServerDies ==
    /\ Spend("die") /\ server = "up"
    /\ server' = "dead"
    /\ \E n \in 0..Len(events) : events' = SubSeq(events, 1, n)
    /\ acts' \in SUBSET acts
    /\ tasks' = {IF t.phase \in {"listing", "items"} THEN [t EXCEPT !.phase = "lost"] ELSE t :
                 t \in tasks}
    /\ UNCHANGED <<version, listed, text, enabled, epoch, untold, told, qmlVars, rows,
                   awaiting, asking, inFlight, generation, again, following, askedEpoch,
                   outdated, restartDue, statedVars, kicks, checks>>

\* schedule_restart: told in the same queue, after the events that did come.
ServerGone ==
    /\ server = "dead" /\ events = <<>>
    /\ server' = "down"
    /\ UNCHANGED <<version, listed, events, text, enabled, epoch, untold, told, coreFrame,
                   budget>>

\* spawn_server succeeds; status "ready" makes the page reload.
ServerBack ==
    /\ server = "down"
    /\ server' = "up"
    /\ UNCHANGED <<version, listed, events, text, enabled, epoch, untold, told, qmlVars,
                   rows, restartDue, statedVars, kicks, acts, checks, budget>>
    /\ Refresh(All)

\* hub::write: the row is in the store; tell() runs when the answer is back.
TranscriptStored(a, c) ==
    /\ Spend("transcript")
    /\ text' = [text EXCEPT ![a][c] = @ + 1]
    /\ untold' = untold \cup {<<a, c>>}
    /\ UNCHANGED <<version, listed, events, server, enabled, epoch, told, coreFrame>>

\* tell: the epoch moves, listeners get a queued callback.
Tell(key) ==
    /\ key \in untold
    /\ untold' = untold \ {key}
    /\ epoch' = epoch + 1
    /\ told' = IF following THEN told \cup {key} ELSE told
    /\ UNCHANGED <<version, listed, events, server, text, enabled, coreFrame, budget>>

\* set_conditions: transcripts switched on or off.
SwitchTranscripts ==
    /\ Spend("switch")
    /\ enabled' = ~enabled
    /\ epoch' = epoch + 1
    /\ told' = IF following THEN told \cup {NoChat} ELSE told
    /\ UNCHANGED <<version, listed, events, server, text, untold, coreFrame>>

-----------------------------------------------------------------------------
Init ==
    /\ version = [a \in Accounts |-> [c \in Chats |-> 0]]
    /\ listed = [a \in Accounts |-> [m \in Modes |-> Chats]]
    /\ events = <<>> /\ server = "up"
    /\ text = [a \in Accounts |-> [c \in Chats |-> 0]]
    /\ enabled = TRUE /\ epoch = 0 /\ untold = {} /\ told = {}
    /\ account = NoAccount
    /\ mode = Ordinary /\ query = NoQuery /\ paused = FALSE
    /\ rows = NoRows
    /\ awaiting = Nothing /\ asking = Nothing
    /\ inFlight = 0 /\ generation = 0
    /\ again = FALSE /\ restartDue = FALSE
    /\ following = FALSE /\ askedEpoch = 0
    /\ pendingAnnouncements = {} /\ mentioned = {} /\ pendingRestatements = {}
    /\ kicks = 0 /\ acts = {} /\ checks = {} /\ tasks = {} /\ outdated = {}
    /\ budget \in Budgets

\* What QML and its reader do.
Qml ==
    \/ \E a \in Accounts \cup {NoAccount} : SetAccount(a)
    \/ \E q \in Queries : SetQuery(q)
    \/ \E m \in Modes : SetMode(m)
    \/ SetPaused
    \/ Reload
    \/ \E c \in Chats : Act(c)

\* Queued callbacks, run one at a time on the Qt thread.
Callback ==
    \/ Kick
    \/ HandleEvent
    \/ \E act \in acts : ActLands(act)
    \/ \E c \in checks : MentionFound(c) \/ MentionNotFound(c)
    \/ \E change \in told : TranscriptTold(change)
    \/ \E t \in tasks : ShowEarly(t) \/ LandStale(t) \/ LandRows(t) \/ LandError(t)

\* Refresh tasks on the runtime's threads.
Task == \E t \in tasks : ReadListing(t) \/ ReadItems(t) \/ ReadTexts(t) \/ CutOff(t)

\* The core process, the transcript store and the hub.
Environment ==
    \/ \E a \in Accounts, c \in Chats : CoreChange(a, c) \/ TranscriptStored(a, c)
    \/ \E a \in Accounts, m \in Modes, c \in Chats : ListingChange(a, m, c)
    \/ \E i, j \in DOMAIN events : i <= j /\ Overflow(i, j)
    \/ \E t \in tasks : Refused(t)
    \/ ServerDies
    \/ SwitchTranscripts

Supervisor == ServerGone \/ ServerBack

Next == Qml \/ Callback \/ Task \/ Environment \/ Supervisor
        \/ \E key \in untold : Tell(key)

\* Qt runs what is queued, tokio runs tasks, the core answers or its death is
\* noticed; nobody has to touch anything, and nothing has to fail.
Fairness ==
    /\ WF_vars(Callback)
    /\ WF_vars(Task)
    /\ WF_vars(Supervisor)
    /\ WF_vars(\E key \in untold : Tell(key))

Spec == Init /\ [][Next]_vars
FairSpec == Spec /\ Fairness

-----------------------------------------------------------------------------
(* Properties *)

TaskType ==
    [gen : Nat, account : Accounts, mode : Modes, query : Queries,
     cached : [Chats -> Row \cup {NoRow}], previews : BOOLEAN, asked : Awaiting,
     phase : {"listing", "items", "texts", "lost", "failed", "done"},
     entries : SUBSET Chats, wanted : SUBSET Chats, rest : SUBSET Chats,
     fresh : [Chats -> Row \cup {NoRow}], early : SUBSET Chats]

CoreType ==
    /\ version \in [Accounts -> [Chats -> Nat]]
    /\ listed \in [Accounts -> [Modes -> SUBSET Chats]]
    /\ events \in Seq(Event)
    /\ server \in {"up", "dead", "down"}
    /\ text \in [Accounts -> [Chats -> Nat]]
    /\ enabled \in BOOLEAN /\ epoch \in Nat
    /\ untold \subseteq Accounts \X Chats
    /\ told \subseteq (Accounts \X Chats) \cup {NoChat}

AskType ==
    /\ awaiting \in Awaiting /\ asking \in Awaiting
    /\ inFlight \in Nat /\ generation \in Nat
    /\ again \in BOOLEAN /\ following \in BOOLEAN /\ askedEpoch \in Nat
    /\ tasks \subseteq TaskType /\ outdated \subseteq VoiceChats

ListType ==
    /\ account \in Accounts \cup {NoAccount}
    /\ mode \in Modes /\ query \in Queries /\ paused \in BOOLEAN
    /\ rows \in [Chats -> Row \cup {NoRow}]
    /\ restartDue \in BOOLEAN
    /\ pendingAnnouncements \subseteq Chats /\ mentioned \subseteq Chats
    /\ pendingRestatements \subseteq Chats
    /\ kicks \in Nat
    /\ acts \subseteq Accounts \X Chats
    /\ checks \subseteq Chats
    /\ budget \in [BudgetKinds -> Nat]

\* Every variable has its type.
TypeOK == CoreType /\ AskType /\ ListType

\* A row for c that is not what the core would say of that chat now.
Wrong(row, c) ==
    /\ row # NoRow
    /\ \/ row.account # account
       \/ row.version # version[row.account][c]

\* An event still queued will make the list re-read c.
Heralded(c) ==
    \E i \in DOMAIN events : /\ events[i].account = account
                             /\ Owes(Scope(events[i]), c)

\* A reason to re-read c is on its way or noted.
Coming(c) == Heralded(c) \/ <<account, c>> \in acts
Owed(c) == Owes(awaiting, c) \/ Coming(c)

\* With the server dead nothing is known to have changed; its return owes
\* everything.
Known == server = "up" /\ account # NoAccount

\* No lost refresh: whatever is superseded, fails, is paused or overtakes what,
\* a stale row is owed, or asked by the refresh in flight.
NoLostRefresh ==
    Known => \A c \in Chats : Wrong(rows[c], c) => Owed(c) \/ (inFlight # 0 /\ Owes(asking, c))

\* Why it holds.  Refreshes are told apart by their generation, only the newest
\* can land, and it asks what `asking` says...
Generations ==
    /\ inFlight \in {0, generation}
    /\ \A t \in tasks : /\ t.gen \in 1..generation
                        /\ t.gen = generation => inFlight = generation
                        /\ t.gen = inFlight => t.asked = asking
    /\ \A t, u \in tasks : t.gen = u.gen => t = u

\* ...a task ends with every row it had to read...
Reads(t, c) == Owes(t.asked, c) \/ t.cached[c] = NoRow
RowsRead(t) ==
    \A c \in t.entries :
        Reads(t, c) /\ t.fresh[c] = NoRow =>
            \/ t.phase \in {"listing", "lost", "failed"}
            \/ t.phase \in {"items", "texts"} /\ c \in t.wanted \cup t.rest

\* ...and what it would put into the rows is right, or owed by then.
TaskCovered(t) ==
    \A c \in Chats :
        /\ t.account # account => Owed(c)
        /\ Wrong(t.fresh[c], c) => Owed(c)
        /\ Wrong(t.cached[c], c) => Owed(c) \/ Owes(asking, c)

\* The invariant that NoLostRefresh follows from, step by step.
RefreshInv ==
    /\ Generations
    /\ \A t \in tasks : RowsRead(t)
    /\ NoLostRefresh
    /\ Known => \A t \in tasks : t.gen = inFlight => TaskCovered(t)

\* No lost wake-up: unless paused, what was asked meanwhile has something that
\* will start its refresh: a landing to come or a kick in the queue.
NoLostWakeup ==
    /\ inFlight # 0 => \E t \in tasks : t.gen = inFlight
    /\ ~paused => /\ restartDue => kicks > 0
                  /\ again => inFlight # 0 \/ restartDue

\* A superseded or late answer never takes a row back to older contents
\* ("stale answer must not land on newer", field generation).
RowsNeverGoBack ==
    [][\A c \in Chats :
         rows[c] # NoRow /\ rows'[c] # NoRow /\ rows[c].account = rows'[c].account
         => rows[c].version <= rows'[c].version]_vars

\* Nothing under way that could still change what the list shows.
Settled ==
    /\ server = "up" /\ account # NoAccount /\ ~paused
    /\ inFlight = 0 /\ kicks = 0 /\ ~again /\ ~restartDue
    /\ events = <<>> /\ acts = {} /\ told = {} /\ untold = {}

\* The rows are what the core lists and says now, transcripts included; but a refresh
\* that replaces a first load does not read again what that one has shown early, though
\* "voice rows read again" (landed) if a transcript changed since.
InSync ==
    \A c \in Chats :
        IF c \in Entries(account, mode, query)
        THEN /\ rows[c] # NoRow /\ rows[c].account = account
             /\ rows[c].version = version[account][c]
             /\ rows[c].text = TextNow(account, c) \/ c \in outdated
        ELSE rows[c] = NoRow

\* No call was refused.
Unrefused == \A b \in Budgets : budget["fail"] = b["fail"]

\* A list at rest shows what the core has, if no call was refused: searches,
\* modes and accounts changed midway, restarts and transcripts written between
\* a refresh's reads included.
SettledInSync == Settled /\ Unrefused => InSync

\* Refreshes end, and leave the list in sync with the core, once QML, the core
\* and the server leave it alone.
EventuallyInSync == <>[](paused \/ account = NoAccount \/ InSync)

\* message_arrived: "once refetch landed (event's preview is older)", and
\* pending_restatements: "Edited/deleted chats awaiting read back".  A chat announced
\* or restated with a row held before is one that the landing refresh re-read.
ToldOnceReadBack ==
    [][\A c \in Chats : rows[c] # NoRow =>
         /\ c \in (pendingAnnouncements \ pendingAnnouncements') \cap Announced(rows')
            => Owes(asking, c)
         /\ c \in pendingRestatements \ pendingRestatements' /\ rows'[c] # NoRow
            => Owes(asking, c)]_vars

=============================================================================
