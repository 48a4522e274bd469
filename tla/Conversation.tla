---------------------------- MODULE Conversation ----------------------------
(***************************************************************************)
(* A conversation on screen (ChatMessages of piirit-shim/src/chat.rs) and  *)
(* the prefetch that loads it before its page exists (prefetch.rs).  Rows  *)
(* are kept in line with the core by reads that overlap: the whole chat,   *)
(* its list of ids, the messages near the view, one message told of by an  *)
(* event, and answers of what the reader does.                             *)
(*                                                                         *)
(* One action is one turn of the Qt thread (an event, a call of the page,  *)
(* an answer landing), or one call the core answers.                       *)
(*                                                                         *)
(* Abstracted: one chat, one page, once opened not closed; a message is    *)
(* its id and the version of what it says; days.  Left out: receipts and   *)
(* the reader's mark, draft, name and shape of the chat, files and their   *)
(* recoding.  Two tasks alike are one.                                     *)
(***************************************************************************)
EXTENDS Integers, Sequences, FiniteSets, SequencesExt

CONSTANTS
    Msgs,           \* ids: integers, given out counting up
    Starts,         \* what the chat has at first, with bounds: how often each kind may happen
    OPENING,        \* messages a chat opens with
    PAGE,           \* messages one fill asks for
    MARGIN,         \* rows filled past the view
    IN_FLIGHT       \* fills in flight

BudgetKinds == {"arrive", "change", "delete", "move", "lose", "fail",
                "tap", "open", "scroll", "send", "remove", "act"}

ASSUME ConversationAssumption ==
    /\ Msgs \subseteq Nat \ {0} /\ Msgs # {} /\ IsFiniteSet(Msgs)
    /\ \A start \in Starts :
          /\ start.list \in Seq(Msgs) /\ IsInjective(start.list)
          /\ \A m \in ToSet(start.list), k \in Msgs \ ToSet(start.list) : m < k
          /\ start.budget \in [BudgetKinds -> Nat]
    /\ {OPENING, PAGE, IN_FLIGHT} \subseteq Nat \ {0} /\ MARGIN \in Nat

VARIABLES
    \* the core
    list,       \* ids of the chat, in its order
    ver,        \* [Msgs -> Nat], 0: not there yet
    events,     \* to the page
    \* the page
    open,
    page,       \* ChatMessages
    tasks,      \* reads and calls on the runtime, answers not yet landed
    cache,      \* prefetch's CACHE: none or one
    budget,
    \* history
    behind,     \* an older list is on its way, its event past; or a read failed
    crossed,    \* messages so
    moved       \* the core put messages in another order, or took one just sent

coreVars  == <<list, ver, events>>
pageVars  == <<open, page, tasks, cache>>
ghostVars == <<behind, crossed, moved>>
vars == <<coreVars, pageVars, budget, ghostVars>>

Ids == ToSet(list)

\* The members of S in seq, in its order.
Only(seq, S) ==
    LET upTo[i \in 0..Len(seq)] ==
            IF i = 0 THEN <<>>
            ELSE IF seq[i] \in S THEN Append(upTo[i - 1], seq[i]) ELSE upTo[i - 1]
    IN upTo[Len(seq)]

Before(seq, a, b) == \E i, j \in DOMAIN seq : i < j /\ seq[i] = a /\ seq[j] = b

\* What the core says of messages ms: 0 for one it does not have.
Items(ms) == [m \in Msgs |-> IF m \in ms \cap Ids THEN ver[m] ELSE 0]

Row  == [id : Msgs, ver : Nat]      \* version 0: a placeholder
Page == [rows : Seq(Row), loaded : BOOLEAN, pending : SUBSET Msgs, fetches : Nat,
         syncing : BOOLEAN, syncAgain : BOOLEAN,
         refreshing : SUBSET Msgs, refreshAgain : SUBSET Msgs, sending : BOOLEAN]

NewPage == [rows |-> <<>>, loaded |-> FALSE, pending |-> {}, fetches |-> 0,
            syncing |-> FALSE, syncAgain |-> FALSE,
            refreshing |-> {}, refreshAgain |-> {}, sending |-> FALSE]

\* fresh: of the page's generation (of ChatPrefetch's, for a prefetch).
Task == [kind : {"open", "prefetch", "sync", "fill", "absorb", "one", "send", "remove", "act"},
         phase : {"asked", "listed", "made", "answered", "failed"}, fresh : BOOLEAN,
         ids : SUBSET Msgs, list : Seq(Msgs), items : [Msgs -> Nat]]

NewTask(kind, ids) ==
    [kind |-> kind, phase |-> "asked", fresh |-> TRUE, ids |-> ids, list |-> <<>>,
     items |-> [m \in Msgs |-> 0]]

Unanswered == {"asked", "listed", "made"}

Spend(kind) == budget[kind] > 0 /\ budget' = [budget EXCEPT ![kind] = @ - 1]

-----------------------------------------------------------------------------
(* ChatMessages: s is its page, the tasks and the cache *)

Now == [page |-> page, tasks |-> tasks, cache |-> cache]
Becomes(s) == page' = s.page /\ tasks' = s.tasks /\ cache' = s.cache

RowIds(rows) == [i \in DOMAIN rows |-> rows[i].id]
HasRow(rows, m) == \E i \in DOMAIN rows : rows[i].id = m

\* fill_rows: by id, what has a row.
Filled(rows, items) ==
    [i \in DOMAIN rows |-> IF items[rows[i].id] = 0 THEN rows[i]
                           ELSE [rows[i] EXCEPT !.ver = items[rows[i].id]]]

RowsFor(ids, items) == [i \in DOMAIN ids |-> [id |-> ids[i], ver |-> items[ids[i]]]]

Started(s, task) == [s EXCEPT !.tasks = @ \cup {task}]

\* Mutant: a sync in flight keeps its mark.
ReloadStillSyncing(s) ==
    LET reset == [s.page EXCEPT !.pending = {}, !.fetches = 0, !.refreshing = {},
                                !.refreshAgain = {}]
        old == {IF t.kind \in {"open", "sync", "fill", "one"} THEN [t EXCEPT !.fresh = FALSE]
                ELSE t : t \in s.tasks} IN
    IF s.cache = {} THEN Started([s EXCEPT !.page = reset, !.tasks = old], NewTask("open", {}))
    ELSE LET taken == CHOOSE c \in s.cache : TRUE IN
         [page |-> [reset EXCEPT !.rows = RowsFor(taken.list, taken.items), !.loaded = TRUE],
          tasks |-> old, cache |-> {}]

\* reload: what is in flight is of an older generation; the rows are the prefetched
\* ones, or those asked for now.
Reload(s) ==
    LET reset == [s.page EXCEPT !.pending = {}, !.fetches = 0, !.syncing = FALSE,
                                !.syncAgain = FALSE, !.refreshing = {}, !.refreshAgain = {}]
        old == {IF t.kind \in {"open", "sync", "fill", "one"} THEN [t EXCEPT !.fresh = FALSE]
                ELSE t : t \in s.tasks} IN
    IF s.cache = {} THEN Started([s EXCEPT !.page = reset, !.tasks = old], NewTask("open", {}))
    ELSE LET taken == CHOOSE c \in s.cache : TRUE IN
         [page |-> [reset EXCEPT !.rows = RowsFor(taken.list, taken.items), !.loaded = TRUE],
          tasks |-> old, cache |-> {}]

\* Mutant: an event during a read asks for nothing.
SyncRowsOnce(s) ==
    IF s.page.syncing THEN s
    ELSE Started([s EXCEPT !.page.syncing = TRUE], NewTask("sync", {}))

\* sync_rows: one read at a time, one more if told meanwhile.
SyncRows(s) ==
    IF s.page.syncing THEN [s EXCEPT !.page.syncAgain = TRUE]
    ELSE Started([s EXCEPT !.page.syncing = TRUE], NewTask("sync", {}))

\* refresh_one: a row, one read of it at a time, one more if told meanwhile.
RefreshOne(s, m) ==
    IF ~HasRow(s.page.rows, m) THEN s
    ELSE IF m \in s.page.refreshing THEN [s EXCEPT !.page.refreshAgain = @ \cup {m}]
    ELSE Started([s EXCEPT !.page.refreshing = @ \cup {m}], NewTask("one", {m}))

\* in_order: rows that are in ids have its order.
InOrder(rows, ids) ==
    \A a, b \in ToSet(ids) : Before(RowIds(rows), a, b) => Before(ids, a, b)

\* Mutant: arrivals go at the end.
PlacedLast(rows, ids, arrived) == rows \o RowsFor(Only(ids, arrived), [m \in Msgs |-> 0])

\* place_arrivals, one id: an arrival goes in as a placeholder, after the id before it.
Place(at, m, arrived) ==
    IF m \in arrived
    THEN [rows |-> InsertAt(at.rows, at.next, [id |-> m, ver |-> 0]), next |-> at.next + 1]
    ELSE IF HasRow(at.rows, m)
    THEN [at EXCEPT !.next = (CHOOSE i \in DOMAIN at.rows : at.rows[i].id = m) + 1]
    ELSE at

Placed(rows, ids, arrived) ==
    LET upTo[i \in 0..Len(ids)] == IF i = 0 THEN [rows |-> rows, next |-> 1]
                                   ELSE Place(upTo[i - 1], ids[i], arrived)
    IN upTo[Len(ids)].rows

\* Mutant: a row not in the list is gone.
SyncedDroppingNewer(s, ids) ==
    LET rows    == s.page.rows
        arrived == {m \in ToSet(ids) : ~HasRow(rows, m)}
        stays   == Only(rows, {r \in ToSet(rows) : r.id \in ToSet(ids)})
        placed  == [s EXCEPT !.page.rows = Placed(stays, ids, arrived)] IN
    IF ~InOrder(rows, ids) THEN Reload(s)
    ELSE IF arrived = {} THEN placed
    ELSE Started(placed, NewTask("absorb", arrived))

\* synced, RowDiff: gone rows out, arrivals in and asked for; rows past every id are
\* newer than the list.  Rows in another order start over.
Synced(s, ids) ==
    LET rows    == s.page.rows
        arrived == {m \in ToSet(ids) : ~HasRow(rows, m)}
        stays   == Only(rows, {r \in ToSet(rows) : \/ r.id \in ToSet(ids)
                                                  \/ \A m \in ToSet(ids) : r.id > m})
        placed  == [s EXCEPT !.page.rows = Placed(stays, ids, arrived)] IN
    IF ~InOrder(rows, ids) THEN Reload(s)
    ELSE IF arrived = {} THEN placed
    ELSE Started(placed, NewTask("absorb", arrived))

\* Whose turn row j has, for the view at row i: nearest first, below before above.
FillOrder(j, i) == IF j > i THEN 2 * (j - i) ELSE 2 * (i - j) + 1

\* unloaded_between.
Wanted(i) ==
    LET blank == {j \in DOMAIN page.rows :
                    /\ i - MARGIN <= j /\ j <= i + MARGIN
                    /\ page.rows[j].ver = 0 /\ page.rows[j].id \notin page.pending}
        Earlier(j) == {k \in blank : FillOrder(k, i) < FillOrder(j, i)} IN
    {page.rows[j].id : j \in {k \in blank : Cardinality(Earlier(k)) < PAGE}}

-----------------------------------------------------------------------------
(* History *)

ToldOf(m) == \E i \in DOMAIN events : events[i].msg = m /\ events[i].kind \in {"changed", "state"}
LostTold  == \E i \in DOMAIN events : events[i].kind = "lost"
ListTold  == \E i \in DOMAIN events : events[i].kind # "state"

Openings == {t \in tasks : t.kind = "open" \/ (t.kind = "prefetch" /\ t.fresh)}

\* A list on its way that is not the chat's, or a message on its way to the end that is
\* not in the chat.
OldList ==
    \/ \E t \in Openings : t.phase \in {"listed", "answered"} /\ t.list # list
    \/ \E t \in tasks : t.kind = "send" /\ t.phase = "answered" /\ ~(t.ids \subseteq Ids)

Old(items, m) == items[m] # 0 /\ items[m] # ver[m]

\* An older version of m on its way, but for the read of a row that another must follow.
OldVersion(m) ==
    \E t \in tasks : Old(t.items, m) /\ ~(t.kind = "one" /\ t.fresh /\ HasRow(page.rows, m))

Failed(kind) == {t \in tasks \ tasks' : t.kind = kind /\ t.phase = "failed"}

\* The list is right again once a sync brings it.
Healed == \E t \in tasks \ tasks' : t.kind = "sync" /\ t.fresh /\ t.phase = "answered" /\ t.list = list

\* Past: no event is left to tell of it.
History ==
    LET caches == cache \cup cache' IN
    /\ behind' = \/ behind /\ ~Healed
                 \/ Failed("open") \cup Failed("sync") # {}
                 \/ ~ListTold' /\ (OldList' \/ \E c \in caches : c.list # list')
    /\ crossed' = crossed \cup (IF Failed("open") # {} THEN Msgs ELSE {})
                  \cup (UNION {t.ids : t \in Failed("one")})
                  \cup {m \in Ids' : /\ ~LostTold' /\ ~ToldOf(m)'
                                     /\ OldVersion(m)' \/ \E c \in caches : Old(c.items, m)'}

-----------------------------------------------------------------------------
(* The core *)

Tell(kind, m) == events' = Append(events, [kind |-> kind, msg |-> m])

Unused == {m \in Msgs : ver[m] = 0}
NextId == CHOOSE m \in Unused : \A k \in Unused : m <= k

\* A message comes: at the end, or among those not yet seen.
CoreArrives(at) ==
    /\ Spend("arrive")
    /\ Unused # {} /\ at \in 1..(Len(list) + 1)
    /\ list' = InsertAt(list, at, NextId)
    /\ ver' = [ver EXCEPT ![NextId] = 1]
    /\ Tell("list", NextId)
    /\ UNCHANGED <<pageVars, moved>>
    /\ History

\* A message changes: its text, or only its state.
CoreChanges(m, kind) ==
    /\ Spend("change")
    /\ m \in Ids
    /\ ver' = [ver EXCEPT ![m] = @ + 1]
    /\ Tell(kind, m)
    /\ UNCHANGED <<list, pageVars, moved>>
    /\ History

\* Of messages ms, one was sent, and its row is yet to come.
JustSent(ms) == \E t \in tasks : t.kind = "send" /\ t.phase = "answered" /\ t.ids \cap ms # {}

CoreDeletes(m) ==
    /\ Spend("delete")
    /\ m \in Ids
    /\ list' = Only(list, Ids \ {m})
    /\ Tell("list", m)
    /\ moved' = (moved \/ JustSent({m}))
    /\ UNCHANGED <<ver, pageVars>>
    /\ History

\* The last two change places.
CoreMoves ==
    /\ Spend("move")
    /\ Len(list) > 1
    /\ list' = [list EXCEPT ![Len(list)] = list[Len(list) - 1], ![Len(list) - 1] = list[Len(list)]]
    /\ Tell("list", list[Len(list)])
    /\ moved' = TRUE
    /\ UNCHANGED <<ver, pageVars>>
    /\ History

\* Events are dropped: by an overflow, or by a restart that also fails the calls.
CoreLosesEvents(restart) ==
    /\ Spend("lose")
    /\ events' = <<[kind |-> "lost", msg |-> CHOOSE m \in Msgs : TRUE]>>
    /\ tasks' = IF restart THEN {IF t.phase \in Unanswered THEN [t EXCEPT !.phase = "failed"]
                                 ELSE t : t \in tasks} ELSE tasks
    /\ UNCHANGED <<list, ver, open, page, cache, moved>>
    /\ History

\* Task t goes on as u.
Answer(t, u) == tasks' = (tasks \ {t}) \cup {u}

\* message_entries; of open_chat, the page to open with.
CoreLists(t) ==
    /\ t.phase = "asked" /\ t.kind \in {"open", "prefetch", "sync"}
    /\ LET first == IF Len(list) > OPENING THEN Len(list) - OPENING + 1 ELSE 1
           opening == ToSet(SubSeq(list, first, Len(list))) IN
       Answer(t, [t EXCEPT !.list = list, !.ids = IF t.kind = "sync" THEN {} ELSE opening,
                           !.phase = IF t.kind = "sync" \/ opening = {} THEN "answered"
                                     ELSE "listed"])
    /\ UNCHANGED <<coreVars, open, page, cache, budget, moved>>
    /\ History

\* fetch_messages.
CoreReads(t) ==
    /\ \/ t.phase = "asked" /\ t.kind \in {"fill", "absorb", "one"}
       \/ t.phase = "listed"
       \/ t.phase = "made"
    /\ Answer(t, [t EXCEPT !.items = Items(t.ids),
                           !.phase = IF t.kind = "send" /\ t.ids \cap Ids = {} THEN "failed"
                                     ELSE "answered"])
    /\ UNCHANGED <<coreVars, open, page, cache, budget, moved>>
    /\ History

\* Outgoing.send: with the row it became, or that is read after.
CoreSends(t, phase) ==
    /\ t.phase = "asked" /\ t.kind = "send" /\ Unused # {}
    /\ list' = Append(list, NextId)
    /\ ver' = [ver EXCEPT ![NextId] = 1]
    /\ Tell("changed", NextId)
    /\ Answer(t, [t EXCEPT !.ids = {NextId}, !.phase = phase,
                           !.items = IF phase = "made" THEN @ ELSE [@ EXCEPT ![NextId] = 1]])
    /\ UNCHANGED <<open, page, cache, budget, moved>>
    /\ History

\* act_on_message: deleted.
CoreRemoves(t) ==
    /\ t.phase = "asked" /\ t.kind = "remove"
    /\ list' = Only(list, Ids \ t.ids)
    /\ IF t.ids \cap Ids # {} THEN Tell("list", CHOOSE m \in t.ids : TRUE) ELSE UNCHANGED events
    /\ Answer(t, [t EXCEPT !.phase = "answered"])
    /\ moved' = (moved \/ JustSent(t.ids))
    /\ UNCHANGED <<ver, open, page, cache, budget>>
    /\ History

\* act, edit_message: sent again, or with another text.
CoreActs(t) ==
    /\ t.phase = "asked" /\ t.kind = "act" /\ t.ids \subseteq Ids
    /\ ver' = [m \in Msgs |-> IF m \in t.ids THEN ver[m] + 1 ELSE ver[m]]
    /\ Tell("changed", CHOOSE m \in t.ids : TRUE)
    /\ Answer(t, [t EXCEPT !.phase = "answered"])
    /\ UNCHANGED <<list, open, page, cache, budget, moved>>
    /\ History

\* A call fails, on a message that is gone or for whatever reason.
CoreFails(t) ==
    /\ t.phase \in Unanswered
    /\ IF t.kind = "act" /\ ~(t.ids \subseteq Ids) THEN UNCHANGED budget ELSE Spend("fail")
    /\ Answer(t, [t EXCEPT !.phase = "failed"])
    /\ UNCHANGED <<coreVars, open, page, cache, moved>>
    /\ History

-----------------------------------------------------------------------------
(* Opening *)

\* ChatPrefetch.start: a newer tap's answer wins.
Tap ==
    /\ Spend("tap") /\ ~open
    /\ tasks' = {[t EXCEPT !.fresh = FALSE] : t \in tasks} \cup {NewTask("prefetch", {})}
    /\ UNCHANGED <<coreVars, open, page, cache, moved>>
    /\ History

\* The page is made: its chat is set, which loads it.
Opened(s) == open' = TRUE /\ Becomes(Reload([s EXCEPT !.page = NewPage]))

\* start's answer, then ready: the page is pushed if the list is on screen.
PrefetchLands(t, listActive) ==
    LET held == IF t.phase = "failed" THEN cache ELSE {[list |-> t.list, items |-> t.items]}
        s == [page |-> page, tasks |-> tasks \ {t}, cache |-> IF t.fresh THEN held ELSE cache] IN
    /\ t.kind = "prefetch" /\ t.phase \in {"answered", "failed"}
    /\ listActive => ~open
    /\ IF t.fresh /\ listActive THEN Opened(s) ELSE Becomes(s) /\ UNCHANGED open
    /\ UNCHANGED <<coreVars, budget, moved>>
    /\ History

\* By a notification, a quote, a share: no prefetch.
OpenPage ==
    /\ Spend("open") /\ ~open
    /\ Opened(Now)
    /\ UNCHANGED <<coreVars, moved>>
    /\ History

-----------------------------------------------------------------------------
(* The page *)

\* handle_event; status "ready" reloads as an overflow does.
HandleEvent ==
    LET event == Head(events) IN
    /\ events # <<>> /\ events' = Tail(events)
    /\ Becomes(IF ~open THEN Now
               ELSE CASE event.kind = "list"    -> SyncRows(Now)
                      [] event.kind = "changed" -> RefreshOne(SyncRows(Now), event.msg)
                      [] event.kind = "state"   -> RefreshOne(Now, event.msg)
                      [] OTHER                  -> Reload(Now))
    /\ UNCHANGED <<list, ver, open, budget, moved>>
    /\ History

\* hydrate, for a view at row i.
Ask(i) ==
    LET wanted == Wanted(i) IN
    /\ open /\ i \in DOMAIN page.rows
    /\ page.fetches < IN_FLIGHT /\ wanted # {}
    /\ Becomes(Started([Now EXCEPT !.page.pending = @ \cup wanted, !.page.fetches = @ + 1],
                       NewTask("fill", wanted)))
    /\ UNCHANGED <<coreVars, open, moved>>
    /\ History

\* The view asks for what it shows: it stays at the end; the reader scrolls.
Hydrate == Ask(Len(page.rows)) /\ UNCHANGED budget
Scroll(i) == Spend("scroll") /\ Ask(i)

Send ==
    /\ Spend("send") /\ open /\ ~page.sending
    /\ Becomes(Started([Now EXCEPT !.page.sending = TRUE], NewTask("send", {})))
    /\ UNCHANGED <<coreVars, open, moved>>
    /\ History

\* remove_message and act, on a row.
RemoveMessage(m) ==
    /\ Spend("remove") /\ open /\ HasRow(page.rows, m)
    /\ Becomes(Started(Now, NewTask("remove", {m})))
    /\ UNCHANGED <<coreVars, open, moved>>
    /\ History

Act(m) ==
    /\ Spend("act") /\ open /\ HasRow(page.rows, m)
    /\ Becomes(Started(Now, NewTask("act", {m})))
    /\ UNCHANGED <<coreVars, open, moved>>
    /\ History

-----------------------------------------------------------------------------
(* Answers landing: s is what is left once t has *)

\* reload's answer: no generation is looked at.
OpenLanded(s, t) ==
    IF t.phase = "failed" THEN [s EXCEPT !.page.loaded = TRUE]
    ELSE [s EXCEPT !.page.loaded = TRUE, !.page.rows = RowsFor(t.list, t.items)]

\* The follow-up is asked for once the rows are in.
SyncLanded(s, t) ==
    LET told == [s EXCEPT !.page.syncing = FALSE]
        in_  == IF t.phase = "failed" THEN told ELSE Synced(told, t.list)
        once == [in_ EXCEPT !.page.syncAgain = FALSE] IN
    IF ~t.fresh THEN s ELSE IF in_.page.syncAgain THEN SyncRows(once) ELSE once

\* Mutant: what an older generation asked for counts.
FillLandedAnyway(s, t) ==
    [s EXCEPT !.page.pending = @ \ t.ids, !.page.fetches = @ - 1,
              !.page.rows = Filled(@, t.items)]

\* Mutant: what could not be read is not asked for again.
FillLandedOrNot(s, t) ==
    IF ~t.fresh THEN s
    ELSE IF t.phase = "failed" THEN [s EXCEPT !.page.fetches = @ - 1]
    ELSE [s EXCEPT !.page.pending = @ \ t.ids, !.page.fetches = @ - 1,
                   !.page.rows = Filled(@, t.items)]

\* hydrated.
FillLanded(s, t) ==
    IF ~t.fresh THEN s
    ELSE [s EXCEPT !.page.pending = @ \ t.ids, !.page.fetches = @ - 1,
                   !.page.rows = Filled(@, t.items)]

\* absorb's answer: by id, of any generation.
AbsorbLanded(s, t) == [s EXCEPT !.page.rows = Filled(@, t.items)]

\* refresh_one's: the follow-up is asked for before the row is in; marks are of this
\* generation, the row is not.
OneLanded(s, t) ==
    LET told  == [s EXCEPT !.page.refreshing = @ \ t.ids, !.page.refreshAgain = @ \ t.ids]
        again == IF ~t.fresh THEN s
                 ELSE IF t.ids \subseteq s.page.refreshAgain
                 THEN RefreshOne(told, CHOOSE m \in t.ids : TRUE) ELSE told IN
    [again EXCEPT !.page.rows = Filled(@, t.items)]

\* sent_or_not, place_sent: on its row, or at the end.
SendLanded(s, t) ==
    LET free == [s EXCEPT !.page.sending = FALSE]
        m    == CHOOSE k \in t.ids : TRUE IN
    IF t.phase = "failed" THEN free
    ELSE IF HasRow(s.page.rows, m) THEN [free EXCEPT !.page.rows = Filled(@, t.items)]
    ELSE [free EXCEPT !.page.rows = Append(@, [id |-> m, ver |-> t.items[m]])]

\* drop_row.
RemoveLanded(s, t) ==
    IF t.phase = "failed" THEN s
    ELSE [s EXCEPT !.page.rows = Only(@, {r \in ToSet(@) : r.id \notin t.ids})]

\* act's: the row is read again.
ActLanded(s, t) == IF t.phase = "failed" THEN s ELSE RefreshOne(s, CHOOSE m \in t.ids : TRUE)

Lands(t) ==
    LET s == [Now EXCEPT !.tasks = @ \ {t}] IN
    /\ t.phase \in {"answered", "failed"} /\ t.kind # "prefetch"
    /\ Becomes(CASE t.kind = "open"   -> OpenLanded(s, t)
                 [] t.kind = "sync"   -> SyncLanded(s, t)
                 [] t.kind = "fill"   -> FillLanded(s, t)
                 [] t.kind = "absorb" -> AbsorbLanded(s, t)
                 [] t.kind = "one"    -> OneLanded(s, t)
                 [] t.kind = "send"   -> SendLanded(s, t)
                 [] t.kind = "remove" -> RemoveLanded(s, t)
                 [] t.kind = "act"    -> ActLanded(s, t))
    /\ UNCHANGED <<coreVars, open, budget, moved>>
    /\ History

-----------------------------------------------------------------------------

Init ==
    /\ \E start \in Starts : list = start.list /\ budget = start.budget
    /\ ver = [m \in Msgs |-> IF m \in Ids THEN 1 ELSE 0]
    /\ events = <<>>
    /\ open = FALSE /\ page = NewPage /\ tasks = {} /\ cache = {}
    /\ behind = FALSE /\ crossed = {} /\ moved = FALSE

\* What comes of itself.
System ==
    \/ \E t \in tasks : CoreLists(t) \/ CoreReads(t) \/ CoreRemoves(t) \/ CoreActs(t) \/ CoreFails(t)
    \/ \E t \in tasks, phase \in {"made", "answered"} : CoreSends(t, phase)
    \/ \E t \in tasks, listActive \in BOOLEAN : PrefetchLands(t, listActive)
    \/ \E t \in tasks : Lands(t)
    \/ HandleEvent
    \/ Hydrate

\* What others do: the core, of its own or told by another device; the reader.
Others ==
    \/ \E at \in 1..(Len(list) + 1) : CoreArrives(at)
    \/ \E m \in Msgs, kind \in {"changed", "state"} : CoreChanges(m, kind)
    \/ \E m \in Msgs : CoreDeletes(m) \/ RemoveMessage(m) \/ Act(m)
    \/ CoreMoves
    \/ \E restart \in BOOLEAN : CoreLosesEvents(restart)
    \/ Tap \/ OpenPage \/ Send
    \/ \E i \in DOMAIN page.rows : Scroll(i)

Next == System \/ Others

Spec == Init /\ [][Next]_vars
FairSpec == Spec /\ WF_vars(System)

-----------------------------------------------------------------------------
(* Properties *)

TypeOK ==
    /\ list \in Seq(Msgs) /\ ver \in [Msgs -> Nat]
    /\ events \in Seq([kind : {"list", "changed", "state", "lost"}, msg : Msgs])
    /\ open \in BOOLEAN /\ page \in Page /\ tasks \subseteq Task
    /\ \A c \in cache : c \in [list : Seq(Msgs), items : [Msgs -> Nat]]
    /\ Cardinality(cache) <= 1
    /\ budget \in [BudgetKinds -> Nat]
    /\ behind \in BOOLEAN /\ crossed \subseteq Msgs /\ moved \in BOOLEAN

FreshOf(kind) == {t \in tasks : t.kind = kind /\ t.fresh}

\* What the page believes is in flight is: each mark, set here and cleared in a callback
\* that a reload may have overtaken, stands for just the reads of this generation.  One
\* left over would keep every later event from being read (chat.rs:744).
FlagsTellTruth ==
    /\ page.syncing = (FreshOf("sync") # {}) /\ Cardinality(FreshOf("sync")) <= 1
    /\ page.syncAgain => page.syncing
    /\ page.refreshing = UNION {t.ids : t \in FreshOf("one")}
    /\ page.refreshAgain \subseteq page.refreshing
    /\ page.pending = UNION {t.ids : t \in FreshOf("fill")}
    /\ page.fetches = Cardinality(FreshOf("fill")) /\ page.fetches <= IN_FLIGHT
    /\ \A t, u \in FreshOf("fill") : t # u => t.ids \cap u.ids = {}
    /\ page.sending = \E t \in tasks : t.kind = "send"

\* No message has two rows; and as long as the core keeps its order, and takes away no
\* message whose send is still to be answered, no list that lands, however old, finds the
\* rows in another order: that would start the model over and lose the reader's place
\* (chat.rs:1211).
KeepsPlace ==
    /\ IsInjective(RowIds(page.rows))
    /\ ~moved => \A t \in FreshOf("sync") : t.phase = "answered" => InOrder(page.rows, t.list)

\* A message the chat has keeps its row, unless the whole chat is loaded anew: a list read
\* before it was sent does not take it out (chat.rs:2105).
RowsStay ==
    [][\A m \in Ids : HasRow(page.rows, m) /\ ~HasRow(page'.rows, m) =>
          cache' # cache \/ \E t \in tasks \ tasks' : t.kind = "open"]_vars

AtRest == open /\ page.loaded /\ tasks = {} /\ events = <<>>

ListSettled ==
    LET extra == {m \in ToSet(RowIds(page.rows)) : m \notin Ids} IN
    /\ \A m \in Ids : HasRow(page.rows, m)
    /\ InOrder(page.rows, list)
    /\ \A m \in extra, k \in Ids : m > k

RowSettled(row) == row.ver \in {0, ver[row.id]}

\* However events, reads, sends and removals cross: once nothing is under way, the rows
\* are the chat's messages in its order, but for rows newer than all of them (see
\* chat.rs:1460); unless a list was overtaken by its event on the way, or a read failed.
\* And a row that is filled says what its message says now, however often it changed
\* while it was read; unless another read of it was overtaken by the event, or failed.
RowsSettle ==
    AtRest => /\ ~behind => ListSettled
              /\ \A i \in DOMAIN page.rows :
                    page.rows[i].id \in Ids \ crossed => RowSettled(page.rows[i])

GoneBlank == \E i \in DOMAIN page.rows : page.rows[i].ver = 0 /\ page.rows[i].id \notin Ids

\* Rows near the view are filled in the end, whatever fails or is reloaded meanwhile; but
\* for the row of a message that is gone, which is asked for over and over.
ViewFilled ==
    \/ []<>GoneBlank
    \/ <>[](open => /\ page.loaded
                    /\ \A i \in DOMAIN page.rows :
                          i + MARGIN >= Len(page.rows) => page.rows[i].ver # 0)
=============================================================================
