-------------------------- MODULE ChatListProofs --------------------------
(***************************************************************************)
(* Proofs about the chat list's refresh protocol for every number of       *)
(* accounts, chats, modes and searches, and every budget.                  *)
(***************************************************************************)
EXTENDS ChatList, SequenceTheorems, FiniteSetTheorems, TLAPS

-----------------------------------------------------------------------------
(* Type correctness *)

\* Awaiting::merge stays in its type.
LEMMA MergeType ==
    ASSUME NEW a \in Awaiting, NEW b \in Awaiting
    PROVE  Merge(a, b) \in Awaiting
BY DEF Merge, Awaiting, Everything

\* The three scopes of a refresh are of Awaiting's type.
LEMMA ScopeTypes ==
    /\ Nothing \in Awaiting /\ Everything \in Awaiting
    /\ All \in Awaiting /\ Order \in Awaiting
    /\ \A c \in Chats : One(c) \in Awaiting
    /\ \A e \in Event : Scope(e) \in Awaiting
BY ChatListAssumption DEF Nothing, Everything, All, Order, One, Awaiting, Scope, Event

\* A task whose transcripts are being read holds the rows they belong to.
ReadTask == {t \in TaskType : t.phase = "texts" => \A c \in t.wanted : t.fresh[c] # NoRow}

\* Types, with what keeps a row read before its transcript is put into it.
AskInv == AskType /\ tasks \subseteq ReadTask
TypeInv == CoreType /\ AskInv /\ ListType

\* A new task has its type, whatever it asks.
LEMMA NewTaskType ==
    ASSUME TypeInv, account # NoAccount,
           NEW held \in [Chats -> Row \cup {NoRow}], NEW ask \in Awaiting
    PROVE  NewTask(held, ask) \in ReadTask
<1>1. NoRows \in [Chats -> Row \cup {NoRow}]
  BY DEF NoRows
<1>2. QED
  BY <1>1 DEF NewTask, ReadTask, TaskType, TypeInv, AskInv, AskType, ListType, CoreType

\* start_refresh keeps what it owns typed.
LEMMA StartRefreshType ==
    ASSUME TypeInv, NEW held \in [Chats -> Row \cup {NoRow}], NEW owed \in Awaiting,
           NEW flying \in Nat, NEW running \in SUBSET ReadTask,
           StartRefresh(held, owed, flying, running)
    PROVE  AskInv'
<1>1. Replaced(flying) \in Awaiting
  BY ScopeTypes DEF Replaced, TypeInv, AskInv, AskType
<1>2. Merge(owed, Replaced(flying)) \in Awaiting
  BY <1>1, MergeType
<1>3. CASE account = NoAccount \/ server' = "down"
  <2>1. /\ generation' \in Nat /\ askedEpoch' \in Nat /\ following' \in BOOLEAN
        /\ outdated' \subseteq VoiceChats
    BY <1>3 DEF StartRefresh, TypeInv, AskInv, AskType
  <2>2. again' \in BOOLEAN
    BY DEF StartRefresh
  <2>3. /\ awaiting' \in Awaiting /\ asking' \in Awaiting
        /\ inFlight' \in Nat /\ tasks' \subseteq ReadTask
    BY <1>1, <1>3 DEF StartRefresh
  <2>4. QED
    BY <2>1, <2>2, <2>3 DEF AskInv, AskType, ReadTask
<1>4. CASE ~(account = NoAccount \/ server' = "down")
  <2>1. NewTask(held, Merge(owed, Replaced(flying))) \in ReadTask
    BY <1>2, <1>4, NewTaskType
  <2>2. tasks' \subseteq ReadTask
    BY <1>4, <2>1 DEF StartRefresh
  <2>3. awaiting' \in Awaiting /\ asking' \in Awaiting
    BY <1>2, <1>4, ScopeTypes DEF StartRefresh
  <2>4. /\ inFlight' \in Nat /\ generation' \in Nat /\ askedEpoch' \in Nat
        /\ again' \in BOOLEAN /\ following' \in BOOLEAN
    <3>1. generation \in Nat /\ epoch \in Nat
      BY DEF TypeInv, AskInv, AskType, CoreType
    <3>2. generation' = generation + 1 /\ inFlight' = generation + 1
      BY <1>4 DEF StartRefresh
    <3>3. askedEpoch' = epoch
      BY <1>4 DEF StartRefresh
    <3>4. again' \in BOOLEAN /\ following' \in BOOLEAN
      BY <1>4 DEF StartRefresh
    <3>5. QED
      BY <3>1, <3>2, <3>3, <3>4
  <2>5. outdated' \subseteq VoiceChats
    <3>1. \A c \in outdated' : c \in outdated \cup ShownOld(held, flying, running)
      BY <1>4 DEF StartRefresh
    <3>2. QED
      BY <3>1 DEF ShownOld, TypeInv, AskInv, AskType
  <2>6. QED
    BY <2>2, <2>3, <2>4, <2>5 DEF AskInv, AskType, ReadTask
<1>5. QED
  BY <1>3, <1>4

\* refresh_announcing keeps what it owns typed.
LEMMA RefreshOwingType ==
    ASSUME TypeInv, NEW owed \in Awaiting, RefreshOwing(owed)
    PROVE  AskInv'
<1>1. CASE account = NoAccount
  BY <1>1 DEF RefreshOwing, askVars, TypeInv, AskInv, AskType
<1>2. CASE account # NoAccount /\ (paused \/ inFlight # 0 \/ restartDue)
  BY <1>2 DEF RefreshOwing, TypeInv, AskInv, AskType
<1>3. CASE account # NoAccount /\ ~(paused \/ inFlight # 0 \/ restartDue)
  <2>1. StartRefresh(rows, owed, inFlight, tasks)
    BY <1>3 DEF RefreshOwing
  <2>2. rows \in [Chats -> Row \cup {NoRow}] /\ inFlight \in Nat
        /\ tasks \in SUBSET ReadTask
    BY DEF TypeInv, AskInv, AskType, ListType
  <2>3. QED
    BY <2>1, <2>2, StartRefreshType
<1>4. QED
  BY <1>1, <1>2, <1>3

\* refresh and restart keep what they own typed.
LEMMA RefreshType ==
    ASSUME TypeInv, NEW scope \in Awaiting, Refresh(scope)
    PROVE  AskInv'
BY MergeType, RefreshOwingType DEF Refresh, TypeInv, AskInv, AskType

LEMMA RestartType ==
    ASSUME TypeInv, NEW scope \in Awaiting, Restart(scope)
    PROVE  AskInv' /\ restartDue' \in BOOLEAN /\ kicks' \in Nat
BY MergeType DEF Restart, TypeInv, AskInv, AskType, ListType

\* What the environment and QML may still do stays a number.
LEMMA SpendType ==
    ASSUME TypeInv, NEW kind \in BudgetKinds, Spend(kind)
    PROVE  budget' \in [BudgetKinds -> Nat]
BY DEF Spend, TypeInv, ListType

\* What a step leaves alone keeps its type.
LEMMA SameCore ==
    ASSUME TypeInv, UNCHANGED coreVars
    PROVE  CoreType'
BY DEF TypeInv, CoreType, coreVars

LEMMA SameAsk ==
    ASSUME TypeInv, UNCHANGED askVars
    PROVE  AskInv'
BY DEF TypeInv, AskInv, AskType, askVars, ReadTask

\* Events sent have the type of events.
LEMMA EventOfType ==
    ASSUME NEW a \in Accounts, NEW kind \in EventKinds, NEW c \in Chats \cup {NoChat}
    PROVE  EventOf(a, kind, c) \in Event
BY DEF EventOf, Event

LEMMA AppendType ==
    ASSUME NEW queue \in Seq(Event), NEW e \in Event
    PROVE  Append(queue, e) \in Seq(Event)
OBVIOUS

\* A step of one refresh task leaves what the list asks alone.
LEMMA StepType ==
    ASSUME TypeInv, NEW t \in tasks, NEW u \in ReadTask, Step(t, u),
           UNCHANGED <<awaiting, asking, inFlight, generation, again, following, askedEpoch,
                       outdated>>
    PROVE  AskInv'
BY DEF Step, TypeInv, AskInv, AskType, ReadTask

\* What QML does keeps the types.
LEMMA QmlType ==
    ASSUME TypeInv, Qml
    PROVE  TypeInv'
<1>1. ASSUME NEW a \in Accounts \cup {NoAccount}, SetAccount(a)
      PROVE  TypeInv'
  <2>1. CoreType'
    BY <1>1, SameCore DEF SetAccount
  <2>2. AskInv' /\ restartDue' \in BOOLEAN /\ kicks' \in Nat
    BY <1>1, RestartType, ScopeTypes DEF SetAccount
  <2>3. budget' \in [BudgetKinds -> Nat]
    BY <1>1, SpendType DEF SetAccount, BudgetKinds
  <2>4. QED
    BY <1>1, <2>1, <2>2, <2>3 DEF SetAccount, statedVars, TypeInv, ListType
<1>2. ASSUME NEW q \in Queries, SetQuery(q)
      PROVE  TypeInv'
  <2>1. CoreType'
    BY <1>2, SameCore DEF SetQuery
  <2>2. AskInv' /\ restartDue' \in BOOLEAN /\ kicks' \in Nat
    BY <1>2, RestartType, ScopeTypes DEF SetQuery
  <2>3. budget' \in [BudgetKinds -> Nat]
    BY <1>2, SpendType DEF SetQuery, BudgetKinds
  <2>4. QED
    BY <1>2, <2>1, <2>2, <2>3 DEF SetQuery, statedVars, TypeInv, ListType
<1>3. ASSUME NEW m \in Modes, SetMode(m)
      PROVE  TypeInv'
  <2>1. CoreType'
    BY <1>3, SameCore DEF SetMode
  <2>2. AskInv' /\ restartDue' \in BOOLEAN /\ kicks' \in Nat
    BY <1>3, RestartType, ScopeTypes DEF SetMode
  <2>3. budget' \in [BudgetKinds -> Nat]
    BY <1>3, SpendType DEF SetMode, BudgetKinds
  <2>4. QED
    BY <1>3, <2>1, <2>2, <2>3 DEF SetMode, statedVars, TypeInv, ListType
<1>4. CASE SetPaused
  <2>1. CoreType'
    BY <1>4, SameCore DEF SetPaused
  <2>2. AskInv' /\ restartDue' \in BOOLEAN
    <3>1. CASE paused /\ StartDue
      BY <1>4, <3>1, StartRefreshType DEF SetPaused, TypeInv, AskInv, AskType, ListType
    <3>2. CASE ~(paused /\ StartDue)
      BY <1>4, <3>2, SameAsk DEF SetPaused, TypeInv, ListType
    <3>3. QED
      BY <3>1, <3>2
  <2>3. budget' \in [BudgetKinds -> Nat]
    BY <1>4, SpendType DEF SetPaused, BudgetKinds
  <2>4. paused' \in BOOLEAN
    BY <1>4 DEF SetPaused
  <2>5. QED
    BY <1>4, <2>1, <2>2, <2>3, <2>4 DEF SetPaused, statedVars, TypeInv, ListType
<1>5. CASE Reload
  <2>1. CoreType'
    BY <1>5, SameCore DEF Reload
  <2>2. AskInv'
    BY <1>5, RefreshType, ScopeTypes DEF Reload
  <2>3. budget' \in [BudgetKinds -> Nat]
    BY <1>5, SpendType DEF Reload, BudgetKinds
  <2>4. QED
    BY <1>5, <2>1, <2>2, <2>3 DEF Reload, statedVars, qmlVars, TypeInv, ListType
<1>6. ASSUME NEW c \in Chats, Act(c)
      PROVE  TypeInv'
  <2>1. account \in Accounts
    BY <1>6 DEF Act, TypeInv, ListType
  <2>2. version' \in [Accounts -> [Chats -> Nat]]
    BY <1>6, <2>1 DEF Act, TypeInv, CoreType
  <2>3. events' \in Seq(Event)
    <3>1. EventOf(account, "ChatlistItemChanged", c) \in Event
      BY <2>1, EventOfType DEF EventKinds
    <3>2. QED
      BY <1>6, <3>1, AppendType DEF Act, TypeInv, CoreType
  <2>4. CoreType'
    BY <1>6, <2>2, <2>3 DEF Act, TypeInv, CoreType
  <2>5. AskInv'
    BY <1>6, SameAsk DEF Act
  <2>6. budget' \in [BudgetKinds -> Nat]
    BY <1>6, SpendType DEF Act, BudgetKinds
  <2>7. QED
    BY <1>6, <2>1, <2>4, <2>5, <2>6 DEF Act, statedVars, qmlVars, TypeInv, ListType
<1>7. QED
  BY <1>1, <1>2, <1>3, <1>4, <1>5, <1>6 DEF Qml

\* The answer of a landed refresh is typed.
LEMMA ResultType ==
    ASSUME NEW t \in TaskType
    PROVE  Result(t) \in [Chats -> Row \cup {NoRow}]
BY DEF Result, TaskType

\* What a landing does last keeps what it owns typed.
LEMMA AskAgainType ==
    ASSUME TypeInv, NEW held \in [Chats -> Row \cup {NoRow}], NEW owed \in Awaiting,
           NEW wanted \in BOOLEAN, NEW t \in tasks, AskAgain(held, owed, wanted, t)
    PROVE  AskInv'
<1>1. CASE wanted /\ ~paused /\ ~restartDue
  <2>1. StartRefresh(held, owed, 0, tasks \ {t})
    BY <1>1 DEF AskAgain
  <2>2. tasks \ {t} \in SUBSET ReadTask
    BY DEF TypeInv, AskInv
  <2>3. QED
    BY <2>1, <2>2, StartRefreshType
<1>2. CASE ~(wanted /\ ~paused /\ ~restartDue)
  <2>1. again' \in BOOLEAN
    BY <1>2 DEF AskAgain
  <2>2. /\ awaiting' \in Awaiting /\ asking' \in Awaiting
        /\ inFlight' \in Nat /\ tasks' \subseteq ReadTask
    BY <1>2, ScopeTypes DEF AskAgain, TypeInv, AskInv
  <2>3. /\ generation' \in Nat /\ askedEpoch' \in Nat /\ following' \in BOOLEAN
        /\ outdated' \subseteq VoiceChats
    BY <1>2 DEF AskAgain, TypeInv, AskInv, AskType
  <2>4. QED
    BY <2>1, <2>2, <2>3 DEF AskInv, AskType, ReadTask
<1>3. QED
  BY <1>1, <1>2

\* Queued callbacks keep the types: those that do not land a refresh...
LEMMA EventType ==
    ASSUME TypeInv, \/ Kick \/ HandleEvent
                    \/ \E act \in acts : ActLands(act)
                    \/ \E c \in checks : MentionFound(c) \/ MentionNotFound(c)
                    \/ \E change \in told : TranscriptTold(change)
    PROVE  TypeInv'
<1>1. CASE Kick
  <2>1. CoreType'
    BY <1>1, SameCore DEF Kick
  <2>2. AskInv' /\ restartDue' \in BOOLEAN
    <3>1. CASE paused
      BY <1>1, <3>1, SameAsk DEF Kick, TypeInv, ListType
    <3>2. CASE ~paused
      BY <1>1, <3>2, StartRefreshType DEF Kick, TypeInv, AskInv, AskType, ListType
    <3>3. QED
      BY <3>1, <3>2
  <2>3. kicks' \in Nat
    BY <1>1 DEF Kick, TypeInv, ListType
  <2>4. QED
    BY <1>1, <2>1, <2>2, <2>3 DEF Kick, statedVars, qmlVars, TypeInv, ListType
<1>2. CASE HandleEvent
  <2> DEFINE e == Head(events)
  <2>1. e \in Event /\ Tail(events) \in Seq(Event)
    BY <1>2 DEF HandleEvent, TypeInv, CoreType
  <2>2. CoreType'
    BY <1>2, <2>1 DEF HandleEvent, TypeInv, CoreType
  <2>3. AskInv'
    BY <1>2, <2>1, RefreshType, ScopeTypes, SameAsk DEF HandleEvent
  <2>4. /\ pendingAnnouncements' \subseteq Chats
        /\ pendingRestatements' \subseteq Chats
        /\ checks' \subseteq Chats
    BY <1>2, <2>1 DEF HandleEvent, Event, TypeInv, ListType
  <2>5. QED
    BY <1>2, <2>2, <2>3, <2>4 DEF HandleEvent, qmlVars, TypeInv, ListType
<1>3. ASSUME NEW act \in acts, ActLands(act)
      PROVE  TypeInv'
  <2>1. act[2] \in Chats
    BY <1>3 DEF TypeInv, ListType
  <2>2. CoreType'
    BY <1>3, SameCore DEF ActLands
  <2>3. AskInv'
    BY <1>3, <2>1, RefreshType, ScopeTypes DEF ActLands
  <2>4. QED
    BY <1>3, <2>2, <2>3 DEF ActLands, statedVars, qmlVars, TypeInv, ListType
<1>4. ASSUME NEW c \in checks, MentionFound(c)
      PROVE  TypeInv'
  <2>1. c \in Chats
    BY <1>4 DEF TypeInv, ListType
  <2>2. CoreType'
    BY <1>4, SameCore DEF MentionFound
  <2>3. AskInv'
    BY <1>4, <2>1, RefreshType, ScopeTypes DEF MentionFound
  <2>4. QED
    BY <1>4, <2>1, <2>2, <2>3 DEF MentionFound, qmlVars, TypeInv, ListType
<1>5. ASSUME NEW c \in checks, MentionNotFound(c)
      PROVE  TypeInv'
  <2>1. CoreType' /\ AskInv'
    BY <1>5, SameCore, SameAsk DEF MentionNotFound
  <2>2. QED
    BY <1>5, <2>1 DEF MentionNotFound, statedVars, qmlVars, TypeInv, ListType
<1>6. ASSUME NEW change \in told, TranscriptTold(change)
      PROVE  TypeInv'
  <2> DEFINE touched == {c \in VoiceChats : /\ rows[c] # NoRow
                                            /\ change \in {NoChat, <<account, c>>}}
             scope == [everything |-> FALSE, chats |-> touched]
  <2>1. touched \subseteq Chats /\ scope \in Awaiting
    BY ChatListAssumption DEF Awaiting
  <2>2. CoreType'
    BY <1>6 DEF TranscriptTold, TypeInv, CoreType
  <2>3. AskInv'
    BY <1>6, <2>1, RefreshType, SameAsk DEF TranscriptTold
  <2>4. QED
    BY <1>6, <2>1, <2>2, <2>3 DEF TranscriptTold, qmlVars, TypeInv, ListType
<1>7. QED
  BY <1>1, <1>2, <1>3, <1>4, <1>5, <1>6

\* ...and those that do.
LEMMA LandingType ==
    ASSUME TypeInv, NEW t \in tasks,
           ShowEarly(t) \/ LandStale(t) \/ LandRows(t) \/ LandError(t)
    PROVE  TypeInv'
<1>1. t \in TaskType
  BY DEF TypeInv, AskInv, ReadTask
<1>2. CASE ShowEarly(t)
  <2>1. [t EXCEPT !.early = {}] \in ReadTask
    BY <1>1 DEF TypeInv, AskInv, ReadTask, TaskType
  <2>2. CoreType' /\ AskInv'
    BY <1>2, <2>1, SameCore, StepType DEF ShowEarly
  <2>3. rows' \in [Chats -> Row \cup {NoRow}]
    BY <1>1, <1>2 DEF ShowEarly, TypeInv, ListType, TaskType
  <2>4. QED
    BY <1>2, <2>2, <2>3 DEF ShowEarly, statedVars, qmlVars, TypeInv, ListType
<1>3. CASE LandStale(t)
  <2>1. CoreType'
    BY <1>3, SameCore DEF LandStale, landFrame
  <2>2. AskInv'
    BY <1>3 DEF LandStale, TypeInv, AskInv, AskType, ReadTask
  <2>3. QED
    BY <1>3, <2>1, <2>2 DEF LandStale, landFrame, statedVars, qmlVars, TypeInv, ListType
<1>4. CASE LandRows(t)
  <2> DEFINE voice == {c \in VoiceChats : Result(t)[c] # NoRow}
             stale == TextsMoved /\ voice # {}
             owed == IF stale
                     THEN Merge(awaiting, [everything |-> FALSE, chats |-> voice])
                     ELSE awaiting
  <2>1. CoreType'
    BY <1>4, SameCore DEF LandRows, landFrame
  <2>2. Result(t) \in [Chats -> Row \cup {NoRow}]
    BY <1>1, ResultType
  <2>3. voice \subseteq Chats /\ owed \in Awaiting
    <3>1. voice \subseteq Chats
      BY ChatListAssumption
    <3>2. [everything |-> FALSE, chats |-> voice] \in Awaiting
      BY <3>1 DEF Awaiting
    <3>3. awaiting \in Awaiting
      BY DEF TypeInv, AskInv, AskType
    <3>4. QED
      BY <3>1, <3>2, <3>3, MergeType
  <2>4. (again \/ stale) \in BOOLEAN
    BY DEF TypeInv, AskInv, AskType
  <2>5. AskAgain(Result(t), owed, again \/ stale, t)
    BY <1>4 DEF LandRows
  <2>6. AskInv'
    BY <2>2, <2>3, <2>4, <2>5, AskAgainType
  <2>7. /\ rows' \in [Chats -> Row \cup {NoRow}]
        /\ pendingAnnouncements' \subseteq Chats /\ mentioned' \subseteq Chats
        /\ pendingRestatements' \subseteq Chats
    BY <1>4, <2>2, <2>3 DEF LandRows, TypeInv, ListType
  <2>8. QED
    BY <1>4, <2>1, <2>6, <2>7 DEF LandRows, landFrame, qmlVars, TypeInv, ListType
<1>5. CASE LandError(t)
  <2>1. CoreType'
    BY <1>5, SameCore DEF LandError, landFrame
  <2>2. OwedAfterError \in Awaiting
    BY MergeType DEF OwedAfterError, TypeInv, AskInv, AskType
  <2>3. AskInv'
    BY <1>5, <2>2, AskAgainType DEF LandError, TypeInv, AskInv, AskType, ListType
  <2>4. QED
    BY <1>5, <2>1, <2>3 DEF LandError, landFrame, statedVars, qmlVars, TypeInv, ListType
<1>6. QED
  BY <1>2, <1>3, <1>4, <1>5

\* The steps of a refresh task keep the types.
LEMMA TaskStepType ==
    ASSUME TypeInv, NEW t \in tasks,
           ReadListing(t) \/ ReadItems(t) \/ ReadTexts(t) \/ Refused(t) \/ CutOff(t)
    PROVE  TypeInv'
<1>1. t \in ReadTask /\ t \in TaskType
  BY DEF TypeInv, AskInv, ReadTask
<1>2. ASSUME NEW u \in ReadTask, Step(t, u), UNCHANGED taskFrame,
             budget' \in [BudgetKinds -> Nat]
      PROVE  TypeInv'
  <2>1. CoreType' /\ AskInv'
    BY <1>2, SameCore, StepType DEF taskFrame
  <2>2. QED
    BY <1>2, <2>1 DEF taskFrame, statedVars, qmlVars, TypeInv, ListType
<1>3. budget \in [BudgetKinds -> Nat]
  BY DEF TypeInv, ListType
<1>4. CASE ReadListing(t)
  <2>1. PICK entries \in SUBSET Chats, s \in SUBSET Chats, r \in SUBSET Chats :
          Step(t, [t EXCEPT !.entries = entries, !.wanted = s, !.rest = r,
                            !.phase = IF s = {} THEN "done" ELSE "items"])
    <3> DEFINE entries == Entries(t.account, t.mode, t.query)
               want == {c \in entries : Owes(t.asked, c) \/ t.cached[c] = NoRow}
               first == IF t.cached = NoRows /\ Cardinality(want) > Screenful
                        THEN {s \in SUBSET want : Cardinality(s) = Screenful}
                        ELSE {want}
    <3>1. entries \in SUBSET Chats
      BY <1>1 DEF Entries, TypeInv, CoreType, TaskType
    <3>2. PICK s \in first :
            Step(t, [t EXCEPT !.entries = entries, !.wanted = s, !.rest = want \ s,
                              !.phase = IF s = {} THEN "done" ELSE "items"])
      BY <1>4 DEF ReadListing
    <3>3. s \in SUBSET Chats /\ want \ s \in SUBSET Chats
      BY <3>1, <3>2
    <3> HIDE DEF entries, want, first
    <3>4. QED
      BY <3>1, <3>2, <3>3
  <2>2. [t EXCEPT !.entries = entries, !.wanted = s, !.rest = r,
                  !.phase = IF s = {} THEN "done" ELSE "items"] \in ReadTask
    BY <1>1 DEF ReadTask, TaskType
  <2>3. UNCHANGED taskFrame /\ budget' = budget
    BY <1>4 DEF ReadListing
  <2>4. QED
    BY <1>2, <1>3, <2>1, <2>2, <2>3
<1>5. CASE ReadItems(t)
  <2> DEFINE read == [c \in Chats |-> IF c \in t.wanted
                        THEN [account |-> t.account, version |-> version[t.account][c],
                              text |-> 0]
                        ELSE t.fresh[c]]
             u == [t EXCEPT !.phase = "texts", !.fresh = read]
  <2>1. \A c \in Chats : version[t.account][c] \in Nat /\ t.account \in Accounts
    BY <1>1 DEF TypeInv, CoreType, TaskType
  <2>2. \A c \in t.wanted : c \in Chats /\ read[c] \in Row
    BY <1>1, <2>1 DEF Row, TaskType
  <2>3. read \in [Chats -> Row \cup {NoRow}]
    BY <1>1, <2>2 DEF TaskType
  <2>4. u \in TaskType /\ u.fresh = read /\ u.wanted = t.wanted
    BY <1>1, <2>3 DEF TaskType
  <2>5. u \in ReadTask
    BY <2>2, <2>4, ChatListAssumption DEF ReadTask, Row
  <2>6. Step(t, u) /\ UNCHANGED taskFrame /\ budget' = budget
    BY <1>5 DEF ReadItems
  <2>7. QED
    BY <1>2, <1>3, <2>5, <2>6
<1>6. CASE ReadTexts(t)
  <2> DEFINE read == [c \in Chats |-> IF c \in t.wanted /\ c \in VoiceChats /\ t.previews
                        THEN [t.fresh[c] EXCEPT !.text = text[t.account][c]]
                        ELSE t.fresh[c]]
             u == [t EXCEPT
                     !.phase = IF t.rest = {} THEN "done" ELSE "items",
                     !.early = IF t.rest = {} THEN t.early ELSE t.wanted,
                     !.wanted = IF t.rest = {} THEN t.wanted ELSE t.rest,
                     !.rest = {},
                     !.fresh = read]
  <2>1. \A c \in Chats : text[t.account][c] \in Nat
    BY <1>1 DEF TypeInv, CoreType, TaskType
  <2>2. \A c \in t.wanted : c \in Chats /\ t.fresh[c] \in Row
    BY <1>1, <1>6 DEF ReadTexts, ReadTask, TaskType
  <2>3. \A c \in t.wanted : [t.fresh[c] EXCEPT !.text = text[t.account][c]] \in Row
    BY <2>1, <2>2 DEF Row
  <2>4. read \in [Chats -> Row \cup {NoRow}]
    BY <1>1, <2>3 DEF TaskType
  <2>5. u \in TaskType /\ u.phase # "texts"
    BY <1>1, <2>4 DEF TaskType
  <2>6. Step(t, u) /\ UNCHANGED taskFrame /\ budget' = budget
    BY <1>6 DEF ReadTexts
  <2>7. u \in ReadTask
    BY <2>5 DEF ReadTask
  <2> HIDE DEF u
  <2>8. QED
    BY <1>2, <1>3, <2>6, <2>7
<1>7. CASE Refused(t) \/ CutOff(t)
  <2>1. [t EXCEPT !.phase = "failed"] \in ReadTask
    BY <1>1 DEF ReadTask, TaskType
  <2>2. budget' \in [BudgetKinds -> Nat]
    BY <1>3, <1>7, SpendType DEF Refused, CutOff, BudgetKinds
  <2>3. QED
    BY <1>2, <1>7, <2>1, <2>2 DEF Refused, CutOff
<1>8. QED
  BY <1>4, <1>5, <1>6, <1>7

\* What the core, the store and the hub do keeps the types.
LEMMA OutsideType ==
    ASSUME TypeInv, \/ \E a \in Accounts, c \in Chats :
                            CoreChange(a, c) \/ TranscriptStored(a, c)
                    \/ \E a \in Accounts, m \in Modes, c \in Chats : ListingChange(a, m, c)
                    \/ \E i, j \in DOMAIN events : i <= j /\ Overflow(i, j)
                    \/ SwitchTranscripts
                    \/ \E key \in untold : Tell(key)
    PROVE  TypeInv'
<1>1. ASSUME UNCHANGED coreFrame, budget' \in [BudgetKinds -> Nat], CoreType'
      PROVE  TypeInv'
  <2>1. AskInv'
    BY <1>1, SameAsk DEF coreFrame
  <2>2. QED
    BY <1>1, <2>1 DEF coreFrame, statedVars, qmlVars, TypeInv, ListType
<1>2. ASSUME NEW a \in Accounts, NEW c \in Chats, CoreChange(a, c)
      PROVE  TypeInv'
  <2>1. /\ EventOf(a, "IncomingMsg", c) \in Event
        /\ EventOf(a, "ChatlistItemChanged", c) \in Event
        /\ EventOf(a, "MsgsChanged", c) \in Event
        /\ EventOf(a, "MsgsChanged", NoChat) \in Event
    BY EventOfType DEF EventKinds
  <2>2. <<EventOf(a, "IncomingMsg", c), EventOf(a, "ChatlistItemChanged", c)>> \in Seq(Event)
    BY <2>1
  <2>3. events \in Seq(Event)
    BY DEF TypeInv, CoreType
  <2>4. events' \in Seq(Event)
    BY <1>2, <2>1, <2>2, <2>3, AppendType, ConcatProperties DEF CoreChange
  <2>5. CoreType'
    BY <1>2, <2>4 DEF CoreChange, TypeInv, CoreType
  <2>6. QED
    BY <1>1, <1>2, <2>5, SpendType DEF CoreChange, BudgetKinds
<1>3. ASSUME NEW a \in Accounts, NEW c \in Chats, TranscriptStored(a, c)
      PROVE  TypeInv'
  <2>1. text' \in [Accounts -> [Chats -> Nat]]
    BY <1>3 DEF TranscriptStored, TypeInv, CoreType
  <2>2. CoreType'
    BY <1>3, <2>1 DEF TranscriptStored, TypeInv, CoreType
  <2>3. QED
    BY <1>1, <1>3, <2>2, SpendType DEF TranscriptStored, BudgetKinds
<1>4. ASSUME NEW a \in Accounts, NEW m \in Modes, NEW c \in Chats, ListingChange(a, m, c)
      PROVE  TypeInv'
  <2>1. EventOf(a, "ChatlistChanged", NoChat) \in Event
    BY EventOfType DEF EventKinds
  <2>2. events' \in Seq(Event)
    BY <1>4, <2>1, AppendType DEF ListingChange, TypeInv, CoreType
  <2>3. CoreType'
    BY <1>4, <2>2 DEF ListingChange, TypeInv, CoreType
  <2>4. QED
    BY <1>1, <1>4, <2>3, SpendType DEF ListingChange, BudgetKinds
<1>5. ASSUME NEW i \in DOMAIN events, NEW j \in DOMAIN events, i <= j, Overflow(i, j)
      PROVE  TypeInv'
  <2>1. events \in Seq(Event) /\ events[i] \in Event
    BY DEF TypeInv, CoreType
  <2>2. EventOf(events[i].account, "EventChannelOverflow", NoChat) \in Event
    BY <2>1, EventOfType DEF EventKinds, Event
  <2>3. /\ SubSeq(events, 1, i - 1) \in Seq(Event)
        /\ SubSeq(events, j + 1, Len(events)) \in Seq(Event)
    BY <2>1, SubSeqProperties
  <2>4. events' \in Seq(Event)
    BY <1>5, <2>2, <2>3, ConcatProperties DEF Overflow
  <2>5. CoreType'
    BY <1>5, <2>4 DEF Overflow, TypeInv, CoreType
  <2>6. QED
    BY <1>1, <1>5, <2>5, SpendType DEF Overflow, BudgetKinds
<1>6. CASE SwitchTranscripts
  <2>1. CoreType'
    BY <1>6 DEF SwitchTranscripts, TypeInv, CoreType
  <2>2. QED
    BY <1>1, <1>6, <2>1, SpendType DEF SwitchTranscripts, BudgetKinds
<1>7. ASSUME NEW key \in untold, Tell(key)
      PROVE  TypeInv'
  <2>1. told \subseteq (Accounts \X Chats) \cup {NoChat} /\ untold \subseteq Accounts \X Chats
    BY DEF TypeInv, CoreType
  <2>2. told' \subseteq (Accounts \X Chats) \cup {NoChat} /\ untold' \subseteq Accounts \X Chats
    <3>1. told' \subseteq told \cup {key} /\ key \in untold /\ untold' \subseteq untold
      BY <1>7 DEF Tell
    <3>2. QED
      BY <2>1, <3>1
  <2>3. epoch' \in Nat
    BY <1>7 DEF Tell, TypeInv, CoreType
  <2>4. UNCHANGED <<version, listed, events, server, text, enabled>>
    BY <1>7 DEF Tell
  <2>5. CoreType'
    BY <2>2, <2>3, <2>4 DEF TypeInv, CoreType
  <2>6. QED
    BY <1>1, <1>7, <2>5 DEF Tell, TypeInv, ListType
<1>8. QED
  BY <1>2, <1>3, <1>4, <1>5, <1>6, <1>7

\* The server's death, noticed or not, and its return keep the types.
LEMMA ServerType ==
    ASSUME TypeInv, ServerDies \/ Supervisor
    PROVE  TypeInv'
<1>1. CASE ServerDies
  <2>1. events' \in Seq(Event)
    BY <1>1, SubSeqProperties DEF ServerDies, TypeInv, CoreType
  <2>2. CoreType'
    BY <1>1, <2>1 DEF ServerDies, TypeInv, CoreType
  <2>3. \A t \in tasks : [t EXCEPT !.phase = "lost"] \in ReadTask
    BY DEF TypeInv, AskInv, ReadTask, TaskType
  <2>4. AskInv'
    BY <1>1, <2>3 DEF ServerDies, TypeInv, AskInv, AskType, ReadTask
  <2>5. budget' \in [BudgetKinds -> Nat]
    BY <1>1, SpendType DEF ServerDies, BudgetKinds
  <2>6. QED
    BY <1>1, <2>2, <2>4, <2>5 DEF ServerDies, statedVars, qmlVars, TypeInv, ListType
<1>2. CASE ServerGone
  <2>1. CoreType'
    BY <1>2 DEF ServerGone, TypeInv, CoreType
  <2>2. AskInv'
    BY <1>2, SameAsk DEF ServerGone, coreFrame
  <2>3. QED
    BY <1>2, <2>1, <2>2 DEF ServerGone, coreFrame, statedVars, qmlVars, TypeInv, ListType
<1>3. CASE ServerBack
  <2>1. CoreType'
    BY <1>3 DEF ServerBack, TypeInv, CoreType
  <2>2. AskInv'
    BY <1>3, RefreshType, ScopeTypes DEF ServerBack
  <2>3. QED
    BY <1>3, <2>1, <2>2 DEF ServerBack, statedVars, qmlVars, TypeInv, ListType
<1>4. QED
  BY <1>1, <1>2, <1>3 DEF Supervisor

\* The list starts typed...
LEMMA TypeInit ==
    ASSUME Init
    PROVE  TypeInv
<1>1. CoreType
  BY DEF Init, CoreType
<1>2. AskInv
  BY ScopeTypes DEF Init, AskInv, AskType
<1>3. ListType
  BY ChatListAssumption DEF Init, ListType, NoRows
<1>4. QED
  BY <1>1, <1>2, <1>3 DEF TypeInv

\* ...and every step keeps it so.
LEMMA TypeStep ==
    ASSUME TypeInv, [Next]_vars
    PROVE  TypeInv'
<1>1. CASE Qml
  BY <1>1, QmlType
<1>2. CASE Callback
  BY <1>2, EventType, LandingType DEF Callback
<1>3. CASE Task
  BY <1>3, TaskStepType DEF Task
<1>4. CASE Environment
  BY <1>4, OutsideType, TaskStepType, ServerType DEF Environment
<1>5. CASE Supervisor
  BY <1>5, ServerType
<1>6. CASE \E key \in untold : Tell(key)
  BY <1>6, OutsideType
<1>7. CASE UNCHANGED vars
  <2>1. CoreType' /\ AskInv'
    BY <1>7, SameCore, SameAsk DEF vars
  <2>2. QED
    BY <1>7, <2>1 DEF vars, qmlVars, statedVars, TypeInv, ListType
<1>8. QED
  BY <1>1, <1>2, <1>3, <1>4, <1>5, <1>6, <1>7 DEF Next

\* Every reachable state of the list, the core beside it and every refresh
\* task under way is of its type.
THEOREM TypeCorrect == Spec => []TypeOK
<1>1. TypeInv => TypeOK
  BY DEF TypeInv, AskInv, TypeOK
<1>2. QED
  BY <1>1, TypeInit, TypeStep, PTL DEF Spec

-----------------------------------------------------------------------------
(* No stale row is ever forgotten *)

\* RefreshInv in the two halves its proof takes apart: which refreshes there are
\* and what they have read, and who owes what is wrong.
Shape == Generations /\ \A t \in tasks : RowsRead(t)
Covered ==
    Known => /\ \A c \in Chats : Wrong(rows[c], c)
                                 => Owed(c) \/ (inFlight # 0 /\ Owes(asking, c))
             /\ \A t \in tasks : t.gen = inFlight => TaskCovered(t)

\* The parts of the inductive invariant make it up.
LEMMA Halves == RefreshInv <=> Shape /\ Covered
BY DEF RefreshInv, Shape, Covered, NoLostRefresh

-----------------------------------------------------------------------------
(* What is owed *)

\* Merging owes what either owes.
LEMMA OwesMerge ==
    ASSUME NEW a \in Awaiting, NEW b \in Awaiting, NEW c
    PROVE  Owes(Merge(a, b), c) <=> Owes(a, c) \/ Owes(b, c)
BY DEF Owes, Merge, Awaiting, Everything

\* Everything owes each chat, Nothing none.
LEMMA OwesScopes ==
    ASSUME NEW c
    PROVE  Owes(Everything, c) /\ Owes(All, c) /\ ~Owes(Nothing, c) /\ ~Owes(Order, c)
BY DEF Owes, Everything, All, Nothing, Order

\* What the refresh in flight asks, when it is replaced.
LEMMA ReplacedType ==
    ASSUME TypeInv, NEW flying \in Nat
    PROVE  /\ Replaced(flying) \in Awaiting
           /\ \A c : Owes(Replaced(flying), c) <=> flying # 0 /\ Owes(asking, c)
BY ScopeTypes, OwesScopes DEF Replaced, TypeInv, AskInv, AskType

-----------------------------------------------------------------------------
(* Starting a refresh *)

\* start_refresh keeps the generations apart; a task just started has nothing
\* to have read.
LEMMA StartShape ==
    ASSUME TypeInv, Shape,
           NEW held \in [Chats -> Row \cup {NoRow}], NEW owed \in Awaiting,
           NEW flying \in {0, inFlight}, NEW running \in SUBSET tasks,
           \A t \in running : t.gen = inFlight => flying = inFlight,
           StartRefresh(held, owed, flying, running)
    PROVE  Shape'
<1>1. /\ generation \in Nat /\ inFlight \in {0, generation}
      /\ \A t \in tasks : /\ t.gen \in 1..generation
                          /\ t.gen = generation => inFlight = generation
                          /\ t.gen = inFlight => t.asked = asking
      /\ \A t, u \in tasks : t.gen = u.gen => t = u
      /\ \A t \in tasks : RowsRead(t)
  BY DEF TypeInv, AskInv, AskType, Shape, Generations
<1>2. CASE account = NoAccount \/ server' = "down"
  <2>1. tasks' = running /\ inFlight' = flying /\ generation' = generation
        /\ asking' = Replaced(flying)
    BY <1>2 DEF StartRefresh
  <2>2. \A t \in tasks' : t.gen = inFlight' => t.asked = asking'
    BY <1>1, <2>1 DEF Replaced
  <2>3. QED
    BY <1>1, <2>1, <2>2 DEF Shape, Generations, RowsRead, Reads
<1>3. CASE ~(account = NoAccount \/ server' = "down")
  <2> DEFINE ask == Merge(owed, Replaced(flying))
             new == NewTask(held, ask)
  <2>1. /\ tasks' = running \cup {new} /\ inFlight' = generation + 1
        /\ generation' = generation + 1 /\ asking' = ask
    BY <1>3 DEF StartRefresh
  <2>2. new.gen = generation + 1 /\ new.asked = ask /\ new.entries = {}
    BY DEF NewTask
  <2>3. RowsRead(new)
    BY <2>2 DEF RowsRead
  <2> HIDE DEF new, ask
  <2>4. Generations'
    BY <1>1, <2>1, <2>2 DEF Generations
  <2>5. \A t \in tasks' : RowsRead(t)
    BY <1>1, <2>1, <2>3
  <2>6. QED
    BY <2>4, <2>5 DEF Shape, RowsRead, Reads
<1>4. QED
  BY <1>2, <1>3

\* What a new refresh would put into the rows is covered, if it asks for the
\* rows it holds that are wrong, or they are on their way.
LEMMA StartCovered ==
    ASSUME TypeInv, Shape,
           NEW held \in [Chats -> Row \cup {NoRow}], NEW owed \in Awaiting,
           NEW flying \in Nat, NEW running \in SUBSET tasks,
           StartRefresh(held, owed, flying, running),
           account' = account, rows' = held,
           Known' => \A c \in Chats : Wrong(held[c], c)'
               => Owes(owed, c) \/ (flying # 0 /\ Owes(asking, c)) \/ Coming(c)'
    PROVE  Covered'
<1> SUFFICES ASSUME Known'
             PROVE  /\ \A c \in Chats : Wrong(rows[c], c)'
                         => Owed(c)' \/ (inFlight' # 0 /\ Owes(asking', c))
                    /\ \A t \in tasks' : t.gen = inFlight' => TaskCovered(t)'
  BY DEF Covered
<1> PICK ask : ask = Merge(owed, Replaced(flying))
  OBVIOUS
<1> PICK new : new = NewTask(held, ask)
  OBVIOUS
<1>1. ~(account = NoAccount \/ server' = "down")
  BY DEF Known
<1>2. /\ tasks' = running \cup {new} /\ inFlight' = generation + 1
      /\ generation' = generation + 1 /\ asking' = ask
  BY <1>1 DEF StartRefresh
<1>3. /\ new.gen = generation + 1 /\ new.account = account
      /\ new.cached = held /\ new.fresh = NoRows
  BY DEF NewTask
<1>4. \A c : Owes(ask, c) <=> Owes(owed, c) \/ (flying # 0 /\ Owes(asking, c))
  BY ReplacedType, OwesMerge
<1>5. \A c \in Chats : Wrong(held[c], c)' => Owes(asking', c) \/ Coming(c)'
  BY <1>2, <1>4
<1>6. generation \in Nat /\ \A t \in tasks : t.gen \in 1..generation
  BY DEF TypeInv, AskInv, AskType, Shape, Generations
<1>7. TaskCovered(new)'
  <2>1. \A c \in Chats : ~Wrong(new.fresh[c], c)'
    BY <1>3 DEF Wrong, NoRows
  <2>2. QED
    BY <1>3, <1>5, <2>1 DEF TaskCovered, Owed
<1>8. \A t \in tasks' : t.gen = inFlight' => t = new
  BY <1>2, <1>6
<1>9. \A c \in Chats : Wrong(rows[c], c)' => Owed(c)' \/ (inFlight' # 0 /\ Owes(asking', c))
  BY <1>2, <1>5, <1>6 DEF Owed
<1>10. QED
  BY <1>7, <1>8, <1>9

-----------------------------------------------------------------------------
(* Steps that start none *)

\* A step that leaves the newest refresh in flight, and keeps what is owed,
\* keeps everything covered, whatever rows become wrong by it being owed.
LEMMA CoveredKept ==
    ASSUME Covered, Known' => Known,
           UNCHANGED <<account, rows, asking, inFlight>>,
           \A c \in Chats : Owed(c) => Owed(c)',
           \A c \in Chats : \A row : Wrong(row, c)' => Wrong(row, c) \/ Owed(c)',
           \A u \in tasks' : \E t \in tasks :
               /\ t.gen = u.gen /\ t.account = u.account /\ t.cached = u.cached
               /\ Known /\ u.gen = inFlight => \A c \in Chats :
                    Wrong(u.fresh[c], c)' => Wrong(t.fresh[c], c) \/ Owed(c)'
    PROVE  Covered'
<1> SUFFICES ASSUME Known'
             PROVE  /\ \A c \in Chats : Wrong(rows[c], c)'
                         => Owed(c)' \/ (inFlight' # 0 /\ Owes(asking', c))
                    /\ \A t \in tasks' : t.gen = inFlight' => TaskCovered(t)'
  BY DEF Covered
<1>1. \A c \in Chats : Wrong(rows[c], c) => Owed(c) \/ (inFlight # 0 /\ Owes(asking, c))
  BY DEF Covered
<1>2. \A c \in Chats : Wrong(rows[c], c)' => Owed(c)' \/ (inFlight' # 0 /\ Owes(asking', c))
  <2> TAKE c \in Chats
  <2> PICK row : row = rows[c]
    OBVIOUS
  <2>1. Wrong(rows[c], c)' => Wrong(row, c)'
    BY DEF Wrong
  <2>2. QED
    BY <1>1, <2>1
<1>3. ASSUME NEW u \in tasks', u.gen = inFlight'
      PROVE  TaskCovered(u)'
  <2>1. PICK t \in tasks :
          /\ t.gen = u.gen /\ t.account = u.account /\ t.cached = u.cached
          /\ Known /\ u.gen = inFlight => \A c \in Chats :
               Wrong(u.fresh[c], c)' => Wrong(t.fresh[c], c) \/ Owed(c)'
    OBVIOUS
  <2>2. TaskCovered(t)
    BY <1>3, <2>1 DEF Covered
  <2>3. \A c \in Chats : u.account # account' => Owed(c)'
    BY <2>1, <2>2 DEF TaskCovered
  <2>4. \A c \in Chats : Wrong(u.fresh[c], c)' => Owed(c)'
    BY <1>3, <2>1, <2>2 DEF TaskCovered
  <2>5. \A c \in Chats : Wrong(u.cached[c], c)' => Owed(c)' \/ Owes(asking', c)
    BY <2>1, <2>2 DEF TaskCovered
  <2>6. QED
    BY <2>3, <2>4, <2>5 DEF TaskCovered
<1>4. QED
  BY <1>2, <1>3

\* The same, for steps of which refreshes know nothing.
LEMMA CoveredKeptAsIs ==
    ASSUME Covered, Known' => Known,
           UNCHANGED <<account, rows, asking, inFlight, tasks>>,
           \A c \in Chats : Owed(c) => Owed(c)',
           \A c \in Chats : \A row : Wrong(row, c)' => Wrong(row, c) \/ Owed(c)'
    PROVE  Covered'
BY CoveredKept

\* Rows are wrong after a step that leaves account and core alone if they were.
LEMMA SameWrong ==
    ASSUME UNCHANGED <<account, version>>
    PROVE  \A c : \A row : Wrong(row, c)' <=> Wrong(row, c)
BY DEF Wrong

\* Events and row actions left alone announce what they did.
LEMMA SameComing ==
    ASSUME UNCHANGED <<account, events, acts>>
    PROVE  \A c : Coming(c)' <=> Coming(c)
BY DEF Coming, Heralded

LEMMA SameShape ==
    ASSUME Shape, UNCHANGED <<generation, inFlight, asking, tasks>>
    PROVE  Shape'
BY DEF Shape, Generations, RowsRead, Reads

\* A step of one task that ends with its rows read keeps the others apart.
LEMMA StepShape ==
    ASSUME Shape, NEW t \in tasks, NEW u, Step(t, u),
           u.gen = t.gen, u.asked = t.asked, RowsRead(u),
           UNCHANGED <<generation, inFlight, asking>>
    PROVE  Shape'
<1>1. Generations'
  BY DEF Shape, Generations, Step
<1>2. \A x \in tasks' : RowsRead(x)
  BY DEF Shape, Step
<1>3. QED
  BY <1>1, <1>2 DEF Shape, RowsRead, Reads

-----------------------------------------------------------------------------
(* Asking and landing *)

\* refresh keeps everything covered, if it is told of all that comes no more.
LEMMA RefreshKeeps ==
    ASSUME TypeInv, Shape, Covered, NEW scope \in Awaiting, Refresh(scope),
           UNCHANGED <<account, version, rows>>,
           (Known' => Known) \/ scope = All,
           \A c \in Chats : Coming(c) => Coming(c)' \/ Owes(scope, c)
    PROVE  Shape' /\ Covered'
<1>1. awaiting \in Awaiting
  BY DEF TypeInv, AskInv, AskType
<1>2. PICK owed \in Awaiting : owed = Merge(awaiting, scope)
  BY <1>1, MergeType
<1>3. RefreshOwing(owed)
  BY <1>2 DEF Refresh
<1>4. \A c \in Chats : /\ Owes(awaiting, c) \/ Owes(scope, c) => Owes(owed, c)
                       /\ scope = All => Owes(owed, c)
  BY <1>1, <1>2, OwesMerge, OwesScopes
<1>5. CASE account = NoAccount
  <2>1. ~Known' /\ UNCHANGED askVars
    BY <1>3, <1>5 DEF Known, RefreshOwing
  <2>2. QED
    BY <2>1, SameShape DEF askVars, Covered
<1>6. CASE account # NoAccount /\ (paused \/ inFlight # 0 \/ restartDue)
  <2>1. awaiting' = owed /\ UNCHANGED <<generation, inFlight, asking, tasks>>
    BY <1>3, <1>6 DEF RefreshOwing
  <2>2. Shape'
    BY <2>1, SameShape
  <2>3. \A c \in Chats : Owed(c) \/ scope = All => Owed(c)'
    BY <1>4, <2>1 DEF Owed
  <2>4. CASE Known' => Known
    BY <2>1, <2>2, <2>3, <2>4, SameWrong, CoveredKeptAsIs
  <2>5. CASE scope = All
    <3>1. \A c \in Chats : Owed(c)'
      BY <2>3, <2>5
    <3>2. QED
      BY <2>2, <3>1 DEF Covered, TaskCovered
  <2>6. QED
    BY <2>4, <2>5
<1>7. CASE account # NoAccount /\ ~(paused \/ inFlight # 0 \/ restartDue)
  <2>1. StartRefresh(rows, owed, inFlight, tasks)
    BY <1>3, <1>7 DEF RefreshOwing
  <2>2. PICK held \in [Chats -> Row \cup {NoRow}] : held = rows
    BY DEF TypeInv, ListType
  <2>3. PICK flying \in Nat : flying = inFlight
    BY DEF TypeInv, AskInv, AskType
  <2>4. Shape'
    BY <2>1, <2>2, <2>3, StartShape
  <2>5. ASSUME Known', NEW c \in Chats, Wrong(held[c], c)'
        PROVE  Owes(owed, c) \/ (flying # 0 /\ Owes(asking, c)) \/ Coming(c)'
    <3>1. CASE scope = All
      BY <1>4, <3>1
    <3>2. CASE Known
      <4>1. Wrong(rows[c], c)
        BY <2>2, <2>5, SameWrong
      <4>2. Owed(c) \/ (inFlight # 0 /\ Owes(asking, c))
        BY <3>2, <4>1 DEF Covered
      <4>3. QED
        BY <1>4, <2>3, <4>2 DEF Owed
    <3>3. QED
      BY <2>5, <3>1, <3>2
  <2>6. Covered'
    BY <2>1, <2>2, <2>3, <2>5, StartCovered
  <2>7. QED
    BY <2>4, <2>6
<1>8. QED
  BY <1>5, <1>6, <1>7

\* A kick, or the end of a pause, asks with what the refresh in flight asked.
LEMMA RestartKeeps ==
    ASSUME TypeInv, Shape, Covered, Known' => Known,
           StartRefresh(rows, awaiting, inFlight, tasks),
           UNCHANGED <<account, version, rows, events, acts>>
    PROVE  Shape' /\ Covered'
<1>1. PICK held \in [Chats -> Row \cup {NoRow}] : held = rows
  BY DEF TypeInv, ListType
<1>2. PICK flying \in Nat : flying = inFlight
  BY DEF TypeInv, AskInv, AskType
<1>3. PICK owed \in Awaiting : owed = awaiting
  BY DEF TypeInv, AskInv, AskType
<1>4. Shape'
  BY <1>1, <1>2, <1>3, StartShape
<1>5. ASSUME Known', NEW c \in Chats, Wrong(held[c], c)'
      PROVE  Owes(owed, c) \/ (flying # 0 /\ Owes(asking, c)) \/ Coming(c)'
  <2>1. Wrong(rows[c], c)
    BY <1>1, <1>5, SameWrong
  <2>2. Owed(c) \/ (inFlight # 0 /\ Owes(asking, c))
    BY <1>5, <2>1 DEF Covered
  <2>3. QED
    BY <1>2, <1>3, <2>2, SameComing DEF Owed
<1>6. Covered'
  BY <1>1, <1>2, <1>3, <1>5, StartCovered
<1>7. QED
  BY <1>4, <1>6

\* A landing keeps everything covered, if what it makes of the rows is owed.
LEMMA LandingKeeps ==
    ASSUME TypeInv, Shape, NEW t \in tasks, t.gen = inFlight,
           NEW held \in [Chats -> Row \cup {NoRow}], NEW owed \in Awaiting,
           NEW wanted, AskAgain(held, owed, wanted, t), rows' = held,
           UNCHANGED <<account, version, server, events, acts>>,
           Known => \A c \in Chats : Wrong(held[c], c) => Owes(owed, c) \/ Coming(c)
    PROVE  Shape' /\ Covered'
<1>1. /\ generation \in Nat /\ inFlight \in {0, generation}
      /\ \A x \in tasks : x.gen \in 1..generation
      /\ \A x, y \in tasks : x.gen = y.gen => x = y
      /\ \A x \in tasks : RowsRead(x)
  BY DEF TypeInv, AskInv, AskType, Shape, Generations
<1>2. inFlight = generation /\ \A x \in tasks \ {t} : x.gen # inFlight
  BY <1>1
<1>3. Known' => Known /\ \A c \in Chats : Wrong(held[c], c)' => Owes(owed, c) \/ Coming(c)'
  BY SameWrong, SameComing DEF Known
<1>4. CASE wanted /\ ~paused /\ ~restartDue
  <2>1. StartRefresh(held, owed, 0, tasks \ {t})
    BY <1>4 DEF AskAgain
  <2>2. Shape'
    BY <1>2, <2>1, StartShape
  <2>3. Covered'
    BY <1>3, <2>1, StartCovered
  <2>4. QED
    BY <2>2, <2>3
<1>5. CASE ~(wanted /\ ~paused /\ ~restartDue)
  <2>1. /\ awaiting' = owed /\ inFlight' = 0 /\ tasks' = tasks \ {t}
        /\ generation' = generation
    BY <1>5 DEF AskAgain
  <2>2. Shape'
    BY <1>1, <1>2, <2>1 DEF Shape, Generations, RowsRead, Reads
  <2>3. \A x \in tasks' : x.gen # inFlight'
    BY <1>1, <2>1
  <2>4. \A c \in Chats : Known' /\ Wrong(rows[c], c)' => Owed(c)'
    <3> TAKE c \in Chats
    <3>1. Wrong(rows[c], c)' => Wrong(held[c], c)'
      BY DEF Wrong
    <3>2. QED
      BY <1>3, <2>1, <3>1 DEF Owed
  <2>5. QED
    BY <2>2, <2>3, <2>4 DEF Covered
<1>6. QED
  BY <1>4, <1>5

-----------------------------------------------------------------------------
(* Every action *)

\* Setting a property owes more, never less, and starts nothing.
LEMMA RestartOwes ==
    ASSUME TypeInv, NEW scope \in Awaiting, Restart(scope)
    PROVE  /\ \A c : Owes(awaiting', c) <=> Owes(awaiting, c) \/ Owes(scope, c)
           /\ UNCHANGED <<generation, inFlight, asking, tasks>>
BY OwesMerge DEF Restart, TypeInv, AskInv, AskType

\* What QML does keeps everything covered.
LEMMA QmlKeeps ==
    ASSUME TypeInv, Shape, Covered, Qml
    PROVE  Shape' /\ Covered'
<1>1. ASSUME Restart(All), UNCHANGED rows
      PROVE  Shape' /\ Covered'
  <2>1. \A c \in Chats : Owed(c)'
    BY <1>1, RestartOwes, ScopeTypes, OwesScopes DEF Owed
  <2>2. QED
    BY <1>1, <2>1, RestartOwes, ScopeTypes, SameShape DEF Covered, TaskCovered
<1>2. ASSUME NEW a \in Accounts \cup {NoAccount}, SetAccount(a)
      PROVE  Shape' /\ Covered'
  BY <1>1, <1>2 DEF SetAccount
<1>3. ASSUME NEW q \in Queries, SetQuery(q)
      PROVE  Shape' /\ Covered'
  <2>1. /\ UNCHANGED <<generation, inFlight, asking, tasks>>
        /\ \A c : Owes(awaiting, c) => Owes(awaiting', c)
    BY <1>3, RestartOwes, ScopeTypes DEF SetQuery
  <2>2. UNCHANGED <<account, version, rows, events, acts, server>>
    BY <1>3 DEF SetQuery, coreVars
  <2>3. QED
    BY <2>1, <2>2, SameShape, SameWrong, SameComing, CoveredKeptAsIs DEF Owed, Known
<1>4. ASSUME NEW m \in Modes, SetMode(m)
      PROVE  Shape' /\ Covered'
  BY <1>1, <1>4 DEF SetMode
<1>5. CASE SetPaused
  <2>1. UNCHANGED <<account, version, rows, events, acts, server>>
    BY <1>5 DEF SetPaused, coreVars
  <2>2. CASE paused /\ StartDue
    BY <1>5, <2>1, <2>2, RestartKeeps DEF SetPaused, Known
  <2>3. CASE ~(paused /\ StartDue)
    <3>1. UNCHANGED askVars
      BY <1>5, <2>3 DEF SetPaused
    <3>2. QED
      BY <2>1, <3>1, SameShape, SameWrong, SameComing, CoveredKeptAsIs
      DEF askVars, Owed, Known
  <2>4. QED
    BY <2>2, <2>3
<1>6. CASE Reload
  BY <1>6, RefreshKeeps, ScopeTypes, SameComing DEF Reload, coreVars, qmlVars
<1>7. ASSUME NEW d \in Chats, Act(d)
      PROVE  Shape' /\ Covered'
  <2>1. UNCHANGED <<account, rows, server>> /\ UNCHANGED askVars
    BY <1>7 DEF Act, qmlVars
  <2>2. \A c \in Chats : Owed(c) => Owed(c)'
    <3>1. \A c \in Chats : Heralded(c) => Heralded(c)'
      <4>1. /\ events \in Seq(Event) /\ events' \in Seq(Event)
            /\ Len(events) <= Len(events')
            /\ \A i \in 1..Len(events) : events'[i] = events[i]
        <5>1. events \in Seq(Event) /\ events' \in Seq(Event)
          BY <1>7, QmlType DEF Qml, TypeInv, CoreType
        <5>2. CASE events' = events
          BY <5>1, <5>2
        <5>3. CASE events' = Append(events, EventOf(account, "ChatlistItemChanged", d))
          BY <5>1, <5>3
        <5>4. QED
          BY <1>7, <5>1, <5>2, <5>3 DEF Act
      <4>2. QED
        BY <2>1, <4>1 DEF Heralded
    <3>2. QED
      BY <1>7, <2>1, <3>1 DEF Act, Owed, Coming, askVars
  <2>3. ASSUME NEW c \in Chats, NEW row, Wrong(row, c)'
        PROVE  Wrong(row, c) \/ Owed(c)'
    <3>1. CASE c = d
      BY <1>7, <2>1, <3>1 DEF Act, Owed, Coming
    <3>2. CASE c # d
      <4>1. account \in Accounts /\ version \in [Accounts -> [Chats -> Nat]]
        BY <1>7 DEF Act, TypeInv, CoreType, ListType
      <4>2. version'[account][c] = version[account][c]
        BY <1>7, <3>2, <4>1 DEF Act
      <4>3. QED
        BY <2>1, <2>3, <4>2 DEF Wrong
    <3>3. QED
      BY <3>1, <3>2
  <2>4. QED
    BY <2>1, <2>2, <2>3, SameShape, CoveredKeptAsIs DEF askVars, Known
<1>8. QED
  BY <1>2, <1>3, <1>4, <1>5, <1>6, <1>7 DEF Qml

\* Handling an event hands what it heralds to refresh; the rest stay queued.
LEMMA EventHandled ==
    ASSUME TypeInv, account # NoAccount, HandleEvent, NEW c \in Chats, Heralded(c)
    PROVE  \/ Heralded(c)'
           \/ Head(events).account = account /\ Owes(Scope(Head(events)), c)
<1>1. events \in Seq(Event) /\ events # <<>> /\ events' = Tail(events) /\ account' = account
  BY DEF HandleEvent, TypeInv, CoreType, qmlVars
<1>2. PICK i \in DOMAIN events : events[i].account = account /\ Owes(Scope(events[i]), c)
  BY DEF Heralded
<1>3. CASE i = 1
  BY <1>1, <1>2, <1>3
<1>4. CASE i # 1
  <2>1. i - 1 \in DOMAIN Tail(events) /\ Tail(events)[i - 1] = events[i]
    BY <1>1, <1>4
  <2>2. QED
    BY <1>1, <1>2, <2>1 DEF Heralded
<1>5. QED
  BY <1>3, <1>4

\* Callbacks that land no refresh keep everything covered...
LEMMA EventKeeps ==
    ASSUME TypeInv, Shape, Covered,
           \/ Kick \/ HandleEvent
           \/ \E act \in acts : ActLands(act)
           \/ \E c \in checks : MentionFound(c) \/ MentionNotFound(c)
           \/ \E change \in told : TranscriptTold(change)
    PROVE  Shape' /\ Covered'
<1>0. ASSUME UNCHANGED <<account, version, rows, events, acts, server>>, UNCHANGED askVars
      PROVE  Shape' /\ Covered'
  BY <1>0, SameShape, SameWrong, SameComing, CoveredKeptAsIs DEF askVars, Owed, Known
<1>1. CASE Kick
  <2>1. UNCHANGED <<account, version, rows, events, acts, server>>
    BY <1>1 DEF Kick, coreVars, qmlVars
  <2>2. CASE paused
    BY <1>0, <1>1, <2>1, <2>2 DEF Kick
  <2>3. CASE ~paused
    BY <1>1, <2>1, <2>3, RestartKeeps DEF Kick, Known
  <2>4. QED
    BY <2>2, <2>3
<1>2. CASE HandleEvent
  <2> DEFINE e == Head(events)
             mine == account # NoAccount /\ e.account = account
  <2>1. UNCHANGED <<account, version, rows, acts, server>>
    BY <1>2 DEF HandleEvent, qmlVars
  <2>2. e \in Event
    BY <1>2 DEF HandleEvent, TypeInv, CoreType
  <2>3. CASE mine
    <3>1. Refresh(Scope(e))
      BY <1>2, <2>3 DEF HandleEvent
    <3>2. \A c \in Chats : Coming(c) => Coming(c)' \/ Owes(Scope(e), c)
      BY <1>2, <2>1, <2>3, EventHandled DEF Coming
    <3>3. QED
      BY <2>1, <2>2, <3>1, <3>2, RefreshKeeps, ScopeTypes DEF Known
  <2>4. CASE ~mine
    <3>1. UNCHANGED askVars
      BY <1>2, <2>4 DEF HandleEvent
    <3>2. CASE account = NoAccount
      BY <2>1, <3>1, <3>2, SameShape DEF askVars, Covered, Known
    <3>3. CASE account # NoAccount
      <4>1. \A c \in Chats : Coming(c) => Coming(c)'
        BY <1>2, <2>1, <2>4, <3>3, EventHandled DEF Coming
      <4>2. QED
        BY <2>1, <3>1, <4>1, SameShape, SameWrong, CoveredKeptAsIs DEF askVars, Owed, Known
    <3>4. QED
      BY <3>2, <3>3
  <2>5. QED
    BY <2>3, <2>4
<1>3. ASSUME NEW act \in acts, ActLands(act)
      PROVE  Shape' /\ Covered'
  <2>1. act \in Accounts \X Chats
    BY DEF TypeInv, ListType
  <2>2. /\ UNCHANGED <<account, version, rows, events, server>>
        /\ acts' = acts \ {act} /\ Refresh(One(act[2]))
    BY <1>3 DEF ActLands, coreVars, qmlVars
  <2>3. \A c \in Chats : Coming(c) => Coming(c)' \/ Owes(One(act[2]), c)
    BY <2>1, <2>2 DEF Coming, Heralded, One, Owes
  <2>4. QED
    BY <2>1, <2>2, <2>3, RefreshKeeps, ScopeTypes DEF Known
<1>4. ASSUME NEW d \in checks, MentionFound(d)
      PROVE  Shape' /\ Covered'
  <2>1. UNCHANGED <<account, version, rows, events, acts, server>> /\ Refresh(One(d))
    BY <1>4 DEF MentionFound, coreVars, qmlVars
  <2>2. d \in Chats
    BY DEF TypeInv, ListType
  <2>3. QED
    BY <2>1, <2>2, RefreshKeeps, ScopeTypes, SameComing DEF Known
<1>5. ASSUME NEW d \in checks, MentionNotFound(d)
      PROVE  Shape' /\ Covered'
  BY <1>0, <1>5 DEF MentionNotFound, coreVars, qmlVars
<1>6. ASSUME NEW change \in told, TranscriptTold(change)
      PROVE  Shape' /\ Covered'
  <2> DEFINE touched == {c \in VoiceChats : /\ rows[c] # NoRow
                                            /\ change \in {NoChat, <<account, c>>}}
             scope == [everything |-> FALSE, chats |-> touched]
  <2>1. UNCHANGED <<account, version, rows, events, acts, server>>
    BY <1>6 DEF TranscriptTold, qmlVars
  <2>2. scope \in Awaiting
    BY ChatListAssumption DEF Awaiting
  <2>3. UNCHANGED askVars \/ Refresh(scope)
    BY <1>6 DEF TranscriptTold
  <2>4. QED
    BY <1>0, <2>1, <2>2, <2>3, RefreshKeeps, SameComing DEF Known
<1>7. QED
  BY <1>1, <1>2, <1>3, <1>4, <1>5, <1>6

\* ...and those that do: what lands was covered while it was under way.
LEMMA LandedKeeps ==
    ASSUME TypeInv, Shape, Covered, NEW t \in tasks,
           ShowEarly(t) \/ LandStale(t) \/ LandRows(t) \/ LandError(t)
    PROVE  Shape' /\ Covered'
<1>1. t \in TaskType /\ t.gen \in 1..generation /\ RowsRead(t)
  BY DEF TypeInv, AskInv, ReadTask, Shape, Generations
<1>2. Known /\ t.gen = inFlight => TaskCovered(t)
  BY DEF Covered
<1>3. CASE ShowEarly(t)
  <2>1. PICK u : u = [t EXCEPT !.early = {}]
    OBVIOUS
  <2>2. /\ Step(t, u)
        /\ UNCHANGED <<account, version, events, acts, server, awaiting, asking, inFlight,
                       generation>>
    BY <1>3, <2>1 DEF ShowEarly, coreVars, qmlVars
  <2>3. /\ u.gen = t.gen /\ u.asked = t.asked /\ u.account = t.account
        /\ u.cached = t.cached /\ u.fresh = t.fresh /\ u.entries = t.entries
        /\ u.phase = t.phase /\ u.wanted = t.wanted /\ u.rest = t.rest
    BY <1>1, <2>1 DEF TaskType
  <2>4. RowsRead(u)
    BY <1>1, <2>3 DEF RowsRead, Reads
  <2>5. Shape'
    BY <2>2, <2>3, <2>4, StepShape
  <2>6. \A c \in Chats : Owed(c)' <=> Owed(c)
    BY <2>2, SameComing DEF Owed
  <2>7. Known' <=> Known
    BY <2>2 DEF Known
  <2>8. ASSUME NEW x \in tasks', x.gen = inFlight', Known
        PROVE  TaskCovered(x)'
    <3>1. PICK y \in tasks : /\ y.gen = x.gen /\ y.account = x.account
                            /\ y.cached = x.cached /\ y.fresh = x.fresh
      BY <2>2, <2>3 DEF Step
    <3>2. TaskCovered(y)
      BY <2>2, <2>8, <3>1 DEF Covered
    <3>3. QED
      BY <2>2, <2>6, <3>1, <3>2, SameWrong DEF TaskCovered
  <2>9. ASSUME NEW c \in Chats, Known, Wrong(rows[c], c)'
        PROVE  Owed(c)' \/ (inFlight' # 0 /\ Owes(asking', c))
    <3>1. CASE t.gen # generation
      <4>1. rows' = rows
        BY <1>3, <3>1 DEF ShowEarly, Newest
      <4>2. Wrong(rows[c], c)
        BY <2>2, <2>9, <4>1 DEF Wrong
      <4>3. QED
        BY <2>2, <2>6, <2>9, <4>2 DEF Covered
    <3>2. CASE t.gen = generation
      <4>1. t.gen = inFlight
        BY <3>2 DEF Shape, Generations
      <4>2. rows'[c] = IF c \in t.early THEN t.fresh[c] ELSE NoRow
        BY <1>3, <3>2 DEF ShowEarly, Newest
      <4>3. Wrong(t.fresh[c], c)
        BY <2>2, <2>9, <4>2 DEF Wrong
      <4>4. QED
        BY <1>2, <2>6, <2>9, <4>1, <4>3 DEF TaskCovered
    <3>3. QED
      BY <3>1, <3>2
  <2>10. QED
    BY <2>5, <2>7, <2>8, <2>9 DEF Covered
<1>4. CASE LandStale(t)
  <2>1. /\ tasks' = tasks \ {t}
        /\ UNCHANGED <<account, version, rows, events, acts, server, awaiting, asking,
                       inFlight, generation>>
    BY <1>4 DEF LandStale, landFrame, coreVars, qmlVars
  <2>2. t.gen # inFlight
    BY <1>4 DEF LandStale, Current
  <2>3. Shape'
    BY <2>1 DEF Shape, Generations, RowsRead, Reads
  <2>4. \A c \in Chats : Owed(c) => Owed(c)'
    BY <2>1, SameComing DEF Owed
  <2>5. \A u \in tasks' : u \in tasks
    BY <2>1
  <2>6. Covered'
    BY <2>1, <2>4, <2>5, SameWrong, CoveredKept DEF Known
  <2>7. QED
    BY <2>3, <2>6
<1>5. CASE LandRows(t)
  <2>1. PICK held \in [Chats -> Row \cup {NoRow}] : held = Result(t)
    BY <1>1, ResultType
  <2> DEFINE voice == {c \in VoiceChats : held[c] # NoRow}
             stale == TextsMoved /\ voice # {}
             more == [everything |-> FALSE, chats |-> voice]
  <2>2. PICK owed : owed = IF stale THEN Merge(awaiting, more) ELSE awaiting
    OBVIOUS
  <2>3. awaiting \in Awaiting /\ more \in Awaiting
    BY ChatListAssumption DEF TypeInv, AskInv, AskType, Awaiting
  <2>4. owed \in Awaiting /\ \A c : Owes(awaiting, c) => Owes(owed, c)
    <3> HIDE DEF stale, more
    <3>1. QED
      BY <2>2, <2>3, MergeType, OwesMerge
  <2>5. /\ AskAgain(held, owed, again \/ stale, t) /\ rows' = held
        /\ t.gen = inFlight /\ t.phase = "done"
        /\ UNCHANGED <<account, version, server, events, acts>>
    BY <1>5, <2>1, <2>2 DEF LandRows, Current, landFrame, coreVars, qmlVars
  <2>6. ASSUME Known, NEW c \in Chats, Wrong(held[c], c)
        PROVE  Owes(owed, c) \/ Coming(c)
    <3>1. held[c] # NoRow
      BY <2>6 DEF Wrong
    <3>2. c \in t.entries /\ held[c] = IF t.fresh[c] # NoRow THEN t.fresh[c] ELSE t.cached[c]
      BY <2>1, <3>1 DEF Result
    <3>3. t.asked = asking
      BY <2>5 DEF Shape, Generations
    <3>4. CASE t.fresh[c] # NoRow
      BY <1>2, <2>4, <2>5, <2>6, <3>2, <3>4 DEF TaskCovered, Owed
    <3>5. CASE t.fresh[c] = NoRow
      <4>1. ~Owes(asking, c)
        BY <1>1, <2>5, <3>2, <3>3, <3>5 DEF RowsRead, Reads
      <4>2. QED
        BY <1>2, <2>4, <2>5, <2>6, <3>2, <3>5, <4>1 DEF TaskCovered, Owed
    <3>6. QED
      BY <3>4, <3>5
  <2> HIDE DEF stale
  <2>7. QED
    BY <2>4, <2>5, <2>6, LandingKeeps
<1>6. CASE LandError(t)
  <2>1. PICK held \in [Chats -> Row \cup {NoRow}] : held = rows
    BY DEF TypeInv, ListType
  <2>2. awaiting \in Awaiting /\ asking \in Awaiting
    BY DEF TypeInv, AskInv, AskType
  <2>3. PICK owed \in Awaiting : owed = OwedAfterError
    BY <2>2, MergeType DEF OwedAfterError
  <2>4. \A c : Owes(owed, c) <=> Owes(awaiting, c) \/ Owes(asking, c)
    BY <2>2, <2>3, OwesMerge DEF OwedAfterError
  <2>5. /\ AskAgain(held, owed, again, t) /\ rows' = held /\ t.gen = inFlight
        /\ UNCHANGED <<account, version, server, events, acts>>
    BY <1>6, <2>1, <2>3 DEF LandError, Current, landFrame, coreVars, qmlVars
  <2>6. Known => \A c \in Chats : Wrong(held[c], c) => Owes(owed, c) \/ Coming(c)
    BY <2>1, <2>4 DEF Covered, Owed
  <2>7. QED
    BY <2>5, <2>6, LandingKeeps
<1>7. QED
  BY <1>3, <1>4, <1>5, <1>6

\* The steps of a refresh task keep everything covered: rows are read as they
\* are now, and all it had to read is read when it is done.
LEMMA TaskKeeps ==
    ASSUME TypeInv, Shape, Covered, NEW t \in tasks,
           ReadListing(t) \/ ReadItems(t) \/ ReadTexts(t) \/ Refused(t) \/ CutOff(t)
    PROVE  Shape' /\ Covered'
<1>1. t \in ReadTask /\ t \in TaskType /\ RowsRead(t)
  BY DEF TypeInv, AskInv, ReadTask, Shape
<1>2. UNCHANGED taskFrame
  BY DEF ReadListing, ReadItems, ReadTexts, Refused, CutOff
<1>3. /\ UNCHANGED <<account, version, rows, events, acts, server, awaiting, asking,
                     inFlight, generation>>
      /\ Known' <=> Known
      /\ \A c : Owed(c)' <=> Owed(c)
  BY <1>2, SameComing DEF taskFrame, coreVars, qmlVars, Owed, Known
<1>4. ASSUME NEW u, Step(t, u), RowsRead(u),
             u.gen = t.gen, u.asked = t.asked, u.account = t.account, u.cached = t.cached,
             Known /\ u.gen = inFlight => \A c \in Chats :
                 Wrong(u.fresh[c], c) => Wrong(t.fresh[c], c) \/ Owed(c)
      PROVE  Shape' /\ Covered'
  <2>1. Shape'
    BY <1>3, <1>4, StepShape
  <2>2. \A x \in tasks' : \E y \in tasks :
           /\ y.gen = x.gen /\ y.account = x.account /\ y.cached = x.cached
           /\ Known /\ x.gen = inFlight => \A c \in Chats :
                Wrong(x.fresh[c], c)' => Wrong(y.fresh[c], c) \/ Owed(c)'
    <3> SUFFICES ASSUME NEW x \in tasks'
                 PROVE  \E y \in tasks :
                          /\ y.gen = x.gen /\ y.account = x.account /\ y.cached = x.cached
                          /\ Known /\ x.gen = inFlight => \A c \in Chats :
                               Wrong(x.fresh[c], c)' => Wrong(y.fresh[c], c) \/ Owed(c)'
      OBVIOUS
    <3>1. \A c : Wrong(x.fresh[c], c)' => Wrong(x.fresh[c], c)
      BY <1>3, SameWrong
    <3>2. CASE x = u
      BY <1>3, <1>4, <3>1, <3>2
    <3>3. CASE x # u
      BY <1>4, <3>1, <3>3 DEF Step
    <3>4. QED
      BY <3>2, <3>3
  <2>3. Covered'
    BY <1>3, <2>2, SameWrong, CoveredKept
  <2>4. QED
    BY <2>1, <2>3
<1>5. CASE ReadListing(t)
  <2> DEFINE entries == Entries(t.account, t.mode, t.query)
             want == {c \in entries : Owes(t.asked, c) \/ t.cached[c] = NoRow}
             first == IF t.cached = NoRows /\ Cardinality(want) > Screenful
                      THEN {s \in SUBSET want : Cardinality(s) = Screenful}
                      ELSE {want}
  <2>1. PICK s \in first :
          Step(t, [t EXCEPT !.entries = entries, !.wanted = s, !.rest = want \ s,
                            !.phase = IF s = {} THEN "done" ELSE "items"])
    BY <1>5 DEF ReadListing
  <2>2. s = {} => want = {}
    BY <2>1, FS_EmptySet, ChatListAssumption
  <2>3. PICK e : e = entries
    OBVIOUS
  <2>4. PICK w : w = want /\ w = {c \in e : Reads(t, c)}
    BY <2>3 DEF Reads
  <2> HIDE DEF entries, want, first
  <2>5. PICK u : u = [t EXCEPT !.entries = e, !.wanted = s, !.rest = w \ s,
                               !.phase = IF s = {} THEN "done" ELSE "items"]
    OBVIOUS
  <2>6. /\ Step(t, u) /\ u.gen = t.gen /\ u.asked = t.asked /\ u.account = t.account
        /\ u.cached = t.cached /\ u.fresh = t.fresh /\ u.entries = e /\ u.wanted = s
        /\ u.rest = w \ s /\ u.phase = IF s = {} THEN "done" ELSE "items"
    BY <1>1, <2>1, <2>3, <2>4, <2>5 DEF TaskType
  <2>7. RowsRead(u)
    BY <2>2, <2>4, <2>6 DEF RowsRead, Reads
  <2>8. QED
    BY <1>4, <2>6, <2>7
<1>6. CASE ReadItems(t)
  <2>1. PICK read : read = [c \in Chats |-> IF c \in t.wanted
                             THEN [account |-> t.account, version |-> version[t.account][c],
                                   text |-> 0]
                             ELSE t.fresh[c]]
    OBVIOUS
  <2>2. PICK u : u = [t EXCEPT !.phase = "texts", !.fresh = read]
    OBVIOUS
  <2>3. /\ Step(t, u) /\ u.gen = t.gen /\ u.asked = t.asked /\ u.account = t.account
        /\ u.cached = t.cached /\ u.entries = t.entries /\ u.wanted = t.wanted
        /\ u.rest = t.rest /\ u.phase = "texts" /\ u.fresh = read /\ t.phase = "items"
    BY <1>1, <1>6, <2>1, <2>2 DEF ReadItems, TaskType
  <2>4. \A c \in t.entries : t.fresh[c] # NoRow \/ c \in t.wanted => read[c] # NoRow
    <3>1. \A c \in Chats : [account |-> t.account, version |-> version[t.account][c],
                            text |-> 0] \in Row
      BY <1>1 DEF Row, TypeInv, CoreType, TaskType
    <3>2. QED
      BY <1>1, <2>1, <3>1, ChatListAssumption DEF Row, TaskType
  <2>5. RowsRead(u)
    BY <1>1, <2>3, <2>4 DEF RowsRead, Reads, TaskType
  <2>6. ASSUME Known, u.gen = inFlight, NEW c \in Chats, Wrong(read[c], c)
        PROVE  Wrong(t.fresh[c], c) \/ Owed(c)
    <3>1. CASE c \in t.wanted
      <4>1. t.account # account
        BY <2>1, <2>6, <3>1 DEF Wrong
      <4>2. QED
        BY <2>3, <2>6, <4>1 DEF Covered, TaskCovered
    <3>2. CASE c \notin t.wanted
      BY <2>1, <2>6, <3>2
    <3>3. QED
      BY <3>1, <3>2
  <2>7. QED
    BY <1>4, <2>3, <2>5, <2>6
<1>7. CASE ReadTexts(t)
  <2>1. PICK read :
          read = [c \in Chats |-> IF c \in t.wanted /\ c \in VoiceChats /\ t.previews
                                  THEN [t.fresh[c] EXCEPT !.text = text[t.account][c]]
                                  ELSE t.fresh[c]]
    OBVIOUS
  <2>2. PICK u : u = [t EXCEPT
                        !.phase = IF t.rest = {} THEN "done" ELSE "items",
                        !.early = IF t.rest = {} THEN t.early ELSE t.wanted,
                        !.wanted = IF t.rest = {} THEN t.wanted ELSE t.rest,
                        !.rest = {}, !.fresh = read]
    OBVIOUS
  <2>3. /\ Step(t, u) /\ u.gen = t.gen /\ u.asked = t.asked /\ u.account = t.account
        /\ u.cached = t.cached /\ u.entries = t.entries /\ u.fresh = read
        /\ u.wanted = IF t.rest = {} THEN t.wanted ELSE t.rest
        /\ u.phase = IF t.rest = {} THEN "done" ELSE "items"
        /\ t.phase = "texts"
    BY <1>1, <1>7, <2>1, <2>2 DEF ReadTexts, TaskType
  <2>4. \A c \in t.wanted : c \in Chats /\ t.fresh[c] \in Row
    BY <1>1, <2>3 DEF ReadTask, TaskType
  <2>5. \A c \in t.wanted : /\ [t.fresh[c] EXCEPT !.text = text[t.account][c]] # NoRow
                            /\ [t.fresh[c] EXCEPT !.text = text[t.account][c]].account
                               = t.fresh[c].account
                            /\ [t.fresh[c] EXCEPT !.text = text[t.account][c]].version
                               = t.fresh[c].version
    <3>1. \A c \in Chats : text[t.account][c] \in Nat
      BY <1>1 DEF TypeInv, CoreType, TaskType
    <3>2. \A c \in t.wanted : [t.fresh[c] EXCEPT !.text = text[t.account][c]] \in Row
      BY <2>4, <3>1 DEF Row
    <3>3. QED
      BY <2>4, <3>2, ChatListAssumption DEF Row
  <2>6. \A c \in Chats : /\ read[c] = NoRow => t.fresh[c] = NoRow
                         /\ Wrong(read[c], c) => Wrong(t.fresh[c], c)
    BY <2>1, <2>4, <2>5, ChatListAssumption DEF Wrong, Row
  <2>7. \A c \in t.entries : c \in Chats
    BY <1>1 DEF TaskType
  <2>8. RowsRead(u)
    <3>1. ASSUME NEW c \in t.entries, Reads(t, c), read[c] = NoRow
          PROVE  t.rest # {} /\ c \in t.rest
      BY <1>1, <2>3, <2>4, <2>6, <2>7, <3>1, ChatListAssumption DEF RowsRead, Row
    <3>2. QED
      BY <2>3, <3>1 DEF RowsRead, Reads
  <2>9. QED
    BY <1>4, <2>3, <2>6, <2>8
<1>8. CASE Refused(t) \/ CutOff(t)
  <2>1. PICK u : u = [t EXCEPT !.phase = "failed"]
    OBVIOUS
  <2>2. /\ Step(t, u) /\ u.gen = t.gen /\ u.asked = t.asked /\ u.account = t.account
        /\ u.cached = t.cached /\ u.fresh = t.fresh /\ u.phase = "failed"
    BY <1>1, <1>8, <2>1 DEF Refused, CutOff, TaskType
  <2>3. RowsRead(u)
    BY <2>2 DEF RowsRead
  <2>4. QED
    BY <1>4, <2>2, <2>3
<1>9. QED
  BY <1>5, <1>6, <1>7, <1>8

-----------------------------------------------------------------------------
(* The core, the store and the hub *)

\* Events only ever added herald what was heralded, and what the new ones say.
LEMMA HeraldedLonger ==
    ASSUME account' = account, events \in Seq(Event), NEW more \in Seq(Event),
           events' = events \o more
    PROVE  /\ \A c \in Chats : Heralded(c) => Heralded(c)'
           /\ \A c \in Chats : \A j \in DOMAIN more :
                more[j].account = account /\ Owes(Scope(more[j]), c) => Heralded(c)'
<1>1. /\ events' \in Seq(Event) /\ Len(events') = Len(events) + Len(more)
      /\ \A i \in 1..Len(events') : events'[i] = IF i <= Len(events) THEN events[i]
                                                  ELSE more[i - Len(events)]
  BY ConcatProperties
<1>2. \A i \in DOMAIN events : i \in DOMAIN events' /\ events'[i] = events[i]
  BY <1>1
<1>3. \A j \in DOMAIN more : /\ Len(events) + j \in DOMAIN events'
                             /\ events'[Len(events) + j] = more[j]
  BY <1>1
<1>4. QED
  BY <1>2, <1>3 DEF Heralded

\* Each event is still there, or the notice of its account in its place.
LEMMA EventsDropped ==
    ASSUME TypeInv, NEW i \in DOMAIN events, NEW j \in DOMAIN events, i <= j, Overflow(i, j)
    PROVE  \A k \in DOMAIN events : \E n \in DOMAIN events' :
              /\ events'[n].account = events[k].account
              /\ events'[n] = events[k] \/ Scope(events'[n]) = All
<1>1. events \in Seq(Event) /\ i \in 1..Len(events) /\ j \in 1..Len(events)
  BY DEF TypeInv, CoreType
<1>2. PICK notice : notice = EventOf(events[i].account, "EventChannelOverflow", NoChat)
  OBVIOUS
<1>3. notice \in Event
  <2>1. events[i] \in Event
    BY <1>1
  <2>2. events[i].account \in Accounts
    BY <2>1 DEF Event
  <2>3. QED
    BY <1>2, <2>2, EventOfType DEF EventKinds
<1>4. PICK before : before = SubSeq(events, 1, i - 1)
  OBVIOUS
<1>5. PICK after : after = SubSeq(events, j + 1, Len(events))
  OBVIOUS
<1>6. /\ before \in Seq(Event) /\ Len(before) = i - 1
      /\ \A k \in 1..(i - 1) : before[k] = events[k]
  BY <1>1, <1>4, SubSeqProperties
<1>7. /\ after \in Seq(Event) /\ Len(after) = Len(events) - j
      /\ \A k \in 1..(Len(events) - j) : after[k] = events[j + k]
  <2>1. after \in Seq(Event) /\ \A k \in 1..(Len(events) - j) : after[k] = events[j + 1 + k - 1]
    BY <1>1, <1>5, SubSeqProperties
  <2>2. Len(after) = Len(events) - j
    BY <1>1, <1>5, SubSeqProperties
  <2>3. QED
    BY <1>1, <2>1, <2>2
<1>8. PICK start : start = before \o <<notice>>
  OBVIOUS
<1>9. /\ start \in Seq(Event) /\ Len(start) = i /\ start[i] = notice
      /\ \A k \in 1..(i - 1) : start[k] = events[k]
  <2>1. <<notice>> \in Seq(Event) /\ Len(<<notice>>) = 1 /\ <<notice>>[1] = notice
    BY <1>3
  <2>2. /\ start \in Seq(Event) /\ Len(start) = Len(before) + 1
        /\ \A k \in 1..(Len(before) + 1) : start[k] = IF k <= Len(before) THEN before[k]
                                                     ELSE <<notice>>[k - Len(before)]
    BY <1>6, <1>8, <2>1, ConcatProperties
  <2>3. QED
    BY <1>1, <1>6, <2>1, <2>2
<1>10. events' = start \o after
  BY <1>2, <1>4, <1>5, <1>8 DEF Overflow
<1>11. /\ events' \in Seq(Event) /\ Len(events') = i + Len(events) - j
       /\ \A k \in 1..(i + Len(events) - j) :
            events'[k] = IF k <= i THEN start[k] ELSE after[k - i]
  <2>1. /\ events' \in Seq(Event) /\ Len(events') = Len(start) + Len(after)
        /\ \A k \in 1..(Len(start) + Len(after)) :
             events'[k] = IF k <= Len(start) THEN start[k] ELSE after[k - Len(start)]
    BY <1>7, <1>9, <1>10, ConcatProperties
  <2>2. Len(start) + Len(after) = i + Len(events) - j
    BY <1>1, <1>7, <1>9
  <2>3. QED
    BY <1>9, <2>1, <2>2
<1>12. SUFFICES ASSUME NEW k \in DOMAIN events
               PROVE  \E n \in DOMAIN events' :
                         /\ events'[n].account = events[k].account
                         /\ events'[n] = events[k] \/ Scope(events'[n]) = All
  OBVIOUS
<1>13. CASE k < i
  <2>1. k \in DOMAIN events' /\ events'[k] = events[k]
    <3>1. k \in 1..(i - 1) /\ k \in 1..(i + Len(events) - j) /\ k <= i
      <4>1. k \in 1..Len(events) /\ i \in 1..Len(events) /\ j \in 1..Len(events)
        BY <1>1
      <4>2. QED
        BY <1>13, <4>1
    <3>2. start[k] = events[k]
      BY <1>9, <3>1
    <3>3. events'[k] = start[k]
      BY <1>11, <3>1
    <3>4. DOMAIN events' = 1..(i + Len(events) - j)
      BY <1>11
    <3>5. QED
      BY <3>1, <3>2, <3>3, <3>4
  <2>2. QED
    BY <1>12, <2>1
<1>14. CASE k \in i..j
  <2>1. i \in DOMAIN events' /\ events'[i] = notice
    BY <1>1, <1>9, <1>11
  <2>2. notice.account = events[k].account /\ Scope(notice) = All
    BY <1>2, <1>12, <1>14 DEF Overflow, EventOf, Scope
  <2>3. QED
    BY <2>1, <2>2
<1>15. CASE k > j
  <2>1. /\ i + (k - j) \in DOMAIN events' /\ events'[i + (k - j)] = after[k - j]
        /\ after[k - j] = events[k]
    <3>1. PICK m \in 1..(Len(events) - j) : k = j + m
      <4>1. k \in 1..Len(events) /\ k - j \in 1..(Len(events) - j) /\ k = j + (k - j)
        BY <1>1, <1>15
      <4>2. QED
        BY <4>1
    <3>2. after[m] = events[k]
      BY <1>7, <3>1
    <3>3. i + m \in 1..(i + Len(events) - j) /\ ~(i + m <= i) /\ (i + m) - i = m /\ k - j = m
      BY <1>1, <3>1
    <3>4. events'[i + m] = after[m]
      BY <1>11, <3>3
    <3>5. DOMAIN events' = 1..(i + Len(events) - j)
      BY <1>11
    <3>6. i + (k - j) = i + m /\ after[k - j] = after[m]
      BY <3>3
    <3>7. QED
      BY <3>2, <3>3, <3>4, <3>5, <3>6
  <2>2. QED
    BY <1>12, <2>1
<1>16. QED
  BY <1>1, <1>13, <1>14, <1>15

\* A notice of dropped events heralds what they heralded.
LEMMA HeraldedDropped ==
    ASSUME TypeInv, account' = account,
           NEW i \in DOMAIN events, NEW j \in DOMAIN events, i <= j, Overflow(i, j)
    PROVE  \A c \in Chats : Heralded(c) => Heralded(c)'
BY EventsDropped, OwesScopes DEF Heralded

\* What the core, the store and the hub do keeps everything covered: a row that
\* becomes wrong is heralded.
LEMMA OutsideKeeps ==
    ASSUME TypeInv, Shape, Covered,
           \/ \E a \in Accounts, c \in Chats : CoreChange(a, c) \/ TranscriptStored(a, c)
           \/ \E a \in Accounts, m \in Modes, c \in Chats : ListingChange(a, m, c)
           \/ \E i, j \in DOMAIN events : i <= j /\ Overflow(i, j)
           \/ SwitchTranscripts
           \/ \E key \in untold : Tell(key)
    PROVE  Shape' /\ Covered'
<1>1. /\ UNCHANGED <<account, rows, acts, server>> /\ UNCHANGED askVars
  BY DEF CoreChange, TranscriptStored, ListingChange, Overflow, SwitchTranscripts, Tell,
         coreFrame, qmlVars
<1>2. Shape' /\ (Known' => Known)
  BY <1>1, SameShape DEF askVars, Known
<1>3. ASSUME version' = version, \A c \in Chats : Heralded(c) => Heralded(c)'
      PROVE  Covered'
  <2>1. \A c \in Chats : Owed(c) => Owed(c)'
    BY <1>1, <1>3 DEF askVars, Owed, Coming
  <2>2. QED
    BY <1>1, <1>2, <1>3, <2>1, SameWrong, CoveredKeptAsIs DEF askVars
<1>4. ASSUME NEW a \in Accounts, NEW d \in Chats, CoreChange(a, d)
      PROVE  Covered'
  <2>0. SUFFICES ASSUME Known'
                 PROVE  Covered'
    BY DEF Covered
  <2>1. /\ EventOf(a, "IncomingMsg", d) \in Event
        /\ EventOf(a, "ChatlistItemChanged", d) \in Event
        /\ EventOf(a, "MsgsChanged", d) \in Event
        /\ EventOf(a, "MsgsChanged", NoChat) \in Event
    BY EventOfType DEF EventKinds
  <2>2. events \in Seq(Event) /\ version \in [Accounts -> [Chats -> Nat]]
    BY DEF TypeInv, CoreType
  <2>3. PICK more \in Seq(Event) :
          /\ events' = events \o more
          /\ 1 \in DOMAIN more /\ more[1].account = a /\ Owes(Scope(more[1]), d)
    <3>1. CASE events' = events \o <<EventOf(a, "IncomingMsg", d),
                                      EventOf(a, "ChatlistItemChanged", d)>>
      <4>1. PICK more : more = <<EventOf(a, "IncomingMsg", d),
                                 EventOf(a, "ChatlistItemChanged", d)>>
        OBVIOUS
      <4>2. more \in Seq(Event) /\ 1 \in DOMAIN more /\ more[1] = EventOf(a, "IncomingMsg", d)
        BY <2>1, <4>1
      <4>3. more[1].account = a /\ Owes(Scope(more[1]), d)
        BY <4>2, ChatListAssumption DEF EventOf, Scope, One, Owes
      <4>4. QED
        BY <3>1, <4>1, <4>2, <4>3
    <3>2. ASSUME NEW x \in {d, NoChat}, events' = Append(events, EventOf(a, "MsgsChanged", x))
          PROVE  \E more \in Seq(Event) :
                   /\ events' = events \o more
                   /\ 1 \in DOMAIN more /\ more[1].account = a /\ Owes(Scope(more[1]), d)
      <4>1. PICK e \in Event : e = EventOf(a, "MsgsChanged", x)
        BY <2>1
      <4>2. e.account = a /\ Owes(Scope(e), d)
        BY <4>1, ChatListAssumption DEF EventOf, Scope, One, All, Everything, Owes
      <4>3. events \o <<e>> = Append(events, e)
        BY <2>2, AppendIsConcat
      <4>4. <<e>> \in Seq(Event) /\ 1 \in DOMAIN <<e>> /\ <<e>>[1] = e
        OBVIOUS
      <4>5. QED
        BY <3>2, <4>1, <4>2, <4>3, <4>4
    <3>3. QED
      BY <1>4, <3>1, <3>2 DEF CoreChange
  <2>4. /\ \A c \in Chats : Heralded(c) => Heralded(c)'
        /\ a = account => Heralded(d)'
    BY <1>1, <2>2, <2>3, HeraldedLonger
  <2>5. \A c \in Chats : Owed(c) => Owed(c)'
    BY <1>1, <2>4 DEF askVars, Owed, Coming
  <2>6. ASSUME NEW c \in Chats, NEW row, Wrong(row, c)'
        PROVE  Wrong(row, c) \/ Owed(c)'
    <3>1. CASE c = d /\ a = account
      BY <2>4, <3>1 DEF Owed, Coming
    <3>2. CASE ~(c = d /\ a = account)
      <4>1. account \in Accounts
        BY <1>2, <2>0 DEF TypeInv, ListType, Known
      <4>2. version'[account][c] = version[account][c]
        BY <1>4, <2>2, <3>2, <4>1 DEF CoreChange
      <4>3. QED
        BY <1>1, <2>6, <4>2 DEF Wrong
    <3>3. QED
      BY <3>1, <3>2
  <2>7. QED
    BY <1>1, <1>2, <2>5, <2>6, CoveredKeptAsIs DEF askVars
<1>5. ASSUME NEW a \in Accounts, NEW m \in Modes, NEW d \in Chats, ListingChange(a, m, d)
      PROVE  Covered'
  <2>1. PICK e \in Event : e = EventOf(a, "ChatlistChanged", NoChat)
    BY EventOfType DEF EventKinds
  <2>2. events \in Seq(Event) /\ <<e>> \in Seq(Event)
    BY DEF TypeInv, CoreType
  <2>3. events' = events \o <<e>>
    BY <1>5, <2>1, <2>2, AppendIsConcat DEF ListingChange
  <2>4. \A c \in Chats : Heralded(c) => Heralded(c)'
    BY <1>1, <2>2, <2>3, HeraldedLonger
  <2>5. QED
    BY <1>3, <1>5, <2>4 DEF ListingChange
<1>6. ASSUME NEW i \in DOMAIN events, NEW j \in DOMAIN events, i <= j, Overflow(i, j)
      PROVE  Covered'
  BY <1>1, <1>3, <1>6, HeraldedDropped DEF Overflow
<1>7. ASSUME UNCHANGED <<version, events>>
      PROVE  Covered'
  BY <1>1, <1>3, <1>7 DEF Heralded
<1>8. QED
  BY <1>2, <1>4, <1>5, <1>6, <1>7 DEF TranscriptStored, SwitchTranscripts, Tell

\* The server's death cuts tasks off, and its return owes everything.
LEMMA ServerKeeps ==
    ASSUME TypeInv, Shape, Covered, ServerDies \/ Supervisor
    PROVE  Shape' /\ Covered'
<1>1. CASE ServerDies
  <2>1. ~Known' /\ UNCHANGED <<generation, inFlight, asking>>
    BY <1>1 DEF ServerDies, Known
  <2>2. \A u \in tasks' : \E t \in tasks :
          u = t \/ u = [t EXCEPT !.phase = "lost"]
    BY <1>1 DEF ServerDies
  <2>3. \A u \in tasks' : \E t \in tasks :
          /\ u.gen = t.gen /\ u.asked = t.asked
          /\ u = t \/ u = [t EXCEPT !.phase = "lost"]
    BY <2>2 DEF TypeInv, AskInv, ReadTask, TaskType
  <2>4. \A u, w \in tasks' : u.gen = w.gen => u = w
    <3> SUFFICES ASSUME NEW u \in tasks', NEW w \in tasks', u.gen = w.gen
                 PROVE  u = w
      OBVIOUS
    <3>1. PICK t \in tasks : u = IF t.phase \in {"listing", "items"}
                                THEN [t EXCEPT !.phase = "lost"] ELSE t
      BY <1>1 DEF ServerDies
    <3>2. PICK x \in tasks : w = IF x.phase \in {"listing", "items"}
                                THEN [x EXCEPT !.phase = "lost"] ELSE x
      BY <1>1 DEF ServerDies
    <3>3. t.gen = x.gen
      BY <3>1, <3>2 DEF TypeInv, AskInv, ReadTask, TaskType
    <3>4. t = x
      BY <3>3 DEF Shape, Generations
    <3>5. QED
      BY <3>1, <3>2, <3>4
  <2>5. Generations'
    BY <2>1, <2>3, <2>4 DEF Shape, Generations
  <2>6. \A u \in tasks' : RowsRead(u)
    <3>1. ASSUME NEW t \in tasks
          PROVE  RowsRead([t EXCEPT !.phase = "lost"])
      BY DEF RowsRead, TypeInv, AskInv, ReadTask, TaskType
    <3>2. QED
      BY <2>2, <3>1 DEF Shape
  <2>7. QED
    BY <2>1, <2>5, <2>6 DEF Shape, Covered, RowsRead, Reads
<1>2. CASE ServerGone
  <2>1. ~Known' /\ UNCHANGED askVars
    BY <1>2 DEF ServerGone, coreFrame, Known
  <2>2. QED
    BY <2>1, SameShape DEF askVars, Covered
<1>3. CASE ServerBack
  <2>1. UNCHANGED <<account, version, rows, events, acts>> /\ Refresh(All)
    BY <1>3 DEF ServerBack, qmlVars
  <2>2. QED
    BY <2>1, RefreshKeeps, ScopeTypes, SameComing
<1>4. QED
  BY <1>1, <1>2, <1>3 DEF Supervisor

-----------------------------------------------------------------------------
(* The theorem *)

\* The list starts with nothing to lose...
LEMMA RefreshInit ==
    ASSUME Init
    PROVE  RefreshInv
<1>1. Shape
  BY DEF Init, Shape, Generations
<1>2. Covered
  BY DEF Init, Covered, Known
<1>3. QED
  BY <1>1, <1>2, Halves

\* ...and loses nothing in any step.
LEMMA RefreshStep ==
    ASSUME TypeInv, RefreshInv, [Next]_vars
    PROVE  RefreshInv'
<1>0. Shape /\ Covered
  BY Halves
<1>1. CASE Qml
  BY <1>0, <1>1, QmlKeeps, Halves DEF RefreshInv, Shape, Covered, NoLostRefresh
<1>2. CASE Callback
  BY <1>0, <1>2, EventKeeps, LandedKeeps
  DEF Callback, RefreshInv, Shape, Covered, NoLostRefresh
<1>3. CASE Task
  BY <1>0, <1>3, TaskKeeps DEF Task, RefreshInv, Shape, Covered, NoLostRefresh
<1>4. CASE Environment
  BY <1>0, <1>4, OutsideKeeps, TaskKeeps, ServerKeeps
  DEF Environment, RefreshInv, Shape, Covered, NoLostRefresh
<1>5. CASE Supervisor
  BY <1>0, <1>5, ServerKeeps DEF RefreshInv, Shape, Covered, NoLostRefresh
<1>6. CASE \E key \in untold : Tell(key)
  BY <1>0, <1>6, OutsideKeeps DEF RefreshInv, Shape, Covered, NoLostRefresh
<1>7. CASE UNCHANGED vars
  <2>1. /\ UNCHANGED <<account, version, rows, events, acts, server>> /\ UNCHANGED askVars
    BY <1>7 DEF vars, coreVars, qmlVars
  <2>2. Shape' /\ Covered'
    BY <1>0, <2>1, SameShape, SameWrong, SameComing, CoveredKeptAsIs DEF askVars, Owed, Known
  <2>3. QED
    BY <2>2 DEF RefreshInv, Shape, Covered, NoLostRefresh
<1>8. QED
  BY <1>1, <1>2, <1>3, <1>4, <1>5, <1>6, <1>7 DEF Next

\* Only the newest refresh lands, and what any puts into the rows is right or
\* owed by then: the invariant, in every reachable state.
THEOREM RefreshesCovered == Spec => []RefreshInv
BY TypeInit, TypeStep, RefreshInit, RefreshStep, PTL DEF Spec

\* No stale row is forgotten: while the server lives, a row that is not what the
\* core would say is owed, heralded, or asked by the refresh in flight.
THEOREM NothingLost == Spec => []NoLostRefresh
<1>1. RefreshInv => NoLostRefresh
  BY DEF RefreshInv
<1>2. QED
  BY <1>1, RefreshesCovered, PTL

=============================================================================
