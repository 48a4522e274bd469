------------------------- MODULE ChatListOrderProofs -------------------------
(***************************************************************************)
(* What is asked gets asked, rows never go back to older contents, and a   *)
(* list at rest is in sync, for every number of accounts, chats, modes and *)
(* searches, and every budget.                                             *)
(***************************************************************************)
EXTENDS ChatListProofs

-----------------------------------------------------------------------------
(* The steps of a refresh task *)

\* The row a read of chat c gives for a task.
ReadRow(t, c) == [account |-> t.account, version |-> version[t.account][c], text |-> 0]

\* A later part of a refresh that posts rows early: only one that holds none.
FirstLoad(t) == t.early # {} \/ t.rest # {} => t.cached = NoRows

\* What t becomes: of the same generation and rows held, its rows read afresh, as they
\* were, or with a transcript put into them.
ReadOn(t, u) ==
    \A c \in Chats :
        \/ u.fresh[c] = t.fresh[c]
        \/ u.fresh[c] = ReadRow(t, c)
        \/ /\ t.fresh[c] \in Row
           /\ \E x : u.fresh[c] = [t.fresh[c] EXCEPT !.text = x]
GoesOn(t, u) ==
    /\ u.gen = t.gen /\ u.cached = t.cached
    /\ FirstLoad(t) => FirstLoad(u)
    /\ ReadOn(t, u)

LEMMA TaskStepFacts ==
    ASSUME TypeInv, NEW t \in tasks,
           ReadListing(t) \/ ReadItems(t) \/ ReadTexts(t) \/ Refused(t) \/ CutOff(t)
    PROVE  \E u : Step(t, u) /\ GoesOn(t, u)
<1>1. t \in ReadTask /\ t \in TaskType
  BY DEF TypeInv, AskInv, ReadTask
<1>2. CASE ReadListing(t)
  <2> DEFINE entries == Entries(t.account, t.mode, t.query)
             want == {c \in entries : Owes(t.asked, c) \/ t.cached[c] = NoRow}
             first == IF t.cached = NoRows /\ Cardinality(want) > Screenful
                      THEN {s \in SUBSET want : Cardinality(s) = Screenful}
                      ELSE {want}
  <2>1. PICK s \in first :
          Step(t, [t EXCEPT !.entries = entries, !.wanted = s, !.rest = want \ s,
                            !.phase = IF s = {} THEN "done" ELSE "items"])
    BY <1>2 DEF ReadListing
  <2>2. want \ s # {} => t.cached = NoRows
    BY <2>1
  <2>3. PICK e : e = entries
    OBVIOUS
  <2>4. PICK r : r = want \ s
    OBVIOUS
  <2> HIDE DEF entries, want, first
  <2>5. PICK u : u = [t EXCEPT !.entries = e, !.wanted = s, !.rest = r,
                               !.phase = IF s = {} THEN "done" ELSE "items"]
    OBVIOUS
  <2>6. /\ Step(t, u) /\ u.gen = t.gen /\ u.cached = t.cached /\ u.fresh = t.fresh
        /\ u.rest = r /\ u.early = t.early
    BY <1>1, <2>1, <2>3, <2>4, <2>5 DEF TaskType
  <2>7. FirstLoad(t) => FirstLoad(u)
    BY <2>2, <2>4, <2>6 DEF FirstLoad
  <2>8. QED
    BY <2>6, <2>7 DEF GoesOn, ReadOn
<1>3. CASE ReadItems(t)
  <2>1. PICK read : read = [c \in Chats |-> IF c \in t.wanted THEN ReadRow(t, c) ELSE t.fresh[c]]
    OBVIOUS
  <2>2. PICK u : u = [t EXCEPT !.phase = "texts", !.fresh = read]
    OBVIOUS
  <2>3. Step(t, u)
    BY <1>3, <2>1, <2>2 DEF ReadItems, ReadRow
  <2>4. /\ u.gen = t.gen /\ u.cached = t.cached /\ u.fresh = read /\ u.rest = t.rest
        /\ u.early = t.early
    BY <1>1, <2>2 DEF TaskType
  <2>5. QED
    BY <2>1, <2>3, <2>4 DEF FirstLoad, GoesOn, ReadOn
<1>4. CASE ReadTexts(t)
  <2>1. PICK read : read = [c \in Chats |-> IF c \in t.wanted /\ c \in VoiceChats /\ t.previews
                                          THEN [t.fresh[c] EXCEPT !.text = text[t.account][c]]
                                          ELSE t.fresh[c]]
    OBVIOUS
  <2>2. PICK u : u = [t EXCEPT !.phase = IF t.rest = {} THEN "done" ELSE "items",
                               !.early = IF t.rest = {} THEN t.early ELSE t.wanted,
                               !.wanted = IF t.rest = {} THEN t.wanted ELSE t.rest,
                               !.rest = {},
                               !.fresh = read]
    OBVIOUS
  <2>3. Step(t, u)
    BY <1>4, <2>1, <2>2 DEF ReadTexts
  <2>4. /\ u.gen = t.gen /\ u.cached = t.cached /\ u.fresh = read /\ u.rest = {}
        /\ u.early = IF t.rest = {} THEN t.early ELSE t.wanted
    BY <1>1, <2>2 DEF TaskType
  <2>5. \A c \in t.wanted : t.fresh[c] \in Row
    BY <1>1, <1>4 DEF ReadTexts, ReadTask, TaskType
  <2>6. \A c \in Chats : u.fresh[c] = t.fresh[c]
                        \/ /\ t.fresh[c] \in Row
                           /\ u.fresh[c] = [t.fresh[c] EXCEPT !.text = text[t.account][c]]
    BY <2>1, <2>4, <2>5
  <2>7. FirstLoad(t) => FirstLoad(u)
    BY <2>4 DEF FirstLoad
  <2>8. ReadOn(t, u)
    <3>1. SUFFICES ASSUME NEW c \in Chats
                   PROVE  \/ u.fresh[c] = t.fresh[c]
                          \/ u.fresh[c] = ReadRow(t, c)
                          \/ /\ t.fresh[c] \in Row
                             /\ \E x : u.fresh[c] = [t.fresh[c] EXCEPT !.text = x]
      BY DEF ReadOn
    <3>2. PICK x : x = text[t.account][c]
      OBVIOUS
    <3>3. QED
      BY <2>6, <3>2
  <2>9. QED
    BY <2>3, <2>4, <2>7, <2>8 DEF GoesOn
<1>5. CASE Refused(t) \/ CutOff(t)
  <2>1. PICK u : u = [t EXCEPT !.phase = "failed"]
    OBVIOUS
  <2>2. Step(t, u)
    BY <1>5, <2>1 DEF Refused, CutOff
  <2>3. /\ u.gen = t.gen /\ u.cached = t.cached /\ u.fresh = t.fresh /\ u.rest = t.rest
        /\ u.early = t.early
    BY <1>1, <2>1 DEF TaskType
  <2>4. QED
    BY <2>2, <2>3 DEF FirstLoad, GoesOn, ReadOn
<1>6. QED
  BY <1>2, <1>3, <1>4, <1>5

-----------------------------------------------------------------------------
(* No lost wake-up *)

\* start_refresh: a task for the refresh in flight, and nothing left to ask again.
LEMMA StartWakes ==
    ASSUME NEW held, NEW owed, NEW flying, NEW running, StartRefresh(held, owed, flying, running),
           flying # 0 => \E t \in running : t.gen = flying
    PROVE  /\ inFlight' # 0 => \E t \in tasks' : t.gen = inFlight'
           /\ again' = FALSE
<1>1. CASE account = NoAccount \/ server' = "down"
  BY <1>1 DEF StartRefresh
<1>2. CASE ~(account = NoAccount \/ server' = "down")
  <2>1. /\ tasks' = running \cup {NewTask(held, Merge(owed, Replaced(flying)))}
        /\ inFlight' = generation + 1 /\ again' = FALSE
    BY <1>2 DEF StartRefresh
  <2>2. NewTask(held, Merge(owed, Replaced(flying))).gen = generation + 1
    BY DEF NewTask
  <2>3. QED
    BY <2>1, <2>2
<1>3. QED
  BY <1>1, <1>2

\* refresh_announcing: asked at once, or noted where something will ask it.
LEMMA RefreshWakes ==
    ASSUME NoLostWakeup, NEW scope, Refresh(scope), UNCHANGED <<paused, restartDue, kicks>>
    PROVE  NoLostWakeup'
<1>1. CASE account = NoAccount
  BY <1>1 DEF Refresh, RefreshOwing, askVars, NoLostWakeup
<1>2. CASE account # NoAccount /\ (paused \/ inFlight # 0 \/ restartDue)
  BY <1>2 DEF Refresh, RefreshOwing, NoLostWakeup
<1>3. CASE account # NoAccount /\ ~(paused \/ inFlight # 0 \/ restartDue)
  <2>1. StartRefresh(rows, Merge(awaiting, scope), inFlight, tasks)
    BY <1>3 DEF Refresh, RefreshOwing
  <2>2. QED
    BY <2>1, StartWakes DEF NoLostWakeup
<1>4. QED
  BY <1>1, <1>2, <1>3

\* restart: its kick is queued.
LEMMA RestartWakes ==
    ASSUME TypeInv, NoLostWakeup, NEW scope, Restart(scope), UNCHANGED paused
    PROVE  NoLostWakeup'
BY DEF Restart, NoLostWakeup, TypeInv, ListType

\* A landing: what was asked meanwhile is asked now, or left to the kick or the resume.
LEMMA LandingWakes ==
    ASSUME TypeInv, NoLostWakeup, NEW held, NEW owed, NEW wanted, NEW t \in tasks,
           AskAgain(held, owed, wanted, t), UNCHANGED <<paused, restartDue, kicks>>
    PROVE  NoLostWakeup'
<1>1. CASE wanted /\ ~paused /\ ~restartDue
  <2>1. StartRefresh(held, owed, 0, tasks \ {t})
    BY <1>1 DEF AskAgain
  <2>2. QED
    BY <2>1, StartWakes DEF NoLostWakeup
<1>2. CASE ~(wanted /\ ~paused /\ ~restartDue)
  <2>1. inFlight' = 0 /\ again' = wanted
    BY <1>2 DEF AskAgain
  <2>2. QED
    BY <1>2, <2>1 DEF NoLostWakeup
<1>3. QED
  BY <1>1, <1>2

\* The tasks of each generation go on.
LEMMA TasksWake ==
    ASSUME NoLostWakeup, UNCHANGED <<inFlight, again, restartDue, kicks, paused>>,
           \A t \in tasks : t.gen = inFlight => \E u \in tasks' : u.gen = t.gen
    PROVE  NoLostWakeup'
BY DEF NoLostWakeup

LEMMA StepWakes ==
    ASSUME NoLostWakeup, NEW t \in tasks, NEW u, Step(t, u), u.gen = t.gen,
           UNCHANGED <<inFlight, again, restartDue, kicks, paused>>
    PROVE  NoLostWakeup'
BY TasksWake DEF Step

LEMMA WakeStep ==
    ASSUME TypeInv, NoLostWakeup, [Next]_vars
    PROVE  NoLostWakeup'
<1>1. CASE Qml
  <2>1. ASSUME NEW a \in Accounts \cup {NoAccount}, SetAccount(a) PROVE NoLostWakeup'
    BY <2>1, RestartWakes DEF SetAccount
  <2>2. ASSUME NEW q \in Queries, SetQuery(q) PROVE NoLostWakeup'
    BY <2>2, RestartWakes DEF SetQuery
  <2>3. ASSUME NEW m \in Modes, SetMode(m) PROVE NoLostWakeup'
    BY <2>3, RestartWakes DEF SetMode
  <2>4. CASE SetPaused
    <3>1. CASE paused /\ StartDue
      <4>1. StartRefresh(rows, awaiting, inFlight, tasks) /\ restartDue' = FALSE
        BY <2>4, <3>1 DEF SetPaused
      <4>2. QED
        BY <4>1, StartWakes DEF NoLostWakeup
    <3>2. CASE ~(paused /\ StartDue)
      <4>1. /\ UNCHANGED <<inFlight, again, tasks, restartDue, kicks>> /\ paused' = ~paused
        BY <2>4, <3>2 DEF SetPaused, askVars
      <4>2. QED
        BY <3>2, <4>1 DEF NoLostWakeup, StartDue, TypeInv, ListType
    <3>3. QED
      BY <3>1, <3>2
  <2>5. CASE Reload
    BY <2>5, RefreshWakes DEF Reload, qmlVars
  <2>6. ASSUME NEW c \in Chats, Act(c) PROVE NoLostWakeup'
    BY <2>6 DEF Act, NoLostWakeup, askVars, qmlVars
  <2>7. QED
    BY <1>1, <2>1, <2>2, <2>3, <2>4, <2>5, <2>6 DEF Qml
<1>2. CASE Kick
  <2>1. CASE paused
    BY <1>2, <2>1 DEF Kick, NoLostWakeup, askVars, qmlVars
  <2>2. CASE ~paused
    <3>1. StartRefresh(rows, awaiting, inFlight, tasks) /\ restartDue' = FALSE
      BY <1>2, <2>2 DEF Kick
    <3>2. QED
      BY <3>1, StartWakes DEF NoLostWakeup
  <2>3. QED
    BY <2>1, <2>2
<1>3. CASE HandleEvent
  <2>1. UNCHANGED <<paused, restartDue, kicks>>
    BY <1>3 DEF HandleEvent, qmlVars
  <2>2. (\E scope : Refresh(scope)) \/ UNCHANGED askVars
    BY <1>3 DEF HandleEvent
  <2>3. QED
    BY <2>1, <2>2, RefreshWakes DEF askVars, NoLostWakeup
<1>4. CASE \/ \E act \in acts : ActLands(act)
           \/ \E c \in checks : MentionFound(c) \/ MentionNotFound(c)
           \/ \E change \in told : TranscriptTold(change)
  <2>1. UNCHANGED <<paused, restartDue, kicks>>
    BY <1>4 DEF ActLands, MentionFound, MentionNotFound, TranscriptTold, qmlVars
  <2>2. (\E scope : Refresh(scope)) \/ UNCHANGED askVars
    BY <1>4 DEF ActLands, MentionFound, MentionNotFound, TranscriptTold
  <2>3. QED
    BY <2>1, <2>2, RefreshWakes DEF askVars, NoLostWakeup
<1>5. ASSUME NEW t \in tasks, ShowEarly(t) PROVE NoLostWakeup'
  <2>1. [t EXCEPT !.early = {}].gen = t.gen
    BY DEF TypeInv, AskInv, ReadTask, TaskType
  <2>2. QED
    BY <1>5, <2>1, StepWakes DEF ShowEarly, qmlVars
<1>6. ASSUME NEW t \in tasks, LandStale(t) PROVE NoLostWakeup'
  BY <1>6, TasksWake DEF LandStale, Current, landFrame, qmlVars
<1>7. ASSUME NEW t \in tasks, LandRows(t) PROVE NoLostWakeup'
  <2>1. /\ \E held, owed, wanted : AskAgain(held, owed, wanted, t)
        /\ UNCHANGED <<paused, restartDue, kicks>>
    BY <1>7 DEF LandRows, landFrame, qmlVars
  <2>2. QED
    BY <2>1, LandingWakes
<1>8. ASSUME NEW t \in tasks, LandError(t) PROVE NoLostWakeup'
  <2>1. /\ AskAgain(rows, OwedAfterError, again, t)
        /\ UNCHANGED <<paused, restartDue, kicks>>
    BY <1>8 DEF LandError, landFrame, qmlVars
  <2>2. QED
    BY <2>1, LandingWakes
<1>9. ASSUME NEW t \in tasks,
             ReadListing(t) \/ ReadItems(t) \/ ReadTexts(t) \/ Refused(t) \/ CutOff(t)
      PROVE  NoLostWakeup'
  <2>1. t \in TaskType /\ UNCHANGED <<inFlight, again, restartDue, kicks, paused>>
    BY <1>9 DEF ReadListing, ReadItems, ReadTexts, Refused, CutOff, taskFrame, qmlVars,
                TypeInv, AskInv, ReadTask
  <2>2. \E u : Step(t, u) /\ u.gen = t.gen
    BY <1>9, TaskStepFacts DEF GoesOn
  <2>3. QED
    BY <2>1, <2>2, StepWakes
<1>10. CASE ServerDies
  <2>1. /\ UNCHANGED <<inFlight, again, restartDue, kicks, paused>>
        /\ tasks' = {IF t.phase \in {"listing", "items"} THEN [t EXCEPT !.phase = "lost"] ELSE t :
                     t \in tasks}
    BY <1>10 DEF ServerDies, qmlVars
  <2>2. \A t \in tasks : [t EXCEPT !.phase = "lost"].gen = t.gen
    BY DEF TypeInv, AskInv, ReadTask, TaskType
  <2>3. QED
    BY <2>1, <2>2, TasksWake
<1>11. CASE \/ \E a \in Accounts, c \in Chats : CoreChange(a, c) \/ TranscriptStored(a, c)
            \/ \E a \in Accounts, m \in Modes, c \in Chats : ListingChange(a, m, c)
            \/ \E i, j \in DOMAIN events : i <= j /\ Overflow(i, j)
            \/ SwitchTranscripts \/ ServerGone \/ \E key \in untold : Tell(key)
  <2>1. UNCHANGED coreFrame
    BY <1>11 DEF CoreChange, TranscriptStored, ListingChange, Overflow, SwitchTranscripts,
                 ServerGone, Tell
  <2>2. QED
    BY <2>1 DEF coreFrame, askVars, qmlVars, NoLostWakeup
<1>12. CASE ServerBack
  BY <1>12, RefreshWakes DEF ServerBack, qmlVars
<1>13. CASE UNCHANGED vars
  BY <1>13 DEF vars, askVars, qmlVars, NoLostWakeup
<1>14. QED
  BY <1>1, <1>2, <1>3, <1>4, <1>5, <1>6, <1>7, <1>8, <1>9, <1>10, <1>11, <1>12, <1>13
  DEF Next, Callback, Task, Environment, Supervisor

\* What was asked while a refresh was under way, or was to be restarted, has something
\* that will ask it: a landing to come, a kick in the queue or the end of the pause.
THEOREM WakeupKept == Spec => []NoLostWakeup
<1>1. Init => NoLostWakeup
  BY DEF Init, NoLostWakeup
<1>2. QED
  BY <1>1, TypeInit, TypeStep, WakeStep, PTL DEF Spec

-----------------------------------------------------------------------------
(* Rows never go back *)

\* Contents the core has had.
Had(row, c) == row # NoRow => row.version <= version[row.account][c]

\* Of two contents of a chat the one is no newer.
NoNewer(row, other) ==
    row # NoRow /\ other # NoRow /\ row.account = other.account
    => row.version <= other.version

\* The newest refresh holds the rows there are, or has read them since.
UpToRows(t) ==
    \A c \in Chats : /\ t.cached[c] # NoRow => rows[c] = t.cached[c]
                    /\ NoNewer(rows[c], t.fresh[c])

Versions ==
    /\ \A c \in Chats : Had(rows[c], c)
    /\ \A t \in tasks : /\ \A c \in Chats : Had(t.fresh[c], c)
                        /\ FirstLoad(t)
                        /\ t.gen = generation => UpToRows(t)

\* What the core had it has had still after a change of it.
LEMMA HadKept ==
    ASSUME TypeInv, \/ version' = version
                    \/ \E a \in Accounts, d \in Chats : version' = [version EXCEPT ![a][d] = @ + 1],
           NEW row \in Row \cup {NoRow}, NEW c \in Chats, Had(row, c)
    PROVE  Had(row, c)'
<1>1. CASE row = NoRow
  BY <1>1 DEF Had
<1>2. CASE row \in Row
  <2>1. row.account \in Accounts /\ row.version \in Nat
    BY <1>2 DEF Row
  <2>2. version \in [Accounts -> [Chats -> Nat]]
    BY DEF TypeInv, CoreType
  <2>3. version'[row.account][c] >= version[row.account][c]
    BY <2>1, <2>2
  <2>4. QED
    BY <2>1, <2>2, <2>3 DEF Had
<1>3. QED
  BY <1>1, <1>2

\* What tasks and rows are of.
LEMMA RowTypes ==
    ASSUME TypeInv
    PROVE  /\ rows \in [Chats -> Row \cup {NoRow}]
           /\ generation \in Nat
           /\ tasks \subseteq TaskType
           /\ \A t \in tasks : /\ t.cached \in [Chats -> Row \cup {NoRow}]
                               /\ t.fresh \in [Chats -> Row \cup {NoRow}]
                               /\ t.early \subseteq Chats
           /\ NoRow \notin Row
BY ChatListAssumption DEF TypeInv, ListType, AskInv, AskType, ReadTask, TaskType, Row

\* Steps that leave rows and refreshes alone, whatever the core does.
LEMMA VersionsKept ==
    ASSUME TypeInv, Versions, UNCHANGED <<rows, generation>>,
           \/ version' = version
           \/ \E a \in Accounts, d \in Chats : version' = [version EXCEPT ![a][d] = @ + 1],
           \A u \in tasks' : \E t \in tasks :
              /\ u.gen = t.gen /\ u.cached = t.cached /\ u.fresh = t.fresh
              /\ u.early = t.early /\ u.rest = t.rest
    PROVE  Versions'
<1>1. ASSUME NEW c \in Chats PROVE Had(rows[c], c)'
  <2>1. PICK row \in Row \cup {NoRow} : row = rows[c]
    BY RowTypes
  <2>2. Had(row, c)'
    BY <2>1, HadKept DEF Versions
  <2>3. QED
    BY <2>1, <2>2 DEF Had
<1>2. ASSUME NEW u \in tasks'
      PROVE  /\ \A c \in Chats : Had(u.fresh[c], c)'
             /\ FirstLoad(u) /\ (u.gen = generation' => UpToRows(u)')
  <2>1. PICK t \in tasks : /\ u.gen = t.gen /\ u.cached = t.cached /\ u.fresh = t.fresh
                          /\ u.early = t.early /\ u.rest = t.rest
    OBVIOUS
  <2>2. \A c \in Chats : Had(u.fresh[c], c)'
    BY <2>1, RowTypes, HadKept DEF Versions
  <2>3. FirstLoad(u)
    BY <2>1 DEF Versions, FirstLoad
  <2>4. u.gen = generation' => UpToRows(u)'
    BY <2>1 DEF Versions, UpToRows, NoNewer
  <2>5. QED
    BY <2>2, <2>3, <2>4
<1>3. QED
  BY <1>1, <1>2 DEF Versions, FirstLoad

\* start_refresh, beside rows that are what it holds.
LEMMA VersionsStart ==
    ASSUME TypeInv, Shape, Versions, NEW held \in [Chats -> Row \cup {NoRow}], NEW owed,
           NEW flying, NEW running \in SUBSET tasks,
           StartRefresh(held, owed, flying, running), rows' = held, version' = version,
           \A c \in Chats : Had(held[c], c),
           held = rows \/ \A t \in running : t.gen # generation
    PROVE  Versions'
<1>1. \A c \in Chats : Had(rows[c], c)'
  BY DEF Had
<1>2. ASSUME NEW t \in tasks, t.gen # generation' \/ (generation' = generation /\ rows' = rows)
      PROVE  /\ \A c \in Chats : Had(t.fresh[c], c)'
             /\ FirstLoad(t) /\ (t.gen = generation' => UpToRows(t)')
  BY <1>2 DEF Versions, Had, UpToRows, NoNewer
<1>3. CASE account = NoAccount \/ server' = "down"
  <2>1. tasks' = running /\ generation' = generation
    BY <1>3 DEF StartRefresh
  <2>2. \A t \in running : t.gen # generation' \/ (generation' = generation /\ rows' = rows)
    BY <2>1
  <2>3. QED
    BY <1>1, <1>2, <2>1, <2>2 DEF Versions, FirstLoad
<1>4. CASE ~(account = NoAccount \/ server' = "down")
  <2>1. PICK new : new = NewTask(held, Merge(owed, Replaced(flying)))
    OBVIOUS
  <2>2. tasks' = running \cup {new} /\ generation' = generation + 1
    BY <1>4, <2>1 DEF StartRefresh
  <2>3. /\ new.cached = held /\ new.fresh = NoRows /\ new.early = {} /\ new.rest = {}
    BY <2>1 DEF NewTask
  <2>4. \A t \in tasks : t.gen # generation'
    BY <2>2, RowTypes DEF Shape, Generations
  <2>5. /\ \A c \in Chats : Had(new.fresh[c], c)'
        /\ FirstLoad(new) /\ UpToRows(new)'
    BY <2>3 DEF Had, NoRows, FirstLoad, UpToRows, NoNewer
  <2>6. QED
    BY <1>1, <1>2, <2>2, <2>4, <2>5 DEF Versions, FirstLoad
<1>5. QED
  BY <1>3, <1>4

LEMMA VersionsRefresh ==
    ASSUME TypeInv, Shape, Versions, NEW scope, Refresh(scope), UNCHANGED <<rows, version>>
    PROVE  Versions'
<1>1. CASE account = NoAccount \/ paused \/ inFlight # 0 \/ restartDue
  <2>1. UNCHANGED <<generation, tasks>>
    BY <1>1 DEF Refresh, RefreshOwing, askVars
  <2>2. QED
    BY <2>1, VersionsKept
<1>2. CASE ~(account = NoAccount \/ paused \/ inFlight # 0 \/ restartDue)
  <2>1. StartRefresh(rows, Merge(awaiting, scope), inFlight, tasks)
    BY <1>2 DEF Refresh, RefreshOwing
  <2>2. QED
    BY <2>1, VersionsStart, RowTypes DEF Versions
<1>3. QED
  BY <1>1, <1>2

\* The steps of a task: what it reads is at least as new as the rows.
LEMMA VersionsTask ==
    ASSUME TypeInv, TypeInv', Versions, NEW t \in tasks,
           ReadListing(t) \/ ReadItems(t) \/ ReadTexts(t) \/ Refused(t) \/ CutOff(t)
    PROVE  Versions'
<1>1. PICK u : Step(t, u) /\ GoesOn(t, u)
  BY TaskStepFacts
<1>2. UNCHANGED <<rows, generation, version>>
  BY DEF ReadListing, ReadItems, ReadTexts, Refused, CutOff, taskFrame, coreVars
<1>3. t \in TaskType /\ FirstLoad(u) /\ u \in tasks'
  BY <1>1, RowTypes DEF GoesOn, Versions, Step
<1>4. ASSUME NEW c \in Chats
      PROVE  /\ Had(u.fresh[c], c)
             /\ NoNewer(rows[c], t.fresh[c]) => NoNewer(rows[c], u.fresh[c])
  <2>1. Had(t.fresh[c], c) /\ Had(rows[c], c)
    BY DEF Versions
  <2>2. CASE u.fresh[c] = t.fresh[c]
    BY <2>1, <2>2
  <2>3. CASE u.fresh[c] = ReadRow(t, c)
    <3>1. u.fresh[c].account = t.account /\ u.fresh[c].version = version[t.account][c]
      BY <2>3 DEF ReadRow
    <3>2. version[t.account][c] \in Nat
      BY <1>3 DEF TypeInv, CoreType, TaskType
    <3>3. QED
      BY <2>1, <3>1, <3>2 DEF Had, NoNewer
  <2>4. CASE t.fresh[c] \in Row /\ \E x : u.fresh[c] = [t.fresh[c] EXCEPT !.text = x]
    <3>1. /\ u.fresh[c].account = t.fresh[c].account
          /\ u.fresh[c].version = t.fresh[c].version
          /\ t.fresh[c] # NoRow
      BY <2>4, RowTypes DEF Row
    <3>2. QED
      BY <2>1, <3>1 DEF Had, NoNewer
  <2>5. QED
    BY <1>1, <2>2, <2>3, <2>4 DEF GoesOn, ReadOn
<1>5. u.gen = generation => UpToRows(u)
  BY <1>1, <1>4 DEF GoesOn, Versions, UpToRows
<1>6. ASSUME NEW x, (\A c \in Chats : Had(x.fresh[c], c)), x.gen = generation => UpToRows(x)
      PROVE  (\A c \in Chats : Had(x.fresh[c], c)') /\ (x.gen = generation' => UpToRows(x)')
  BY <1>2, <1>6 DEF Had, UpToRows, NoNewer
<1>7. \A x \in tasks' : x = u \/ x \in tasks
  BY <1>1 DEF Step
<1>8. ASSUME NEW x \in tasks'
      PROVE  /\ \A c \in Chats : Had(x.fresh[c], c)'
             /\ FirstLoad(x) /\ (x.gen = generation' => UpToRows(x)')
  BY <1>3, <1>4, <1>5, <1>6, <1>7 DEF Versions
<1>9. \A c \in Chats : Had(rows[c], c)'
  BY <1>2 DEF Had, Versions
<1>10. QED
  BY <1>8, <1>9 DEF Versions, FirstLoad

\* A screenful shown early: rows of the newest refresh, which holds none.
LEMMA VersionsShow ==
    ASSUME TypeInv, Shape, Versions, NEW t \in tasks, ShowEarly(t)
    PROVE  /\ Versions'
           /\ \A c \in Chats : NoNewer(rows[c], rows'[c])
<1>1. PICK u : u = [t EXCEPT !.early = {}]
  OBVIOUS
<1>2. /\ u.gen = t.gen /\ u.cached = t.cached /\ u.fresh = t.fresh /\ u.rest = t.rest
      /\ u.early = {}
  BY <1>1, RowTypes DEF TaskType
<1>3. /\ Step(t, u) /\ t.early # {} /\ UNCHANGED <<version, generation>>
      /\ rows' = IF Newest(t) THEN [c \in Chats |-> IF c \in t.early THEN t.fresh[c] ELSE NoRow]
                 ELSE rows
  BY <1>1 DEF ShowEarly, coreVars
<1>4. t.cached = NoRows /\ FirstLoad(u)
  BY <1>2, <1>3 DEF Versions, FirstLoad
<1>5. CASE ~Newest(t)
  <2>1. rows' = rows
    BY <1>3, <1>5
  <2>2. ASSUME NEW x \in tasks'
        PROVE  /\ \A c \in Chats : Had(x.fresh[c], c)'
               /\ FirstLoad(x) /\ (x.gen = generation' => UpToRows(x)')
    <3>1. CASE x = u
      <4>1. \A c \in Chats : Had(t.fresh[c], c)
        BY DEF Versions
      <4>2. QED
        BY <1>2, <1>3, <1>4, <1>5, <3>1, <4>1 DEF Newest, Had
    <3>2. CASE x \in tasks
      <4>1. /\ \A c \in Chats : Had(x.fresh[c], c)
            /\ FirstLoad(x) /\ (x.gen = generation => UpToRows(x))
        BY <3>2 DEF Versions
      <4>2. QED
        BY <1>3, <2>1, <4>1 DEF Had, UpToRows, NoNewer
    <3>3. QED
      BY <1>3, <3>1, <3>2 DEF Step
  <2>3. \A c \in Chats : Had(rows[c], c)' /\ NoNewer(rows[c], rows'[c])
    <3>1. \A c \in Chats : rows[c] # NoRow => rows[c].version \in Nat
      BY RowTypes DEF Row
    <3>2. QED
      BY <1>3, <2>1, <3>1 DEF Versions, Had, NoNewer
  <2>4. QED
    BY <2>2, <2>3 DEF Versions, FirstLoad
<1>6. CASE Newest(t)
  <2>1. \A c \in Chats : rows'[c] = IF c \in t.early THEN t.fresh[c] ELSE NoRow
    BY <1>3, <1>6
  <2>2. \A c \in Chats : NoNewer(rows[c], t.fresh[c]) /\ Had(t.fresh[c], c)
    BY <1>6 DEF Versions, UpToRows, Newest
  <2>3. \A c \in Chats : NoNewer(rows[c], rows'[c])
    BY <2>1, <2>2 DEF NoNewer
  <2>4. \A c \in Chats : Had(rows[c], c)'
    BY <1>3, <2>1, <2>2 DEF Had
  <2>5. UpToRows(u)'
    <3>1. \A c \in Chats : u.cached[c] = NoRow
      BY <1>2, <1>4 DEF NoRows
    <3>2. ASSUME NEW c \in Chats PROVE NoNewer(rows'[c], u.fresh[c])
      <4>1. t.fresh[c] # NoRow => t.fresh[c].version \in Nat
        BY RowTypes DEF Row
      <4>2. QED
        BY <1>2, <2>1, <4>1 DEF NoNewer
    <3>3. QED
      BY <3>1, <3>2 DEF UpToRows
  <2>6. ASSUME NEW x \in tasks'
        PROVE  /\ \A c \in Chats : Had(x.fresh[c], c)'
               /\ FirstLoad(x) /\ (x.gen = generation' => UpToRows(x)')
    <3>1. CASE x = u
      BY <1>2, <1>3, <1>4, <2>2, <2>5, <3>1 DEF Had
    <3>2. CASE x \in tasks /\ x # t
      <4>1. x.gen # generation
        BY <1>6, <3>2 DEF Newest, Shape, Generations
      <4>2. QED
        BY <1>3, <3>2, <4>1 DEF Versions, Had
    <3>3. QED
      BY <1>3, <3>1, <3>2 DEF Step
  <2>7. QED
    BY <2>3, <2>4, <2>6 DEF Versions, FirstLoad
<1>7. QED
  BY <1>5, <1>6

\* A landing: rows read since, or those it held, which are the rows there are.
LEMMA VersionsLand ==
    ASSUME TypeInv, Shape, Versions, NEW t \in tasks, Current(t),
           NEW held \in [Chats -> Row \cup {NoRow}], NEW owed, NEW wanted,
           AskAgain(held, owed, wanted, t), rows' = held, version' = version,
           held = rows \/ held = Result(t)
    PROVE  /\ Versions'
           /\ \A c \in Chats : NoNewer(rows[c], rows'[c])
<1>1. t.gen = generation /\ \A x \in tasks : x.gen = t.gen => x = t
  BY RowTypes DEF Shape, Generations, Current
<1>2. UpToRows(t)
  BY <1>1 DEF Versions
<1>3. ASSUME NEW c \in Chats PROVE Had(held[c], c) /\ NoNewer(rows[c], held[c])
  <2>1. Had(rows[c], c) /\ Had(t.fresh[c], c) /\ NoNewer(rows[c], t.fresh[c])
    BY <1>2 DEF Versions, UpToRows
  <2>2. rows[c] # NoRow => rows[c].version \in Nat
    BY RowTypes DEF Row
  <2>3. NoNewer(rows[c], rows[c])
    BY <2>2 DEF NoNewer
  <2>4. held[c] \in {NoRow, rows[c], t.fresh[c]}
    <3>1. t.cached[c] \in {NoRow, rows[c]}
      BY <1>2 DEF UpToRows
    <3>2. Result(t)[c] \in {NoRow, t.fresh[c], t.cached[c]}
      BY DEF Result
    <3>3. QED
      BY <3>1, <3>2
  <2>5. QED
    BY <2>1, <2>3, <2>4 DEF Had, NoNewer
<1>4. CASE wanted /\ ~paused /\ ~restartDue
  <2>1. StartRefresh(held, owed, 0, tasks \ {t})
    BY <1>4 DEF AskAgain
  <2>2. \A x \in tasks \ {t} : x.gen # generation
    BY <1>1
  <2>3. Versions'
    BY <1>3, <2>1, <2>2, VersionsStart
  <2>4. QED
    BY <1>3, <2>3
<1>5. CASE ~(wanted /\ ~paused /\ ~restartDue)
  <2>1. tasks' = tasks \ {t} /\ generation' = generation
    BY <1>5 DEF AskAgain
  <2>2. ASSUME NEW x \in tasks'
        PROVE  /\ \A c \in Chats : Had(x.fresh[c], c)'
               /\ FirstLoad(x) /\ x.gen # generation'
    BY <1>1, <2>1 DEF Versions, Had
  <2>3. \A c \in Chats : Had(rows[c], c)'
    BY <1>3 DEF Had
  <2>4. QED
    BY <1>3, <2>2, <2>3 DEF Versions, FirstLoad
<1>6. QED
  BY <1>4, <1>5

\* Every step keeps the versions in order, and takes no row back.
LEMMA VersionsStep ==
    ASSUME TypeInv, TypeInv', Shape, Versions, [Next]_vars
    PROVE  /\ Versions'
           /\ \A c \in Chats : NoNewer(rows[c], rows'[c])
<1>1. ASSUME rows' = rows, Versions'
      PROVE  Versions' /\ \A c \in Chats : NoNewer(rows[c], rows'[c])
  <2>1. \A c \in Chats : rows[c] # NoRow => rows[c].version \in Nat
    BY RowTypes DEF Row
  <2>2. QED
    BY <1>1, <2>1 DEF NoNewer
<1>2. ASSUME UNCHANGED <<rows, generation, tasks>>,
             \/ version' = version
             \/ \E a \in Accounts, d \in Chats : version' = [version EXCEPT ![a][d] = @ + 1]
      PROVE  Versions'
  BY <1>2, VersionsKept
<1>3. CASE Qml
  <2>1. CASE \/ \E a \in Accounts \cup {NoAccount} : SetAccount(a)
             \/ \E q \in Queries : SetQuery(q)
             \/ \E m \in Modes : SetMode(m)
    <3>1. UNCHANGED <<rows, generation, tasks, version>>
      BY <2>1 DEF SetAccount, SetQuery, SetMode, Restart, coreVars
    <3>2. QED
      BY <1>1, <1>2, <3>1
  <2>2. CASE SetPaused
    <3>1. UNCHANGED <<rows, version>>
      BY <2>2 DEF SetPaused, coreVars
    <3>2. StartRefresh(rows, awaiting, inFlight, tasks) \/ UNCHANGED <<generation, tasks>>
      BY <2>2 DEF SetPaused, askVars
    <3>3. StartRefresh(rows, awaiting, inFlight, tasks) => Versions'
      BY <3>1, VersionsStart, RowTypes DEF Versions
    <3>4. QED
      BY <1>1, <1>2, <3>1, <3>2, <3>3
  <2>3. CASE Reload
    BY <1>1, <2>3, VersionsRefresh DEF Reload, coreVars
  <2>4. ASSUME NEW c \in Chats, Act(c)
        PROVE  Versions' /\ \A d \in Chats : NoNewer(rows[d], rows'[d])
    <3>1. UNCHANGED <<rows, generation, tasks>>
      BY <2>4 DEF Act, askVars
    <3>2. account \in Accounts /\ version' = [version EXCEPT ![account][c] = @ + 1]
      BY <2>4 DEF Act, TypeInv, ListType
    <3>3. QED
      BY <1>1, <1>2, <3>1, <3>2
  <2>5. QED
    BY <1>3, <2>1, <2>2, <2>3, <2>4 DEF Qml
<1>4. CASE Kick
  <2>1. UNCHANGED <<rows, version>>
    BY <1>4 DEF Kick, coreVars
  <2>2. StartRefresh(rows, awaiting, inFlight, tasks) \/ UNCHANGED <<generation, tasks>>
    BY <1>4 DEF Kick, askVars
  <2>3. StartRefresh(rows, awaiting, inFlight, tasks) => Versions'
    BY <2>1, VersionsStart, RowTypes DEF Versions
  <2>4. QED
    BY <1>1, <1>2, <2>1, <2>2, <2>3
<1>5. CASE \/ HandleEvent
           \/ \E act \in acts : ActLands(act)
           \/ \E c \in checks : MentionFound(c) \/ MentionNotFound(c)
           \/ \E change \in told : TranscriptTold(change)
           \/ ServerBack
  <2>1. UNCHANGED <<rows, version>>
    BY <1>5 DEF HandleEvent, ActLands, MentionFound, MentionNotFound, TranscriptTold, ServerBack,
                coreVars
  <2>2. (\E scope : Refresh(scope)) \/ UNCHANGED <<generation, tasks>>
    BY <1>5 DEF HandleEvent, ActLands, MentionFound, MentionNotFound, TranscriptTold, ServerBack,
                askVars
  <2>3. QED
    BY <1>1, <1>2, <2>1, <2>2, VersionsRefresh
<1>6. ASSUME NEW t \in tasks, ShowEarly(t)
      PROVE  Versions' /\ \A c \in Chats : NoNewer(rows[c], rows'[c])
  BY <1>6, VersionsShow
<1>7. ASSUME NEW t \in tasks, LandStale(t)
      PROVE  Versions' /\ \A c \in Chats : NoNewer(rows[c], rows'[c])
  <2>1. UNCHANGED <<rows, version, generation>> /\ tasks' \subseteq tasks
    BY <1>7 DEF LandStale, landFrame, coreVars
  <2>2. QED
    BY <1>1, <2>1, VersionsKept
<1>8. ASSUME NEW t \in tasks, LandRows(t) \/ LandError(t)
      PROVE  Versions' /\ \A c \in Chats : NoNewer(rows[c], rows'[c])
  <2>1. Current(t) /\ version' = version
    BY <1>8 DEF LandRows, LandError, landFrame, coreVars
  <2>2. PICK held : /\ held = rows \/ held = Result(t)
                    /\ rows' = held
                    /\ \E owed, wanted : AskAgain(held, owed, wanted, t)
    BY <1>8 DEF LandRows, LandError
  <2>3. held \in [Chats -> Row \cup {NoRow}]
    BY <2>2, RowTypes, ResultType
  <2>4. QED
    BY <2>1, <2>2, <2>3, VersionsLand
<1>9. ASSUME NEW t \in tasks,
             ReadListing(t) \/ ReadItems(t) \/ ReadTexts(t) \/ Refused(t) \/ CutOff(t)
      PROVE  Versions' /\ \A c \in Chats : NoNewer(rows[c], rows'[c])
  <2>1. rows' = rows
    BY <1>9 DEF ReadListing, ReadItems, ReadTexts, Refused, CutOff, taskFrame
  <2>2. QED
    BY <1>1, <1>9, <2>1, VersionsTask
<1>10. CASE ServerDies
  <2>1. /\ UNCHANGED <<rows, version, generation>>
        /\ tasks' = {IF t.phase \in {"listing", "items"} THEN [t EXCEPT !.phase = "lost"] ELSE t :
                     t \in tasks}
    BY <1>10 DEF ServerDies
  <2>2. \A t \in tasks : /\ [t EXCEPT !.phase = "lost"].gen = t.gen
                        /\ [t EXCEPT !.phase = "lost"].cached = t.cached
                        /\ [t EXCEPT !.phase = "lost"].fresh = t.fresh
                        /\ [t EXCEPT !.phase = "lost"].early = t.early
                        /\ [t EXCEPT !.phase = "lost"].rest = t.rest
    BY RowTypes DEF TaskType
  <2>3. \A u \in tasks' : \E t \in tasks :
           /\ u.gen = t.gen /\ u.cached = t.cached /\ u.fresh = t.fresh
           /\ u.early = t.early /\ u.rest = t.rest
    <3>1. SUFFICES ASSUME NEW u \in tasks'
                   PROVE  \E t \in tasks :
                             /\ u.gen = t.gen /\ u.cached = t.cached /\ u.fresh = t.fresh
                             /\ u.early = t.early /\ u.rest = t.rest
      OBVIOUS
    <3>2. PICK t \in tasks :
             u = IF t.phase \in {"listing", "items"} THEN [t EXCEPT !.phase = "lost"] ELSE t
      BY <2>1
    <3>3. u = [t EXCEPT !.phase = "lost"] \/ u = t
      BY <3>2
    <3>4. CASE u = t
      BY <3>4
    <3>5. CASE u = [t EXCEPT !.phase = "lost"]
      BY <3>5, <2>2
    <3>6. QED
      BY <3>3, <3>4, <3>5
  <2>4. QED
    BY <1>1, <2>1, <2>3, VersionsKept
<1>11. CASE \/ \E a \in Accounts, c \in Chats : CoreChange(a, c) \/ TranscriptStored(a, c)
            \/ \E a \in Accounts, m \in Modes, c \in Chats : ListingChange(a, m, c)
            \/ \E i, j \in DOMAIN events : i <= j /\ Overflow(i, j)
            \/ SwitchTranscripts \/ ServerGone \/ \E key \in untold : Tell(key)
  <2>1. UNCHANGED <<rows, generation, tasks>>
    BY <1>11 DEF CoreChange, TranscriptStored, ListingChange, Overflow, SwitchTranscripts,
                 ServerGone, Tell, coreFrame, askVars
  <2>2. \/ version' = version
        \/ \E a \in Accounts, d \in Chats : version' = [version EXCEPT ![a][d] = @ + 1]
    BY <1>11 DEF CoreChange, TranscriptStored, ListingChange, Overflow, SwitchTranscripts,
                 ServerGone, Tell
  <2>3. QED
    BY <1>1, <1>2, <2>1, <2>2
<1>12. CASE UNCHANGED vars
  <2>1. UNCHANGED <<rows, generation, tasks, version>>
    BY <1>12 DEF vars, coreVars, askVars
  <2>2. QED
    BY <1>1, <1>2, <2>1
<1>13. QED
  BY <1>3, <1>4, <1>5, <1>6, <1>7, <1>8, <1>9, <1>10, <1>11, <1>12
  DEF Next, Callback, Task, Environment, Supervisor

\* No answer that was superseded, delayed or shown early takes a row back to contents
\* older than those it shows ("stale answer must not land on newer", field generation).
THEOREM OnlyNewer == Spec => RowsNeverGoBack
<1>1. Init => Versions
  BY DEF Init, Versions, Had, NoRows
<1>2. RefreshInv => Shape
  BY Halves
<1>3. Spec => [](TypeInv /\ Shape)
  BY <1>2, TypeInit, TypeStep, RefreshesCovered, PTL DEF Spec
<1>4. TypeInv /\ TypeInv' /\ Shape /\ Versions /\ [Next]_vars => Versions'
  BY VersionsStep
<1>5. TypeInv /\ TypeInv' /\ Shape /\ Versions /\ [Next]_vars
      => [\A c \in Chats :
            rows[c] # NoRow /\ rows'[c] # NoRow /\ rows[c].account = rows'[c].account
            => rows[c].version <= rows'[c].version]_vars
  BY VersionsStep DEF NoNewer
<1>6. QED
  BY <1>1, <1>3, <1>4, <1>5, PTL DEF Spec, RowsNeverGoBack


-----------------------------------------------------------------------------
(* A list at rest is in sync *)

\* Transcript x of chat c is the one there is, is going to be told of, or was read before
\* the last change that was told.
TextFine(a, c, x) == x = TextNow(a, c) \/ <<a, c>> \in untold \/ TextsMoved

\* What a task has read so far, and what it is to show early.
Unread(t, c) == t.phase = "texts" /\ c \in t.wanted
FreshFine(t) ==
    \A c \in Chats : t.fresh[c] # NoRow =>
        /\ t.fresh[c].account = t.account
        /\ Unread(t, c) \/ c \notin VoiceChats => t.fresh[c].text = 0
        /\ Unread(t, c) \/ TextFine(t.account, c, t.fresh[c].text)
Parts(t) ==
    /\ t.early \cap t.wanted = {} /\ t.rest \cap t.wanted = {}
    /\ t.phase = "listing" => t.early = {}
    /\ t.previews # enabled => TextsMoved

TextInv ==
    /\ \A t \in tasks : t.gen = inFlight => FreshFine(t) /\ Parts(t)
    /\ \A c \in Chats : c \notin VoiceChats /\ rows[c] # NoRow => rows[c].text = 0
    /\ tasks # {} \/ (\E c \in Chats : rows[c] # NoRow) => following
    /\ askedEpoch <= epoch

\* Another refresh is going to start.
MineComes == \E i \in DOMAIN events : events[i].account = account
Restless  == again \/ restartDue \/ MineComes

\* What is owed will be asked; the chats listed are right, or will be asked for.
Asked == awaiting # Nothing => again \/ restartDue
Listed == \A c \in Chats : rows[c] # NoRow <=> c \in Entries(account, mode, query)
ListDue == Listed \/ inFlight # 0 \/ Restless
ListRead(t) ==
    \/ Restless
    \/ /\ t.account = account /\ t.mode = mode /\ t.query = query
       /\ t.phase \in {"items", "texts", "done"} => t.entries = Entries(account, mode, query)

\* A refresh that failed, or will, is followed by one that reads everything.
Doomed(t) == t.phase \in {"lost", "failed"} => awaiting.everything

\* The transcript of a voice row is the one there is, or will be read again.
First(t) == t.gen = inFlight /\ t.cached = NoRows
TextDue(c) ==
    \/ <<account, c>> \in untold \cup told \/ NoChat \in told
    \/ Owes(awaiting, c)
    \/ inFlight # 0 /\ Owes(asking, c)
    \/ TextsMoved /\ \E t \in tasks : First(t)
OldText(row, c) ==
    row # NoRow /\ row.account = account /\ row.text # TextNow(account, c)
RowText == \A c \in VoiceChats : OldText(rows[c], c) => c \in outdated \/ TextDue(c)

Claims == /\ Asked /\ ListDue /\ RowText
          /\ \A t \in tasks : t.gen = inFlight => ListRead(t) /\ Doomed(t)
ClaimInv == Known /\ Unrefused => Claims

\* Calls refused are taken off the budget.
SpentInv == \E b \in Budgets : budget["fail"] <= b["fail"]

LEMMA SpentStep ==
    ASSUME TypeInv, SpentInv, budget' = budget \/ \E k \in BudgetKinds : Spend(k)
    PROVE  /\ SpentInv'
           /\ Unrefused' => Unrefused
           /\ Spend("fail") => ~Unrefused'
<1>1. PICK b \in Budgets : budget["fail"] <= b["fail"]
  BY DEF SpentInv
<1>2. budget \in [BudgetKinds -> Nat] /\ "fail" \in BudgetKinds
  BY DEF TypeInv, ListType, BudgetKinds
<1>3. b["fail"] \in Nat /\ budget["fail"] \in Nat
  BY <1>1, <1>2, ChatListAssumption
<1>4. budget'["fail"] \in {budget["fail"], budget["fail"] - 1}
  BY <1>2 DEF Spend
<1>5. Spend("fail") => budget'["fail"] = budget["fail"] - 1
  BY <1>2 DEF Spend
<1>6. SpentInv'
  BY <1>1, <1>3, <1>4 DEF SpentInv
<1>7. ASSUME Unrefused' PROVE Unrefused /\ ~Spend("fail")
  <2>1. \A x \in Budgets : budget'["fail"] = x["fail"]
    BY <1>7 DEF Unrefused
  <2>2. budget'["fail"] = b["fail"]
    BY <2>1
  <2>3. budget'["fail"] = budget["fail"]
    BY <1>1, <1>3, <1>4, <2>2
  <2>4. QED
    BY <1>3, <1>5, <2>1, <2>3 DEF Unrefused
<1>8. QED
  BY <1>6, <1>7

\* Steps that leave rows and refreshes as they are, but for a task that is lost or over.
LEMMA TextsKept ==
    ASSUME TypeInv, TextInv, UNCHANGED <<rows, inFlight, askedEpoch, following>>,
           epoch' \in {epoch, epoch + 1}, enabled' = enabled \/ TextsMoved',
           \A a \in Accounts, c \in Chats : \A x : TextFine(a, c, x) => TextFine(a, c, x)',
           \A u \in tasks' : \E t \in tasks :
              /\ u.gen = t.gen /\ u.account = t.account /\ u.fresh = t.fresh
              /\ u.early = t.early /\ u.wanted = t.wanted /\ u.rest = t.rest
              /\ u.previews = t.previews
              /\ u.phase = t.phase \/ (t.phase # "texts" /\ u.phase \notin {"listing", "texts"})
    PROVE  TextInv'
<1>1. epoch \in Nat /\ askedEpoch \in Nat /\ askedEpoch <= epoch
  BY DEF TextInv, TypeInv, CoreType, AskInv, AskType
<1>2. askedEpoch' <= epoch' /\ (TextsMoved => TextsMoved')
  BY <1>1 DEF TextsMoved
<1>3. ASSUME NEW u \in tasks', u.gen = inFlight' PROVE FreshFine(u)' /\ Parts(u)'
  <2>1. PICK t \in tasks :
              /\ u.gen = t.gen /\ u.account = t.account /\ u.fresh = t.fresh
              /\ u.early = t.early /\ u.wanted = t.wanted /\ u.rest = t.rest
              /\ u.previews = t.previews
              /\ u.phase = t.phase \/ (t.phase # "texts" /\ u.phase \notin {"listing", "texts"})
    BY <1>3
  <2>2. FreshFine(t) /\ Parts(t)
    BY <1>3, <2>1 DEF TextInv
  <2>3. Parts(u)'
    BY <1>2, <2>1, <2>2 DEF Parts
  <2>4. \A c \in Chats : Unread(u, c)' <=> Unread(t, c)
    BY <2>1 DEF Unread
  <2>5. t.account \in Accounts
    BY RowTypes DEF TaskType
  <2>6. FreshFine(u)'
    BY <2>1, <2>2, <2>4, <2>5 DEF FreshFine
  <2>7. QED
    BY <2>3, <2>6
<1>4. tasks' # {} => tasks # {}
  OBVIOUS
<1>5. QED
  BY <1>2, <1>3, <1>4 DEF TextInv

\* start_refresh: a task that has read nothing yet.
LEMMA TextsStart ==
    ASSUME TypeInv, TextInv, Shape, NEW held \in [Chats -> Row \cup {NoRow}],
           NEW owed \in Awaiting, NEW flying \in {0, inFlight}, NEW running \in SUBSET tasks,
           StartRefresh(held, owed, flying, running),
           \A t \in running : t.gen = inFlight => flying = inFlight,
           UNCHANGED <<untold, text, enabled, epoch>>, rows' = held,
           \A c \in Chats : c \notin VoiceChats /\ held[c] # NoRow => held[c].text = 0,
           (\E c \in Chats : held[c] # NoRow) => following
    PROVE  TextInv'
<1>1. CASE account = NoAccount \/ server' = "down"
  <2>1. /\ tasks' = running /\ inFlight' = flying
        /\ following' = following /\ askedEpoch' = askedEpoch
    BY <1>1 DEF StartRefresh
  <2>2. ASSUME NEW t \in tasks', t.gen = inFlight' PROVE FreshFine(t)' /\ Parts(t)'
    <3>1. t.gen = inFlight
      BY <2>1, <2>2, RowTypes DEF Shape, Generations
    <3>2. FreshFine(t) /\ Parts(t)
      BY <2>1, <2>2, <3>1 DEF TextInv
    <3>3. QED
      BY <2>1, <3>2 DEF FreshFine, Parts, Unread, TextFine, TextNow, TextsMoved
  <2>3. QED
    BY <2>1, <2>2 DEF TextInv
<1>2. CASE ~(account = NoAccount \/ server' = "down")
  <2>1. PICK new : new = NewTask(held, Merge(owed, Replaced(flying)))
    OBVIOUS
  <2>2. /\ tasks' = running \cup {new} /\ inFlight' = generation + 1
        /\ following' = TRUE /\ askedEpoch' = epoch
    BY <1>2, <2>1 DEF StartRefresh
  <2>3. /\ new.fresh = NoRows /\ new.early = {} /\ new.wanted = {} /\ new.rest = {}
        /\ new.previews = enabled
    BY <2>1 DEF NewTask
  <2>4. FreshFine(new)' /\ Parts(new)'
    BY <2>3 DEF FreshFine, Parts, NoRows
  <2>5. \A t \in running : t.gen # inFlight'
    BY <2>2, RowTypes DEF Shape, Generations
  <2>6. askedEpoch' <= epoch'
    BY <2>2 DEF TypeInv, CoreType
  <2>7. QED
    BY <2>2, <2>4, <2>5, <2>6 DEF TextInv
<1>3. QED
  BY <1>1, <1>2

\* start_refresh: what it does not ask, and is not told of, is noted as outdated.
LEMMA ClaimsStart ==
    ASSUME TypeInv, Shape, NEW held \in [Chats -> Row \cup {NoRow}], NEW owed \in Awaiting,
           NEW flying \in Nat, NEW running \in SUBSET tasks,
           StartRefresh(held, owed, flying, running), Known', rows' = held,
           UNCHANGED <<account, mode, query, text, enabled, untold>>,
           \A c \in VoiceChats : OldText(held[c], c) =>
              \/ c \in outdated \cup ShownOld(held, flying, running)
              \/ Owes(owed, c) \/ (flying # 0 /\ Owes(asking, c))
              \/ <<account, c>> \in untold \cup told' \/ NoChat \in told'
    PROVE  Claims'
<1>1. PICK ask : ask = Merge(owed, Replaced(flying))
  OBVIOUS
<1>2. PICK new : new = NewTask(held, ask)
  OBVIOUS
<1>3. ~(account = NoAccount \/ server' = "down") /\ server' = "up"
  BY DEF Known
<1>4. /\ tasks' = running \cup {new} /\ inFlight' = generation + 1 /\ asking' = ask
      /\ awaiting' = Nothing
      /\ outdated' = {c \in outdated \cup ShownOld(held, flying, running) :
                        held[c] # NoRow /\ ~Owes(ask, c)}
  BY <1>1, <1>2, <1>3 DEF StartRefresh
<1>5. /\ new.account = account /\ new.mode = mode /\ new.query = query
      /\ new.phase = "listing" /\ new.gen = generation + 1
  BY <1>2, <1>3 DEF NewTask
<1>6. \A t \in running : t.gen # inFlight'
  BY <1>4, RowTypes DEF Shape, Generations
<1>7. inFlight' # 0
  BY <1>4, RowTypes
<1>8. Asked' /\ ListDue'
  BY <1>4, <1>7 DEF Asked, ListDue
<1>9. \A t \in tasks' : t.gen = inFlight' => ListRead(t)' /\ Doomed(t)'
  BY <1>4, <1>5, <1>6 DEF ListRead, Doomed
<1>10. ASSUME NEW c \in VoiceChats, OldText(rows[c], c)' PROVE c \in outdated' \/ TextDue(c)'
  <2>1. OldText(held[c], c) /\ held[c] # NoRow
    BY <1>10 DEF OldText, TextNow
  <2>2. CASE Owes(owed, c) \/ (flying # 0 /\ Owes(asking, c))
    <3>1. Owes(ask, c)
      BY <1>1, <2>2, ReplacedType, OwesMerge
    <3>2. QED
      BY <1>4, <1>7, <3>1 DEF TextDue
  <2>3. CASE <<account, c>> \in untold \cup told' \/ NoChat \in told'
    BY <2>3 DEF TextDue
  <2>4. CASE c \in outdated \cup ShownOld(held, flying, running)
    BY <1>4, <1>7, <2>1, <2>4 DEF TextDue
  <2>5. QED
    BY <2>1, <2>2, <2>3, <2>4
<1>11. QED
  BY <1>8, <1>9, <1>10 DEF Claims, RowText

\* Steps that ask nothing and leave the rows alone.
LEMMA ClaimsKept ==
    ASSUME ClaimInv, Known' /\ Unrefused' => Known /\ Unrefused,
           UNCHANGED <<rows, account, mode, query, restartDue, awaiting, asking, inFlight, again,
                       outdated>>,
           MineComes => MineComes',
           Entries(account, mode, query)' = Entries(account, mode, query) \/ MineComes',
           \A u \in tasks' : \E t \in tasks :
              /\ u.gen = t.gen /\ u.account = t.account /\ u.mode = t.mode
              /\ u.query = t.query /\ u.phase = t.phase /\ u.entries = t.entries,
           \A c \in VoiceChats : OldText(rows[c], c)' =>
              TextDue(c)' \/ (OldText(rows[c], c) /\ (TextDue(c) => TextDue(c)'))
    PROVE  ClaimInv'
<1>1. SUFFICES ASSUME Known', Unrefused' PROVE Claims'
  BY DEF ClaimInv
<1>2. Claims
  BY <1>1 DEF ClaimInv
<1>3. Restless => Restless'
  BY DEF Restless
<1>4. Restless' \/ Entries(account, mode, query)' = Entries(account, mode, query)
  BY DEF Restless
<1>5. Asked' /\ ListDue'
  BY <1>2, <1>3, <1>4 DEF Claims, Asked, ListDue, Listed
<1>6. RowText'
  BY <1>2 DEF Claims, RowText
<1>7. ASSUME NEW u \in tasks', u.gen = inFlight' PROVE ListRead(u)' /\ Doomed(u)'
  <2>1. PICK t \in tasks :
              /\ u.gen = t.gen /\ u.account = t.account /\ u.mode = t.mode
              /\ u.query = t.query /\ u.phase = t.phase /\ u.entries = t.entries
    OBVIOUS
  <2>2. ListRead(t) /\ Doomed(t)
    BY <1>2, <1>7, <2>1 DEF Claims
  <2>3. QED
    BY <1>3, <1>4, <2>1, <2>2 DEF ListRead, Doomed
<1>8. QED
  BY <1>5, <1>6, <1>7 DEF Claims

\* Such steps that change no transcript and tell of none.
LEMMA SameDue ==
    ASSUME UNCHANGED <<rows, account, awaiting, asking, inFlight, askedEpoch, epoch, untold, told,
                       text, enabled>>,
           \A t \in tasks : t.gen = inFlight =>
              \E u \in tasks' : u.gen = t.gen /\ u.cached = t.cached
    PROVE  \A c \in VoiceChats : /\ OldText(rows[c], c)' => OldText(rows[c], c)
                                 /\ TextDue(c) => TextDue(c)'
<1>1. (\E t \in tasks : First(t)) => \E u \in tasks' : First(u)'
  BY DEF First
<1>2. QED
  BY <1>1 DEF OldText, TextDue, TextNow, TextsMoved

\* refresh: asked at once, or noted and asked later.
LEMMA RefreshClaims ==
    ASSUME TypeInv, Shape, ClaimInv, NEW scope \in Awaiting, Refresh(scope),
           UNCHANGED <<rows, account, mode, query, restartDue, text, enabled, untold, epoch>>,
           (Known' /\ Unrefused' => Known /\ Unrefused) \/ scope = All,
           \A c \in VoiceChats :
              OldText(rows[c], c) /\ (<<account, c>> \in told \/ NoChat \in told) =>
                 <<account, c>> \in told' \/ NoChat \in told' \/ Owes(scope, c)
    PROVE  ClaimInv'
<1>1. SUFFICES ASSUME Known', Unrefused' PROVE Claims'
  BY DEF ClaimInv
<1>2. PICK owed \in Awaiting : owed = Merge(awaiting, scope)
  BY MergeType DEF TypeInv, AskInv, AskType
<1>3. RefreshOwing(owed) /\ account # NoAccount
  BY <1>1, <1>2 DEF Refresh, Known
<1>4. \A c : Owes(owed, c) <=> Owes(awaiting, c) \/ Owes(scope, c)
  BY <1>2, OwesMerge DEF TypeInv, AskInv, AskType
<1>5. scope = All => owed.everything /\ \A c : Owes(owed, c)
  BY <1>2, <1>4, OwesScopes DEF Merge, All, Everything
<1>6. awaiting.everything => owed.everything
  BY <1>2 DEF Merge, Everything
<1>7. scope = All \/ Claims
  BY <1>1 DEF ClaimInv
<1>8. CASE paused \/ inFlight # 0 \/ restartDue
  <2>1. /\ awaiting' = owed /\ again' = TRUE
        /\ UNCHANGED <<asking, inFlight, generation, following, askedEpoch, tasks, outdated>>
    BY <1>3, <1>8 DEF RefreshOwing
  <2>2. Asked' /\ ListDue' /\ Restless'
    BY <2>1 DEF Asked, ListDue, Restless
  <2>3. \A t \in tasks' : t.gen = inFlight' => ListRead(t)' /\ Doomed(t)'
    BY <1>5, <1>6, <1>7, <2>1, <2>2 DEF ListRead, Doomed, Claims
  <2>4. ASSUME NEW c \in VoiceChats, OldText(rows[c], c)' PROVE c \in outdated' \/ TextDue(c)'
    <3>1. CASE scope = All
      BY <1>5, <2>1, <3>1 DEF TextDue
    <3>2. CASE Claims
      <4>1. OldText(rows[c], c)
        BY <2>4 DEF OldText, TextNow
      <4>2. c \in outdated \/ TextDue(c)
        BY <3>2, <4>1 DEF Claims, RowText
      <4>3. (\E t \in tasks : First(t)) => \E t \in tasks' : First(t)'
        BY <2>1 DEF First
      <4>4. QED
        BY <1>4, <2>1, <4>1, <4>2, <4>3 DEF TextDue, TextsMoved
    <3>3. QED
      BY <1>7, <3>1, <3>2
  <2>5. QED
    BY <2>2, <2>3, <2>4 DEF Claims, RowText
<1>9. CASE ~(paused \/ inFlight # 0 \/ restartDue)
  <2>1. StartRefresh(rows, owed, 0, tasks)
    BY <1>3, <1>9 DEF RefreshOwing
  <2>2. PICK held \in [Chats -> Row \cup {NoRow}] : held = rows
    BY RowTypes
  <2>3. ASSUME NEW c \in VoiceChats, OldText(held[c], c)
        PROVE  \/ c \in outdated \cup ShownOld(held, 0, tasks)
               \/ Owes(owed, c)
               \/ <<account, c>> \in untold \cup told' \/ NoChat \in told'
    <3>1. CASE scope = All
      BY <1>5, <3>1
    <3>2. CASE Claims
      <4>1. c \in outdated \/ TextDue(c)
        BY <2>2, <2>3, <3>2 DEF Claims, RowText
      <4>2. ~\E t \in tasks : First(t)
        BY <1>9, RowTypes DEF First, Shape, Generations
      <4>3. QED
        BY <1>4, <1>9, <2>2, <2>3, <4>1, <4>2 DEF TextDue
    <3>3. QED
      BY <1>7, <3>1, <3>2
  <2>4. QED
    BY <1>1, <2>1, <2>2, <2>3, ClaimsStart
<1>10. QED
  BY <1>8, <1>9

\* A kick, or the end of a pause: what a first load replaced has shown may be outdated.
LEMMA RestartClaims ==
    ASSUME TypeInv, Shape, ClaimInv, StartRefresh(rows, awaiting, inFlight, tasks),
           UNCHANGED <<rows, account, mode, query, text, enabled, untold, told>>,
           Known' /\ Unrefused' => Known /\ Unrefused
    PROVE  ClaimInv'
<1>1. SUFFICES ASSUME Known', Unrefused' PROVE Claims'
  BY DEF ClaimInv
<1>2. Claims
  BY <1>1 DEF ClaimInv
<1>3. PICK held \in [Chats -> Row \cup {NoRow}] : held = rows
  BY RowTypes
<1>4. PICK flying \in Nat : flying = inFlight
  BY DEF TypeInv, AskInv, AskType
<1>5. PICK owed \in Awaiting : owed = awaiting
  BY DEF TypeInv, AskInv, AskType
<1>6. ASSUME NEW c \in VoiceChats, OldText(held[c], c)
      PROVE  \/ c \in outdated \cup ShownOld(held, flying, tasks)
             \/ Owes(owed, c) \/ (flying # 0 /\ Owes(asking, c))
             \/ <<account, c>> \in untold \cup told' \/ NoChat \in told'
  <2>1. c \in outdated \/ TextDue(c)
    BY <1>2, <1>3, <1>6 DEF Claims, RowText
  <2>2. TextsMoved /\ (\E t \in tasks : First(t)) => c \in ShownOld(held, flying, tasks)
    BY <1>4, <1>6 DEF First, ShownOld, OldText
  <2>3. QED
    BY <1>4, <1>5, <2>1, <2>2 DEF TextDue
<1>7. QED
  BY <1>1, <1>3, <1>4, <1>5, <1>6, ClaimsStart

-----------------------------------------------------------------------------
(* The steps of a task keep it in sync *)

LEMMA StepTexts ==
    ASSUME TypeInv, TextInv, NEW t \in tasks, NEW u, Step(t, u), u.gen = t.gen,
           UNCHANGED <<rows, inFlight, askedEpoch, following, untold, text, enabled, epoch>>,
           FreshFine(t) /\ Parts(t) => FreshFine(u) /\ Parts(u)
    PROVE  TextInv'
<1>1. \A x : (FreshFine(x)' <=> FreshFine(x)) /\ (Parts(x)' <=> Parts(x))
  BY DEF FreshFine, Parts, Unread, TextFine, TextNow, TextsMoved
<1>2. \A x \in tasks' : x \in tasks \/ x = u
  BY DEF Step
<1>3. \A x \in tasks' : x.gen = inFlight' => FreshFine(x)' /\ Parts(x)'
  BY <1>1, <1>2 DEF TextInv
<1>4. QED
  BY <1>3 DEF TextInv

LEMMA StepClaims ==
    ASSUME ClaimInv, NEW t \in tasks, NEW u, Step(t, u), u.gen = t.gen, u.cached = t.cached,
           UNCHANGED <<rows, account, mode, query, restartDue, awaiting, asking, inFlight, again,
                       outdated, askedEpoch, epoch, untold, told, text, enabled, events, listed,
                       server>>,
           Unrefused' => Unrefused,
           Known /\ Unrefused' /\ ListRead(t) /\ Doomed(t) => ListRead(u) /\ Doomed(u)
    PROVE  ClaimInv'
<1>1. SUFFICES ASSUME Known', Unrefused' PROVE Claims'
  BY DEF ClaimInv
<1>2. Known /\ Claims
  BY <1>1 DEF ClaimInv, Known
<1>3. Restless' <=> Restless
  BY DEF Restless, MineComes
<1>4. Entries(account, mode, query)' = Entries(account, mode, query)
  BY DEF Entries
<1>5. \A x : (ListRead(x)' <=> ListRead(x)) /\ (Doomed(x)' <=> Doomed(x))
  BY <1>3, <1>4 DEF ListRead, Doomed
<1>6. \A x \in tasks' : x \in tasks \/ x = u
  BY DEF Step
<1>7. \A x \in tasks' : x.gen = inFlight' => ListRead(x)' /\ Doomed(x)'
  BY <1>1, <1>2, <1>5, <1>6 DEF Claims
<1>8. Asked' /\ ListDue'
  BY <1>2, <1>3, <1>4 DEF Claims, Asked, ListDue, Listed
<1>9. \A x \in tasks : \E y \in tasks' : y.gen = x.gen /\ y.cached = x.cached
  BY DEF Step
<1>10. RowText'
  BY <1>2, <1>9, SameDue DEF Claims, RowText
<1>11. QED
  BY <1>7, <1>8, <1>10 DEF Claims

LEMMA TaskSettles ==
    ASSUME TypeInv, TextInv, ClaimInv, SpentInv, NEW t \in tasks,
           ReadListing(t) \/ ReadItems(t) \/ ReadTexts(t) \/ Refused(t) \/ CutOff(t)
    PROVE  TextInv' /\ ClaimInv'
<1>1. t \in ReadTask /\ t \in TaskType
  BY DEF TypeInv, AskInv, ReadTask
<1>2. UNCHANGED <<rows, account, mode, query, restartDue, awaiting, asking, inFlight, again,
                  outdated, askedEpoch, following, epoch, untold, told, text, enabled, events,
                  listed, server>>
  BY DEF ReadListing, ReadItems, ReadTexts, Refused, CutOff, taskFrame, coreVars, qmlVars
<1>3. SUFFICES \E u : /\ Step(t, u) /\ u.gen = t.gen /\ u.cached = t.cached
                      /\ FreshFine(t) /\ Parts(t) => FreshFine(u) /\ Parts(u)
                      /\ Unrefused' /\ ListRead(t) /\ Doomed(t) => ListRead(u) /\ Doomed(u)
  <2>1. Unrefused' => Unrefused
    <3>1. budget' = budget \/ \E k \in BudgetKinds : Spend(k)
      BY DEF ReadListing, ReadItems, ReadTexts, Refused, CutOff, BudgetKinds
    <3>2. QED
      BY <3>1, SpentStep
  <2>2. QED
    BY <1>2, <1>3, <2>1, StepTexts, StepClaims
<1>4. CASE ReadListing(t)
  <2> DEFINE entries == Entries(t.account, t.mode, t.query)
             want == {c \in entries : Owes(t.asked, c) \/ t.cached[c] = NoRow}
             first == IF t.cached = NoRows /\ Cardinality(want) > Screenful
                      THEN {s \in SUBSET want : Cardinality(s) = Screenful}
                      ELSE {want}
  <2>1. PICK s \in first :
          Step(t, [t EXCEPT !.entries = entries, !.wanted = s, !.rest = want \ s,
                            !.phase = IF s = {} THEN "done" ELSE "items"])
    BY <1>4 DEF ReadListing
  <2>2. PICK e : e = entries
    OBVIOUS
  <2>3. PICK r : r = want \ s
    OBVIOUS
  <2>4. r \cap s = {}
    BY <2>3
  <2>5. e = Entries(t.account, t.mode, t.query)
    BY <2>2
  <2> HIDE DEF entries, want, first
  <2>6. PICK u : u = [t EXCEPT !.entries = e, !.wanted = s, !.rest = r,
                               !.phase = IF s = {} THEN "done" ELSE "items"]
    OBVIOUS
  <2>7. /\ Step(t, u) /\ u.gen = t.gen /\ u.cached = t.cached /\ u.fresh = t.fresh
        /\ u.rest = r /\ u.early = t.early /\ u.wanted = s /\ u.entries = e
        /\ u.account = t.account /\ u.mode = t.mode /\ u.query = t.query
        /\ u.previews = t.previews /\ u.phase \in {"items", "done"}
    BY <1>1, <2>1, <2>2, <2>3, <2>6 DEF TaskType
  <2>8. t.phase = "listing"
    BY <1>4 DEF ReadListing
  <2>9. FreshFine(t) => FreshFine(u)
    BY <2>7, <2>8 DEF FreshFine, Unread
  <2>10. Parts(t) => Parts(u)
    BY <2>4, <2>7, <2>8 DEF Parts
  <2>11. ListRead(t) => ListRead(u)
    BY <2>5, <2>7, <2>8 DEF ListRead
  <2>12. Doomed(u)
    BY <2>7 DEF Doomed
  <2>13. QED
    BY <2>7, <2>9, <2>10, <2>11, <2>12
<1>5. CASE ReadItems(t)
  <2>1. PICK read : read = [c \in Chats |-> IF c \in t.wanted THEN ReadRow(t, c) ELSE t.fresh[c]]
    OBVIOUS
  <2>2. PICK u : u = [t EXCEPT !.phase = "texts", !.fresh = read]
    OBVIOUS
  <2>3. Step(t, u)
    BY <1>5, <2>1, <2>2 DEF ReadItems, ReadRow
  <2>4. /\ u.gen = t.gen /\ u.cached = t.cached /\ u.fresh = read /\ u.rest = t.rest
        /\ u.early = t.early /\ u.wanted = t.wanted /\ u.entries = t.entries
        /\ u.account = t.account /\ u.mode = t.mode /\ u.query = t.query
        /\ u.previews = t.previews /\ u.phase = "texts" /\ t.phase = "items"
    BY <1>1, <1>5, <2>2 DEF TaskType, ReadItems
  <2>5. \A c \in t.wanted : ReadRow(t, c).account = t.account /\ ReadRow(t, c).text = 0
    BY DEF ReadRow
  <2>6. FreshFine(t) => FreshFine(u)
    BY <2>1, <2>4, <2>5 DEF FreshFine, Unread
  <2>7. Parts(t) => Parts(u)
    BY <2>4 DEF Parts
  <2>8. (ListRead(t) => ListRead(u)) /\ Doomed(u)
    BY <2>4 DEF ListRead, Doomed
  <2>9. QED
    BY <2>3, <2>4, <2>6, <2>7, <2>8
<1>6. CASE ReadTexts(t)
  <2>1. PICK read : read = [c \in Chats |-> IF c \in t.wanted /\ c \in VoiceChats /\ t.previews
                                          THEN [t.fresh[c] EXCEPT !.text = text[t.account][c]]
                                          ELSE t.fresh[c]]
    OBVIOUS
  <2>2. PICK u : u = [t EXCEPT !.phase = IF t.rest = {} THEN "done" ELSE "items",
                               !.early = IF t.rest = {} THEN t.early ELSE t.wanted,
                               !.wanted = IF t.rest = {} THEN t.wanted ELSE t.rest,
                               !.rest = {},
                               !.fresh = read]
    OBVIOUS
  <2>3. Step(t, u)
    BY <1>6, <2>1, <2>2 DEF ReadTexts
  <2>4. /\ u.gen = t.gen /\ u.cached = t.cached /\ u.fresh = read /\ u.rest = {}
        /\ u.early = IF t.rest = {} THEN t.early ELSE t.wanted
        /\ u.wanted = IF t.rest = {} THEN t.wanted ELSE t.rest
        /\ u.entries = t.entries
        /\ u.account = t.account /\ u.mode = t.mode /\ u.query = t.query
        /\ u.previews = t.previews /\ u.phase \in {"items", "done"} /\ t.phase = "texts"
    BY <1>1, <1>6, <2>2 DEF TaskType, ReadTexts
  <2>5. \A c \in t.wanted : t.fresh[c] \in Row
    BY <1>1, <2>4 DEF ReadTask, TaskType
  <2>6. ASSUME NEW c \in Chats, u.fresh[c] # NoRow, FreshFine(t), Parts(t)
        PROVE  /\ u.fresh[c].account = u.account
               /\ c \notin VoiceChats => u.fresh[c].text = 0
               /\ TextFine(u.account, c, u.fresh[c].text)
    <3>1. CASE c \in t.wanted /\ c \in VoiceChats /\ t.previews
      <4>1. PICK row \in Row : row = t.fresh[c]
        BY <2>5, <3>1
      <4>2. u.fresh[c] = [row EXCEPT !.text = text[t.account][c]]
        BY <2>1, <2>4, <3>1, <4>1
      <4>3. u.fresh[c].account = row.account /\ u.fresh[c].text = text[t.account][c]
        BY <4>2 DEF Row
      <4>4. row # NoRow
        BY ChatListAssumption DEF Row
      <4>5. row.account = t.account
        BY <2>6, <4>1, <4>4 DEF FreshFine
      <4>6. QED
        BY <2>4, <2>6, <3>1, <4>3, <4>5 DEF TextFine, TextNow, Parts
    <3>2. CASE ~(c \in t.wanted /\ c \in VoiceChats /\ t.previews)
      <4>1. u.fresh[c] = t.fresh[c]
        BY <2>1, <2>4, <3>2
      <4>2. /\ t.fresh[c].account = t.account
            /\ Unread(t, c) \/ c \notin VoiceChats => t.fresh[c].text = 0
            /\ Unread(t, c) \/ TextFine(t.account, c, t.fresh[c].text)
        BY <2>6, <4>1 DEF FreshFine
      <4>3. CASE c \in t.wanted
        <5>1. t.fresh[c].text = 0
          BY <2>4, <4>2, <4>3 DEF Unread
        <5>2. TextFine(t.account, c, 0)
          BY <2>6, <3>2, <4>3 DEF TextFine, TextNow, Parts
        <5>3. QED
          BY <2>4, <4>1, <4>2, <5>1, <5>2
      <4>4. CASE c \notin t.wanted
        BY <2>4, <4>1, <4>2, <4>4 DEF Unread
      <4>5. QED
        BY <4>3, <4>4
    <3>3. QED
      BY <3>1, <3>2
  <2>7. FreshFine(t) /\ Parts(t) => FreshFine(u)
    BY <2>4, <2>6 DEF FreshFine, Unread
  <2>8. Parts(t) => Parts(u)
    BY <2>4 DEF Parts
  <2>9. (ListRead(t) => ListRead(u)) /\ Doomed(u)
    BY <2>4 DEF ListRead, Doomed
  <2>10. QED
    BY <2>3, <2>4, <2>7, <2>8, <2>9
<1>7. CASE Refused(t) \/ CutOff(t)
  <2>1. PICK u : u = [t EXCEPT !.phase = "failed"]
    OBVIOUS
  <2>2. Step(t, u)
    BY <1>7, <2>1 DEF Refused, CutOff
  <2>3. /\ u.gen = t.gen /\ u.cached = t.cached /\ u.fresh = t.fresh /\ u.rest = t.rest
        /\ u.early = t.early /\ u.wanted = t.wanted /\ u.entries = t.entries
        /\ u.account = t.account /\ u.mode = t.mode /\ u.query = t.query
        /\ u.previews = t.previews /\ u.phase = "failed"
    BY <1>1, <2>1 DEF TaskType
  <2>4. t.phase \in {"listing", "items", "lost"}
    BY <1>7 DEF Refused, CutOff
  <2>5. (FreshFine(t) => FreshFine(u)) /\ (Parts(t) => Parts(u))
    BY <2>3, <2>4 DEF FreshFine, Parts, Unread
  <2>6. ListRead(t) => ListRead(u)
    BY <2>3 DEF ListRead
  <2>7. Unrefused' /\ Doomed(t) => Doomed(u)
    <3>1. CASE Refused(t)
      BY <3>1, SpentStep DEF Refused, BudgetKinds
    <3>2. CASE CutOff(t)
      BY <2>3, <3>2 DEF CutOff, Doomed
    <3>3. QED
      BY <1>7, <3>1, <3>2
  <2>8. QED
    BY <2>2, <2>3, <2>5, <2>6, <2>7
<1>8. QED
  BY <1>4, <1>5, <1>6, <1>7

-----------------------------------------------------------------------------
(* What is shown early or lands keeps it in sync *)

LEMMA ShowSettles ==
    ASSUME TypeInv, Shape, Versions, TextInv, ClaimInv, NEW t \in tasks, ShowEarly(t)
    PROVE  TextInv' /\ ClaimInv'
<1>1. PICK u : u = [t EXCEPT !.early = {}]
  OBVIOUS
<1>2. t \in TaskType
  BY RowTypes
<1>3. /\ u.gen = t.gen /\ u.cached = t.cached /\ u.fresh = t.fresh /\ u.rest = t.rest
      /\ u.early = {} /\ u.wanted = t.wanted /\ u.entries = t.entries
      /\ u.account = t.account /\ u.mode = t.mode /\ u.query = t.query
      /\ u.previews = t.previews /\ u.phase = t.phase
  BY <1>1, <1>2 DEF TaskType
<1>4. /\ Step(t, u) /\ t.early # {}
      /\ UNCHANGED <<account, mode, query, restartDue, awaiting, asking, inFlight, again,
                     generation, outdated, askedEpoch, following, epoch, untold, told, text,
                     enabled, events, listed, server, budget>>
      /\ rows' = IF Newest(t) THEN [c \in Chats |-> IF c \in t.early THEN t.fresh[c] ELSE NoRow]
                 ELSE rows
  BY <1>1 DEF ShowEarly, coreVars, qmlVars
<1>5. Unrefused' <=> Unrefused
  BY <1>4 DEF Unrefused
<1>6. FreshFine(t) /\ Parts(t) => FreshFine(u) /\ Parts(u)
  BY <1>3 DEF FreshFine, Parts, Unread
<1>7. ListRead(t) /\ Doomed(t) => ListRead(u) /\ Doomed(u)
  BY <1>3 DEF ListRead, Doomed
<1>8. CASE ~Newest(t)
  BY <1>3, <1>4, <1>5, <1>6, <1>7, <1>8, StepTexts, StepClaims
<1>9. CASE Newest(t)
  <2>1. t.gen = inFlight /\ inFlight # 0
    BY <1>9, RowTypes DEF Newest, Shape, Generations
  <2>2. \A c \in Chats : rows'[c] = IF c \in t.early THEN t.fresh[c] ELSE NoRow
    BY <1>4, <1>9
  <2>3. FreshFine(t) /\ Parts(t)
    BY <2>1 DEF TextInv
  <2>4. \A x \in tasks' : x \in tasks \/ x = u
    BY <1>4 DEF Step
  <2>5. TextInv'
    <3>1. \A x : (FreshFine(x)' <=> FreshFine(x)) /\ (Parts(x)' <=> Parts(x))
      BY <1>4 DEF FreshFine, Parts, Unread, TextFine, TextNow, TextsMoved
    <3>2. \A x \in tasks' : x.gen = inFlight' => FreshFine(x)' /\ Parts(x)'
      BY <1>4, <1>6, <2>3, <2>4, <3>1 DEF TextInv
    <3>3. \A c \in Chats : c \notin VoiceChats /\ rows'[c] # NoRow => rows'[c].text = 0
      BY <2>2, <2>3 DEF FreshFine
    <3>4. following'
      BY <1>4 DEF TextInv
    <3>5. QED
      BY <1>4, <3>2, <3>3, <3>4 DEF TextInv
  <2>6. ASSUME Known', Unrefused' PROVE Claims'
    <3>1. Claims
      BY <1>4, <1>5, <2>6 DEF ClaimInv, Known
    <3>2. Asked' /\ ListDue'
      BY <1>4, <2>1, <3>1 DEF Claims, Asked, ListDue
    <3>3. \A x : (ListRead(x)' <=> ListRead(x)) /\ (Doomed(x)' <=> Doomed(x))
      BY <1>4 DEF ListRead, Doomed, Restless, MineComes, Entries
    <3>4. \A x \in tasks' : x.gen = inFlight' => ListRead(x)' /\ Doomed(x)'
      BY <1>3, <1>4, <1>7, <2>4, <3>1, <3>3 DEF Claims
    <3>5. First(u)' /\ u \in tasks'
      BY <1>3, <1>4, <2>1 DEF First, Versions, FirstLoad, Step
    <3>6. ASSUME NEW c \in VoiceChats, OldText(rows[c], c)' PROVE TextDue(c)'
      <4>1. c \in Chats
        BY ChatListAssumption
      <4>2. c \in t.early /\ rows'[c] = t.fresh[c] /\ t.fresh[c] # NoRow
        BY <2>2, <3>6, <4>1 DEF OldText
      <4>3. ~Unread(t, c)
        BY <2>3, <4>2 DEF Parts, Unread
      <4>4. t.fresh[c].account = t.account /\ TextFine(t.account, c, t.fresh[c].text)
        BY <2>3, <4>1, <4>2, <4>3 DEF FreshFine
      <4>5. t.account = account /\ t.fresh[c].text # TextNow(account, c)
        BY <1>4, <3>6, <4>2, <4>4 DEF OldText, TextNow
      <4>6. QED
        BY <1>4, <3>5, <4>4, <4>5 DEF TextFine, TextDue, TextsMoved
    <3>7. QED
      BY <3>2, <3>4, <3>6 DEF Claims, RowText
  <2>7. QED
    BY <2>5, <2>6 DEF ClaimInv
<1>10. QED
  BY <1>8, <1>9

\* A landing that shows `held`, owes `owed` and asks again if `wanted`.
LEMMA LandTexts ==
    ASSUME TypeInv, Shape, TextInv, NEW t \in tasks, Current(t),
           NEW held \in [Chats -> Row \cup {NoRow}], NEW owed \in Awaiting, NEW wanted,
           AskAgain(held, owed, wanted, t), rows' = held,
           UNCHANGED <<text, enabled, untold, epoch>>,
           \A c \in Chats : c \notin VoiceChats /\ held[c] # NoRow => held[c].text = 0
    PROVE  TextInv'
<1>1. \A x \in tasks \ {t} : x.gen # inFlight
  BY DEF Shape, Generations, Current
<1>2. following
  BY DEF TextInv
<1>3. CASE wanted /\ ~paused /\ ~restartDue
  <2>1. StartRefresh(held, owed, 0, tasks \ {t})
    BY <1>3 DEF AskAgain
  <2>2. QED
    BY <1>1, <1>2, <2>1, TextsStart
<1>4. CASE ~(wanted /\ ~paused /\ ~restartDue)
  <2>1. inFlight' = 0 /\ tasks' = tasks \ {t} /\ UNCHANGED <<following, askedEpoch>>
    BY <1>4 DEF AskAgain
  <2>2. \A x \in tasks' : x.gen # inFlight'
    BY <2>1, RowTypes DEF Shape, Generations
  <2>3. QED
    BY <1>2, <2>1, <2>2 DEF TextInv
<1>5. QED
  BY <1>3, <1>4

LEMMA LandClaims ==
    ASSUME TypeInv, Shape, NEW t \in tasks,
           NEW held \in [Chats -> Row \cup {NoRow}], NEW owed \in Awaiting,
           NEW wanted \in BOOLEAN,
           AskAgain(held, owed, wanted, t), rows' = held, Known',
           UNCHANGED <<account, mode, query, restartDue, text, enabled, untold, told, events,
                       listed>>,
           owed # Nothing => wanted \/ restartDue,
           \/ \A c \in Chats : held[c] # NoRow <=> c \in Entries(account, mode, query)
           \/ wanted \/ restartDue \/ MineComes,
           \A c \in VoiceChats : OldText(held[c], c) =>
              \/ c \in outdated \/ Owes(owed, c)
              \/ <<account, c>> \in untold \cup told \/ NoChat \in told
    PROVE  Claims'
<1>1. CASE wanted /\ ~paused /\ ~restartDue
  <2>1. StartRefresh(held, owed, 0, tasks \ {t})
    BY <1>1 DEF AskAgain
  <2>2. QED
    BY <2>1, ClaimsStart
<1>2. CASE ~(wanted /\ ~paused /\ ~restartDue)
  <2>1. /\ inFlight' = 0 /\ tasks' = tasks \ {t} /\ awaiting' = owed /\ again' = wanted
        /\ outdated' = outdated
    BY <1>2 DEF AskAgain
  <2>2. \A x \in tasks' : x.gen # inFlight'
    BY <2>1, RowTypes DEF Shape, Generations
  <2>3. Asked'
    BY <2>1 DEF Asked
  <2>4. ListDue'
    BY <2>1 DEF ListDue, Listed, Entries, Restless, MineComes
  <2>5. \A c \in VoiceChats : OldText(rows[c], c)' => OldText(held[c], c)
    BY DEF OldText, TextNow
  <2>6. RowText'
    BY <2>1, <2>5 DEF RowText, TextDue
  <2>7. QED
    BY <2>2, <2>3, <2>4, <2>6 DEF Claims
<1>3. QED
  BY <1>1, <1>2

LEMMA RowsSettle ==
    ASSUME TypeInv, Shape, Versions, TextInv, ClaimInv, NEW t \in tasks, LandRows(t)
    PROVE  TextInv' /\ ClaimInv'
<1>1. t \in TaskType
  BY RowTypes
<1>2. PICK held \in [Chats -> Row \cup {NoRow}] : held = Result(t)
  BY <1>1, ResultType
<1> DEFINE voice == {c \in VoiceChats : held[c] # NoRow}
           stale == TextsMoved /\ voice # {}
           more == [everything |-> FALSE, chats |-> voice]
<1>3. PICK owed : owed = IF stale THEN Merge(awaiting, more) ELSE awaiting
  OBVIOUS
<1>4. PICK wanted \in BOOLEAN : wanted = (again \/ stale)
  BY DEF TypeInv, AskInv, AskType
<1>5. /\ t.phase = "done" /\ Current(t) /\ rows' = held /\ AskAgain(held, owed, wanted, t)
      /\ UNCHANGED <<account, mode, query, restartDue, text, enabled, untold, told, events,
                     listed, epoch, server, budget>>
  BY <1>2, <1>3, <1>4 DEF LandRows, landFrame, coreVars, qmlVars
<1>6. t.gen = inFlight /\ t.gen = generation /\ t.asked = asking /\ inFlight # 0
  BY <1>5, RowTypes DEF Current, Shape, Generations
<1>7. UpToRows(t) /\ FreshFine(t) /\ RowsRead(t)
  BY <1>6 DEF Versions, TextInv, Shape
<1>8. awaiting \in Awaiting /\ more \in Awaiting
  BY ChatListAssumption DEF TypeInv, AskInv, AskType, Awaiting
<1>9. owed \in Awaiting /\ \A c : Owes(owed, c) <=> Owes(awaiting, c) \/ (stale /\ c \in voice)
  BY <1>3, <1>8, MergeType, OwesMerge DEF Owes
<1>10. ASSUME NEW c \in Chats
       PROVE  /\ held[c] # NoRow <=> c \in t.entries
              /\ held[c] # NoRow /\ t.fresh[c] # NoRow => held[c] = t.fresh[c]
              /\ held[c] # NoRow /\ t.fresh[c] = NoRow
                 => held[c] = rows[c] /\ ~Owes(asking, c)
  <2>1. held[c] = IF c \notin t.entries THEN NoRow
                  ELSE IF t.fresh[c] # NoRow THEN t.fresh[c] ELSE t.cached[c]
    BY <1>2 DEF Result
  <2>2. c \in t.entries /\ t.fresh[c] = NoRow => ~Owes(asking, c) /\ t.cached[c] # NoRow
    BY <1>5, <1>6, <1>7 DEF RowsRead, Reads
  <2>3. t.cached[c] # NoRow => rows[c] = t.cached[c]
    BY <1>7 DEF UpToRows
  <2>4. QED
    BY <2>1, <2>2, <2>3
<1>11. \A c \in Chats : c \notin VoiceChats /\ held[c] # NoRow => held[c].text = 0
  BY <1>7, <1>10 DEF FreshFine, TextInv
<1>12. TextInv'
  BY <1>5, <1>9, <1>11, LandTexts
<1>13. ASSUME Known', Unrefused' PROVE Claims'
  <2>1. Known /\ Unrefused
    BY <1>5, <1>13 DEF Known, Unrefused
  <2>2. Claims
    BY <2>1 DEF ClaimInv
  <2>3. owed # Nothing => wanted \/ restartDue
    BY <1>3, <1>4, <2>2 DEF Claims, Asked
  <2>4. \/ \A c \in Chats : held[c] # NoRow <=> c \in Entries(account, mode, query)
        \/ wanted \/ restartDue \/ MineComes
    BY <1>4, <1>5, <1>6, <1>10, <2>2 DEF Claims, ListRead, Restless
  <2>5. ASSUME NEW c \in VoiceChats, OldText(held[c], c)
        PROVE  \/ c \in outdated \/ Owes(owed, c)
               \/ <<account, c>> \in untold \cup told \/ NoChat \in told
    <3>1. c \in Chats /\ held[c] # NoRow
      BY <2>5, ChatListAssumption DEF OldText
    <3>2. TextsMoved => Owes(owed, c)
      BY <1>9, <3>1
    <3>3. CASE t.fresh[c] # NoRow
      <4>1. held[c] = t.fresh[c] /\ ~Unread(t, c)
        BY <1>5, <1>10, <3>1, <3>3 DEF Unread
      <4>2. t.fresh[c].account = t.account /\ TextFine(t.account, c, t.fresh[c].text)
        BY <1>7, <3>1, <3>3, <4>1 DEF FreshFine
      <4>3. QED
        BY <2>5, <3>2, <4>1, <4>2 DEF OldText, TextFine
    <3>4. CASE t.fresh[c] = NoRow
      <4>1. held[c] = rows[c] /\ ~Owes(asking, c)
        BY <1>10, <3>1, <3>4
      <4>2. c \in outdated \/ TextDue(c)
        BY <2>2, <2>5, <4>1 DEF Claims, RowText
      <4>3. QED
        BY <1>9, <3>2, <4>1, <4>2 DEF TextDue
    <3>5. QED
      BY <3>3, <3>4
  <2>6. QED
    BY <1>5, <1>9, <1>13, <2>3, <2>4, <2>5, LandClaims
<1>14. QED
  BY <1>12, <1>13 DEF ClaimInv

\* A refresh that failed, refused calls apart, is followed by one that reads everything.
LEMMA ErrorSettles ==
    ASSUME TypeInv, Shape, TextInv, ClaimInv, NEW t \in tasks, LandError(t)
    PROVE  TextInv' /\ ClaimInv'
<1>1. PICK held \in [Chats -> Row \cup {NoRow}] : held = rows
  BY RowTypes
<1>2. PICK owed \in Awaiting : owed = Merge(awaiting, asking)
  BY MergeType DEF TypeInv, AskInv, AskType
<1>3. PICK wanted \in BOOLEAN : wanted = again
  BY DEF TypeInv, AskInv, AskType
<1>4. /\ t.phase = "failed" /\ Current(t) /\ rows' = held /\ AskAgain(held, owed, wanted, t)
      /\ UNCHANGED <<account, mode, query, restartDue, text, enabled, untold, told, events,
                     listed, epoch, server, budget>>
  BY <1>1, <1>2, <1>3 DEF LandError, OwedAfterError, landFrame, coreVars, qmlVars
<1>5. TextInv'
  <2>1. \A c \in Chats : c \notin VoiceChats /\ held[c] # NoRow => held[c].text = 0
    BY <1>1 DEF TextInv
  <2>2. QED
    BY <1>4, <2>1, LandTexts
<1>6. ASSUME Known', Unrefused' PROVE Claims'
  <2>1. Known /\ Unrefused
    BY <1>4, <1>6 DEF Known, Unrefused
  <2>2. awaiting.everything /\ Asked
    BY <1>4, <2>1 DEF ClaimInv, Claims, Doomed, Current
  <2>3. awaiting # Nothing
    BY <2>2 DEF Nothing
  <2>4. wanted \/ restartDue
    BY <1>3, <2>2, <2>3 DEF Asked
  <2>5. \A c : Owes(owed, c)
    BY <1>2, <2>2, OwesScopes DEF Merge
  <2>6. QED
    BY <1>4, <1>6, <2>4, <2>5, LandClaims
<1>7. QED
  BY <1>5, <1>6 DEF ClaimInv

\* A refresh that was superseded leaves no trace.
LEMMA StaleSettles ==
    ASSUME TypeInv, TextInv, ClaimInv, NEW t \in tasks, LandStale(t)
    PROVE  TextInv' /\ ClaimInv'
<1>1. /\ tasks' = tasks \ {t} /\ t.gen # inFlight
      /\ UNCHANGED <<rows, account, mode, query, restartDue, awaiting, asking, inFlight, again,
                     generation, outdated, askedEpoch, following, epoch, untold, told, text,
                     enabled, events, listed, server, budget>>
  BY DEF LandStale, Current, landFrame, coreVars, qmlVars
<1>2. TextInv'
  <2>1. \A x : (FreshFine(x)' <=> FreshFine(x)) /\ (Parts(x)' <=> Parts(x))
    BY <1>1 DEF FreshFine, Parts, Unread, TextFine, TextNow, TextsMoved
  <2>2. QED
    BY <1>1, <2>1 DEF TextInv
<1>3. \A x \in tasks : x.gen = inFlight => \E u \in tasks' : u.gen = x.gen /\ u.cached = x.cached
  BY <1>1
<1>4. \A c \in VoiceChats : /\ OldText(rows[c], c)' => OldText(rows[c], c)
                            /\ TextDue(c) => TextDue(c)'
  BY <1>1, <1>3, SameDue
<1>5. Entries(account, mode, query)' = Entries(account, mode, query) /\ (MineComes => MineComes')
  BY <1>1 DEF Entries, MineComes
<1>6. ClaimInv'
  BY <1>1, <1>4, <1>5, ClaimsKept DEF Known, Unrefused
<1>7. QED
  BY <1>2, <1>6

-----------------------------------------------------------------------------
(* Every step keeps a list at rest in sync *)

\* Steps of which refreshes and transcripts know nothing.
LEMMA SameTexts ==
    ASSUME TextInv,
           UNCHANGED <<rows, inFlight, tasks, askedEpoch, following, epoch, untold, text, enabled>>
    PROVE  TextInv'
<1>1. \A x : (FreshFine(x)' <=> FreshFine(x)) /\ (Parts(x)' <=> Parts(x))
  BY DEF FreshFine, Parts, Unread, TextFine, TextNow, TextsMoved
<1>2. QED
  BY <1>1 DEF TextInv

LEMMA QuietSettles ==
    ASSUME TextInv, ClaimInv, UNCHANGED askVars,
           UNCHANGED <<rows, account, mode, query, restartDue, epoch, untold, told, text, enabled,
                       server>>,
           Unrefused' => Unrefused, MineComes => MineComes',
           Entries(account, mode, query)' = Entries(account, mode, query) \/ MineComes'
    PROVE  TextInv' /\ ClaimInv'
<1>1. UNCHANGED <<awaiting, asking, inFlight, again, outdated, tasks, askedEpoch, following>>
  BY DEF askVars
<1>2. TextInv'
  BY <1>1, SameTexts
<1>3. \A c \in VoiceChats : /\ OldText(rows[c], c)' => OldText(rows[c], c)
                            /\ TextDue(c) => TextDue(c)'
  BY <1>1, SameDue
<1>4. ClaimInv'
  BY <1>1, <1>3, ClaimsKept DEF Known
<1>5. QED
  BY <1>2, <1>4

LEMMA AskSettles ==
    ASSUME TypeInv, Shape, TextInv, ClaimInv, NEW scope \in Awaiting, Refresh(scope),
           UNCHANGED <<rows, account, mode, query, restartDue, text, enabled, untold, epoch>>,
           (Known' /\ Unrefused' => Known /\ Unrefused) \/ scope = All,
           \A c \in VoiceChats :
              OldText(rows[c], c) /\ (<<account, c>> \in told \/ NoChat \in told) =>
                 <<account, c>> \in told' \/ NoChat \in told' \/ Owes(scope, c)
    PROVE  TextInv' /\ ClaimInv'
<1>1. ClaimInv'
  BY RefreshClaims
<1>2. CASE account = NoAccount \/ paused \/ inFlight # 0 \/ restartDue
  <2>1. UNCHANGED <<inFlight, tasks, askedEpoch, following>>
    BY <1>2 DEF Refresh, RefreshOwing, askVars
  <2>2. QED
    BY <1>1, <2>1, SameTexts
<1>3. CASE ~(account = NoAccount \/ paused \/ inFlight # 0 \/ restartDue)
  <2>1. PICK owed \in Awaiting : owed = Merge(awaiting, scope)
    BY MergeType DEF TypeInv, AskInv, AskType
  <2>2. PICK held \in [Chats -> Row \cup {NoRow}] : held = rows
    BY RowTypes
  <2>3. StartRefresh(held, owed, inFlight, tasks)
    BY <1>3, <2>1, <2>2 DEF Refresh, RefreshOwing
  <2>4. TextInv'
    BY <2>2, <2>3, TextsStart DEF TextInv
  <2>5. QED
    BY <1>1, <2>4
<1>4. QED
  BY <1>2, <1>3

LEMMA RestartSettles ==
    ASSUME TypeInv, Shape, TextInv, ClaimInv, StartRefresh(rows, awaiting, inFlight, tasks),
           UNCHANGED <<rows, account, mode, query, text, enabled, untold, told, epoch>>,
           Known' /\ Unrefused' => Known /\ Unrefused
    PROVE  TextInv' /\ ClaimInv'
<1>1. PICK owed \in Awaiting : owed = awaiting
  BY DEF TypeInv, AskInv, AskType
<1>2. PICK held \in [Chats -> Row \cup {NoRow}] : held = rows
  BY RowTypes
<1>3. StartRefresh(held, owed, inFlight, tasks)
  BY <1>1, <1>2
<1>4. TextInv'
  BY <1>2, <1>3, TextsStart DEF TextInv
<1>5. QED
  BY <1>4, RestartClaims

\* What will be asked once the kick runs.
LEMMA DueSettles ==
    ASSUME TypeInv, TextInv, ClaimInv, NEW scope \in {All, Order}, Restart(scope),
           UNCHANGED <<rows, epoch, untold, told, text, enabled, server>>,
           account' = account \/ scope = All,
           Unrefused' => Unrefused
    PROVE  TextInv' /\ ClaimInv'
<1>1. /\ awaiting' = Merge(awaiting, scope) /\ restartDue' = TRUE
      /\ UNCHANGED <<asking, inFlight, generation, again, following, askedEpoch, tasks, outdated>>
  BY DEF Restart
<1>2. TextInv'
  BY <1>1, SameTexts
<1>3. ASSUME Known', Unrefused' PROVE Claims'
  <2>1. Asked' /\ ListDue' /\ Restless'
    BY <1>1 DEF Asked, ListDue, Restless
  <2>2. \A t \in tasks' : ListRead(t)'
    BY <2>1 DEF ListRead
  <2>3. CASE scope = All
    <3>1. awaiting'.everything
      BY <1>1, <2>3 DEF Merge, All, Everything
    <3>2. QED
      BY <2>1, <2>2, <3>1 DEF Claims, RowText, TextDue, Doomed, Owes
  <2>4. CASE scope = Order /\ account' = account
    <3>1. Claims
      BY <1>3, <2>4 DEF ClaimInv, Known
    <3>2. /\ awaiting.everything => awaiting'.everything
          /\ \A c : Owes(awaiting, c) => Owes(awaiting', c)
      BY <1>1 DEF Merge, Everything, Owes
    <3>3. \A t \in tasks' : t.gen = inFlight' => Doomed(t)'
      BY <1>1, <3>1, <3>2 DEF Claims, Doomed
    <3>4. ASSUME NEW c \in VoiceChats, OldText(rows[c], c)' PROVE c \in outdated' \/ TextDue(c)'
      <4>1. OldText(rows[c], c)
        BY <2>4, <3>4 DEF OldText, TextNow
      <4>2. c \in outdated \/ TextDue(c)
        BY <3>1, <4>1 DEF Claims, RowText
      <4>3. (\E t \in tasks : First(t)) => \E t \in tasks' : First(t)'
        BY <1>1 DEF First
      <4>4. QED
        BY <1>1, <2>4, <3>2, <4>2, <4>3 DEF TextDue, TextsMoved
    <3>5. QED
      BY <2>1, <2>2, <3>3, <3>4 DEF Claims, RowText
  <2>5. QED
    BY <2>3, <2>4
<1>4. QED
  BY <1>2, <1>3 DEF ClaimInv

\* Events for the account stay there when more come.
LEMMA MineLonger ==
    ASSUME account' = account, events \in Seq(Event), NEW more \in Seq(Event),
           events' = events \o more
    PROVE  /\ MineComes => MineComes'
           /\ \A j \in DOMAIN more : more[j].account = account => MineComes'
<1>1. /\ events' \in Seq(Event) /\ Len(events') = Len(events) + Len(more)
      /\ \A i \in 1..Len(events') : events'[i] = IF i <= Len(events) THEN events[i]
                                                  ELSE more[i - Len(events)]
  BY ConcatProperties
<1>2. \A i \in DOMAIN events : i \in DOMAIN events' /\ events'[i] = events[i]
  BY <1>1
<1>3. \A j \in DOMAIN more : /\ Len(events) + j \in DOMAIN events'
                             /\ events'[Len(events) + j] = more[j]
  BY <1>1
<1>4. QED
  BY <1>2, <1>3 DEF MineComes

LEMMA MineAppended ==
    ASSUME TypeInv, account' = account, NEW e \in Event, events' = Append(events, e)
    PROVE  (MineComes => MineComes') /\ (e.account = account => MineComes')
<1>1. events \in Seq(Event) /\ <<e>> \in Seq(Event) /\ events' = events \o <<e>>
  BY DEF TypeInv, CoreType
<1>2. 1 \in DOMAIN <<e>> /\ <<e>>[1] = e
  OBVIOUS
<1>3. QED
  BY <1>1, <1>2, MineLonger

\* What QML and its reader do.
LEMMA QmlSettles ==
    ASSUME TypeInv, Shape, TextInv, ClaimInv, Unrefused' => Unrefused, Qml
    PROVE  TextInv' /\ ClaimInv'
<1>1. CASE \/ \E a \in Accounts \cup {NoAccount} : SetAccount(a)
           \/ \E q \in Queries : SetQuery(q)
           \/ \E m \in Modes : SetMode(m)
  <2>1. UNCHANGED <<rows, epoch, untold, told, text, enabled, server>>
    BY <1>1 DEF SetAccount, SetQuery, SetMode, coreVars
  <2>2. PICK scope \in {All, Order} : Restart(scope) /\ (account' = account \/ scope = All)
    BY <1>1 DEF SetAccount, SetQuery, SetMode
  <2>3. QED
    BY <2>1, <2>2, DueSettles
<1>2. CASE SetPaused
  <2>1. UNCHANGED <<rows, account, mode, query, text, enabled, untold, told, epoch, server, events,
                    listed>>
    BY <1>2 DEF SetPaused, coreVars
  <2>2. CASE paused /\ StartDue
    <3>1. StartRefresh(rows, awaiting, inFlight, tasks)
      BY <1>2, <2>2 DEF SetPaused
    <3>2. QED
      BY <2>1, <3>1, RestartSettles DEF Known
  <2>3. CASE ~(paused /\ StartDue)
    <3>1. UNCHANGED askVars /\ restartDue' = restartDue
      BY <1>2, <2>3 DEF SetPaused
    <3>2. QED
      BY <2>1, <3>1, QuietSettles DEF MineComes, Entries
  <2>4. QED
    BY <2>2, <2>3
<1>3. CASE Reload
  <2>1. /\ Refresh(All) /\ All \in Awaiting
        /\ UNCHANGED <<rows, account, mode, query, restartDue, text, enabled, untold, told, epoch>>
    BY <1>3, ScopeTypes DEF Reload, coreVars, qmlVars
  <2>2. QED
    BY <2>1, AskSettles
<1>4. ASSUME NEW c \in Chats, Act(c) PROVE TextInv' /\ ClaimInv'
  <2>1. /\ UNCHANGED askVars
        /\ UNCHANGED <<rows, account, mode, query, restartDue, epoch, untold, told, text, enabled,
                       server, listed>>
    BY <1>4 DEF Act, qmlVars
  <2>2. account \in Accounts /\ "ChatlistItemChanged" \in EventKinds
    BY <1>4 DEF Act, TypeInv, ListType, EventKinds
  <2>3. PICK e \in Event : events' \in {events, Append(events, e)}
    BY <1>4, <2>2, EventOfType DEF Act
  <2>4. MineComes => MineComes'
    BY <2>1, <2>3, MineAppended DEF MineComes
  <2>5. QED
    BY <2>1, <2>4, QuietSettles DEF Entries
<1>5. QED
  BY <1>1, <1>2, <1>3, <1>4 DEF Qml

\* handle_event: an event for the account makes the list ask, another says nothing of it.
LEMMA EventSettles ==
    ASSUME TypeInv, Shape, TextInv, ClaimInv, HandleEvent
    PROVE  TextInv' /\ ClaimInv'
<1>1. PICK e : e = Head(events)
  OBVIOUS
<1>2. events \in Seq(Event) /\ events # <<>> /\ events' = Tail(events)
  BY DEF HandleEvent, TypeInv, CoreType
<1>3. e \in Event /\ e = events[1]
  BY <1>1, <1>2
<1>4. UNCHANGED <<rows, account, mode, query, restartDue, text, enabled, untold, told, epoch,
                  server, listed, budget>>
  BY DEF HandleEvent, qmlVars
<1>5. Known' /\ Unrefused' => Known /\ Unrefused
  BY <1>4 DEF Known, Unrefused
<1>6. CASE account # NoAccount /\ e.account = account
  <2>1. Refresh(Scope(e)) /\ Scope(e) \in Awaiting
    BY <1>1, <1>3, <1>6, ScopeTypes DEF HandleEvent
  <2>2. QED
    BY <1>4, <1>5, <2>1, AskSettles
<1>7. CASE ~(account # NoAccount /\ e.account = account)
  <2>1. UNCHANGED askVars
    BY <1>1, <1>7 DEF HandleEvent
  <2>2. CASE account = NoAccount
    <3>1. TextInv'
      BY <1>4, <2>1, SameTexts DEF askVars
    <3>2. QED
      BY <1>4, <2>2, <3>1 DEF ClaimInv, Known
  <2>3. CASE account # NoAccount
    <3>1. ASSUME MineComes PROVE MineComes'
      <4>1. PICK i \in DOMAIN events : events[i].account = account
        BY <3>1 DEF MineComes
      <4>2. i # 1
        BY <1>3, <1>7, <2>3, <4>1
      <4>3. i - 1 \in DOMAIN events' /\ events'[i - 1] = events[i]
        BY <1>2, <4>2
      <4>4. QED
        BY <1>4, <4>1, <4>3 DEF MineComes
    <3>2. QED
      BY <1>4, <1>5, <2>1, <3>1, QuietSettles DEF Entries, Unrefused
  <2>4. QED
    BY <2>2, <2>3
<1>8. QED
  BY <1>6, <1>7

\* transcripts::follow's callback: the voice rows it touches are asked for.
LEMMA ToldSettles ==
    ASSUME TypeInv, Shape, TextInv, ClaimInv, NEW change \in told, TranscriptTold(change)
    PROVE  TextInv' /\ ClaimInv'
<1>1. PICK touched \in SUBSET Chats :
         touched = {c \in VoiceChats : /\ rows[c] # NoRow
                                       /\ change \in {NoChat, <<account, c>>}}
  BY ChatListAssumption
<1>2. PICK scope \in Awaiting : scope = [everything |-> FALSE, chats |-> touched]
  BY DEF Awaiting
<1>3. /\ told' = told \ {change}
      /\ UNCHANGED <<rows, account, mode, query, restartDue, text, enabled, untold, epoch,
                     server, listed, events, budget>>
  BY DEF TranscriptTold, qmlVars
<1>4. Known' /\ Unrefused' => Known /\ Unrefused
  BY <1>3 DEF Known, Unrefused
<1>5. ASSUME NEW c \in VoiceChats, rows[c] # NoRow, c \notin touched
      PROVE  <<account, c>> \in told \/ NoChat \in told =>
                <<account, c>> \in told' \/ NoChat \in told'
  BY <1>1, <1>3, <1>5
<1>6. CASE touched = {}
  <2>1. UNCHANGED askVars
    BY <1>1, <1>6 DEF TranscriptTold
  <2>2. UNCHANGED <<awaiting, asking, inFlight, again, outdated, tasks, askedEpoch, following>>
    BY <2>1 DEF askVars
  <2>3. TextInv'
    BY <1>3, <2>2, SameTexts
  <2>4. ASSUME NEW c \in VoiceChats, OldText(rows[c], c)'
        PROVE  OldText(rows[c], c) /\ (TextDue(c) => TextDue(c)')
    <3>1. OldText(rows[c], c)
      BY <1>3, <2>4 DEF OldText, TextNow
    <3>2. (\E t \in tasks : First(t)) => \E t \in tasks' : First(t)'
      BY <2>2 DEF First
    <3>3. QED
      BY <1>3, <1>5, <1>6, <2>2, <3>1, <3>2 DEF OldText, TextDue, TextsMoved
  <2>5. (MineComes => MineComes') /\ Entries(account, mode, query)' = Entries(account, mode, query)
    BY <1>3 DEF MineComes, Entries
  <2>6. ClaimInv'
    BY <1>3, <1>4, <2>2, <2>4, <2>5, ClaimsKept
  <2>7. QED
    BY <2>3, <2>6
<1>7. CASE touched # {}
  <2>1. Refresh(scope)
    BY <1>1, <1>2, <1>7 DEF TranscriptTold
  <2>2. \A c \in touched : Owes(scope, c)
    BY <1>2 DEF Owes
  <2>3. \A c \in VoiceChats :
           OldText(rows[c], c) /\ (<<account, c>> \in told \/ NoChat \in told) =>
              <<account, c>> \in told' \/ NoChat \in told' \/ Owes(scope, c)
    BY <1>5, <2>2 DEF OldText
  <2>4. QED
    BY <1>3, <1>4, <2>1, <2>3, AskSettles
<1>8. QED
  BY <1>6, <1>7

\* The transcript store: what is written will be told of, and what is told moves the epoch.
LEMMA StoreSettles ==
    ASSUME TypeInv, TextInv, ClaimInv, Unrefused' => Unrefused,
           \/ \E a \in Accounts, c \in Chats : TranscriptStored(a, c)
           \/ \E key \in untold : Tell(key)
           \/ SwitchTranscripts
    PROVE  TextInv' /\ ClaimInv'
<1>1. /\ UNCHANGED <<rows, account, mode, query, restartDue, events, listed, server>>
      /\ UNCHANGED <<awaiting, asking, inFlight, again, outdated, tasks, askedEpoch, following>>
  BY DEF TranscriptStored, Tell, SwitchTranscripts, coreFrame, qmlVars, askVars
<1>2. Known' /\ Unrefused' => Known /\ Unrefused
  BY <1>1 DEF Known
<1>3. (MineComes => MineComes') /\ Entries(account, mode, query)' = Entries(account, mode, query)
  BY <1>1 DEF MineComes, Entries
<1>4. epoch \in Nat /\ askedEpoch \in Nat /\ askedEpoch <= epoch
  BY DEF TextInv, TypeInv, CoreType, AskInv, AskType
<1>5. ASSUME NEW c \in VoiceChats, rows[c] # NoRow PROVE c \in Chats /\ following
  BY <1>5, ChatListAssumption DEF TextInv
<1>6. (\E t \in tasks : First(t)) => \E t \in tasks' : First(t)'
  BY <1>1 DEF First
<1>7. ASSUME NEW a \in Accounts, NEW d \in Chats, TranscriptStored(a, d)
      PROVE  TextInv' /\ ClaimInv'
  <2>1. /\ text' = [text EXCEPT ![a][d] = @ + 1] /\ untold' = untold \cup {<<a, d>>}
        /\ UNCHANGED <<enabled, epoch, told>>
    BY <1>7 DEF TranscriptStored
  <2>2. \A b \in Accounts, c \in Chats : <<b, c>> # <<a, d>> => text'[b][c] = text[b][c]
    BY <2>1 DEF TypeInv, CoreType
  <2>3. \A b \in Accounts, c \in Chats :
           <<b, c>> \in untold' \/ TextNow(b, c)' = TextNow(b, c)
    BY <2>1, <2>2 DEF TextNow
  <2>4. \A b \in Accounts, c \in Chats : \A x : TextFine(b, c, x) => TextFine(b, c, x)'
    BY <1>1, <2>1, <2>3 DEF TextFine, TextsMoved
  <2>5. TextInv'
    BY <1>1, <2>1, <2>4, TextsKept
  <2>6. ASSUME Known, NEW c \in VoiceChats, OldText(rows[c], c)'
        PROVE  TextDue(c)' \/ (OldText(rows[c], c) /\ (TextDue(c) => TextDue(c)'))
    <3>1. <<account, c>> \in untold' \/ TextNow(account, c)' = TextNow(account, c)
      <4>1. account \in Accounts /\ c \in Chats
        BY <2>6, ChatListAssumption DEF Known, TypeInv, ListType
      <4>2. PICK mine \in Accounts : mine = account
        BY <4>1
      <4>3. QED
        BY <1>1, <2>3, <4>1, <4>2 DEF TextNow
    <3>2. CASE <<account, c>> \in untold'
      BY <1>1, <3>2 DEF TextDue
    <3>3. CASE TextNow(account, c)' = TextNow(account, c)
      <4>1. OldText(rows[c], c)
        BY <1>1, <2>6, <3>3 DEF OldText, TextNow
      <4>2. QED
        BY <1>1, <1>6, <2>1, <4>1 DEF TextDue, TextsMoved
    <3>4. QED
      BY <3>1, <3>2, <3>3
  <2>7. Known => ClaimInv'
    BY <1>1, <1>2, <1>3, <2>6, ClaimsKept
  <2>8. QED
    BY <1>2, <2>5, <2>7 DEF ClaimInv
<1>8. CASE (\E key \in untold : Tell(key)) \/ SwitchTranscripts
  <2>1. epoch' = epoch + 1 /\ text' = text
    BY <1>8 DEF Tell, SwitchTranscripts
  <2>2. TextsMoved'
    BY <1>1, <1>4, <2>1 DEF TextsMoved
  <2>3. \A b \in Accounts, c \in Chats : \A x : TextFine(b, c, x)'
    BY <2>2 DEF TextFine
  <2>4. TextInv'
    BY <1>1, <2>1, <2>2, <2>3, TextsKept
  <2>5. ASSUME NEW c \in VoiceChats, OldText(rows[c], c)'
        PROVE  TextDue(c)' \/ (OldText(rows[c], c) /\ (TextDue(c) => TextDue(c)'))
    <3>1. rows[c] # NoRow /\ following
      BY <1>1, <1>5, <2>5 DEF OldText
    <3>2. CASE SwitchTranscripts
      <4>1. NoChat \in told'
        BY <3>1, <3>2 DEF SwitchTranscripts
      <4>2. QED
        BY <4>1 DEF TextDue
    <3>3. ASSUME NEW key \in untold, Tell(key)
          PROVE  TextDue(c)' \/ (OldText(rows[c], c) /\ (TextDue(c) => TextDue(c)'))
      <4>1. enabled' = enabled /\ told' = told \cup {key} /\ untold' = untold \ {key}
        BY <3>1, <3>3 DEF Tell
      <4>2. OldText(rows[c], c)
        BY <1>1, <2>1, <2>5, <4>1 DEF OldText, TextNow
      <4>3. QED
        BY <1>1, <1>6, <2>2, <4>1, <4>2 DEF TextDue
    <3>4. QED
      BY <1>8, <3>2, <3>3
  <2>6. ClaimInv'
    BY <1>1, <1>2, <1>3, <2>5, ClaimsKept
  <2>7. QED
    BY <2>4, <2>6
<1>9. QED
  BY <1>7, <1>8

\* The core, its server and its supervisor.
LEMMA ServerSettles ==
    ASSUME TypeInv, Shape, TextInv, ClaimInv, Unrefused' => Unrefused,
           \/ \E a \in Accounts, c \in Chats : CoreChange(a, c)
           \/ \E a \in Accounts, m \in Modes, c \in Chats : ListingChange(a, m, c)
           \/ \E i, j \in DOMAIN events : i <= j /\ Overflow(i, j)
           \/ ServerDies \/ ServerGone \/ ServerBack
    PROVE  TextInv' /\ ClaimInv'
<1>1. /\ UNCHANGED <<rows, account, mode, query, restartDue, epoch, untold, told, text, enabled>>
      /\ ~ServerBack => UNCHANGED <<inFlight, askedEpoch, following>>
      /\ ~ServerBack /\ ~ServerDies => UNCHANGED askVars
  BY DEF CoreChange, ListingChange, Overflow, ServerDies, ServerGone, ServerBack, coreFrame,
         qmlVars, askVars
<1>2. ASSUME NEW a \in Accounts, NEW c \in Chats, CoreChange(a, c), ~ServerBack, ~ServerDies
      PROVE  TextInv' /\ ClaimInv'
  <2>1. /\ EventOf(a, "IncomingMsg", c) \in Event /\ EventOf(a, "ChatlistItemChanged", c) \in Event
        /\ EventOf(a, "MsgsChanged", c) \in Event /\ EventOf(a, "MsgsChanged", NoChat) \in Event
    BY EventOfType DEF EventKinds
  <2>2. PICK more \in Seq(Event) : events' = events \o more
    <3>1. events \in Seq(Event)
      BY DEF TypeInv, CoreType
    <3>2. \A e \in Event : Append(events, e) = events \o <<e>> /\ <<e>> \in Seq(Event)
      BY <3>1
    <3>3. <<EventOf(a, "IncomingMsg", c), EventOf(a, "ChatlistItemChanged", c)>> \in Seq(Event)
      BY <2>1
    <3>4. QED
      BY <1>2, <2>1, <3>2, <3>3 DEF CoreChange
  <2>3. MineComes => MineComes'
    BY <1>1, <2>2, MineLonger DEF TypeInv, CoreType
  <2>4. UNCHANGED <<listed, server>>
    BY <1>2 DEF CoreChange
  <2>5. QED
    BY <1>1, <1>2, <2>3, <2>4, QuietSettles DEF Entries
<1>3. ASSUME NEW a \in Accounts, NEW m \in Modes, NEW c \in Chats, ListingChange(a, m, c),
             ~ServerBack, ~ServerDies
      PROVE  TextInv' /\ ClaimInv'
  <2>1. PICK e \in Event : e.account = a /\ events' = Append(events, e)
    <3>1. EventOf(a, "ChatlistChanged", NoChat) \in Event
      BY EventOfType DEF EventKinds
    <3>2. QED
      BY <1>3, <3>1 DEF ListingChange, EventOf
  <2>2. (MineComes => MineComes') /\ (a = account => MineComes')
    BY <1>1, <2>1, MineAppended
  <2>3. /\ listed' = [listed EXCEPT ![a][m] = IF c \in @ THEN @ \ {c} ELSE @ \cup {c}]
        /\ server' = server
    BY <1>3 DEF ListingChange
  <2>4. a # account => listed'[account] = listed[account]
    BY <2>3 DEF TypeInv, CoreType
  <2>5. Entries(account, mode, query)' = Entries(account, mode, query) \/ MineComes'
    BY <1>1, <2>2, <2>4 DEF Entries
  <2>6. QED
    BY <1>1, <1>3, <2>2, <2>3, <2>5, QuietSettles
<1>4. ASSUME NEW i \in DOMAIN events, NEW j \in DOMAIN events, i <= j, Overflow(i, j),
             ~ServerBack, ~ServerDies
      PROVE  TextInv' /\ ClaimInv'
  <2>1. MineComes => MineComes'
    BY <1>1, <1>4, EventsDropped DEF MineComes
  <2>2. UNCHANGED <<listed, server>>
    BY <1>4 DEF Overflow
  <2>3. QED
    BY <1>1, <1>4, <2>1, <2>2, QuietSettles DEF Entries
<1>5. CASE ServerDies /\ ~ServerBack
  <2>1. tasks' = {IF t.phase \in {"listing", "items"} THEN [t EXCEPT !.phase = "lost"] ELSE t :
                  t \in tasks}
    BY <1>5 DEF ServerDies
  <2>2. ASSUME NEW u \in tasks'
        PROVE  \E t \in tasks :
                 /\ u.gen = t.gen /\ u.account = t.account /\ u.fresh = t.fresh
                 /\ u.early = t.early /\ u.wanted = t.wanted /\ u.rest = t.rest
                 /\ u.previews = t.previews
                 /\ u.phase = t.phase
                    \/ (t.phase # "texts" /\ u.phase \notin {"listing", "texts"})
    <3>1. PICK t \in tasks :
             u = IF t.phase \in {"listing", "items"} THEN [t EXCEPT !.phase = "lost"] ELSE t
      BY <2>1
    <3>2. CASE u = t
      BY <3>2
    <3>3. CASE t.phase \in {"listing", "items"} /\ u = [t EXCEPT !.phase = "lost"]
      <4>1. t \in TaskType
        BY RowTypes
      <4>2. /\ u.gen = t.gen /\ u.account = t.account /\ u.fresh = t.fresh
            /\ u.early = t.early /\ u.wanted = t.wanted /\ u.rest = t.rest
            /\ u.previews = t.previews /\ u.phase = "lost"
        BY <3>3, <4>1 DEF TaskType
      <4>3. QED
        BY <3>3, <4>2
    <3>4. QED
      BY <3>1, <3>2, <3>3
  <2>3. \A a \in Accounts, c \in Chats : \A x : TextFine(a, c, x) => TextFine(a, c, x)'
    BY <1>1, <1>5 DEF TextFine, TextNow, TextsMoved
  <2>4. TextInv'
    BY <1>1, <1>5, <2>2, <2>3, TextsKept
  <2>5. ~Known'
    BY <1>5 DEF ServerDies, Known
  <2>6. QED
    BY <2>4, <2>5 DEF ClaimInv
<1>6. CASE ServerGone /\ ~ServerBack /\ ~ServerDies
  <2>1. TextInv'
    BY <1>1, <1>6, SameTexts DEF askVars
  <2>2. ~Known'
    BY <1>6 DEF ServerGone, Known
  <2>3. QED
    BY <2>1, <2>2 DEF ClaimInv
<1>7. CASE ServerBack
  <2>1. Refresh(All) /\ All \in Awaiting
    BY <1>7, ScopeTypes DEF ServerBack
  <2>2. QED
    BY <1>1, <2>1, AskSettles
<1>8. QED
  BY <1>2, <1>3, <1>4, <1>5, <1>6, <1>7

LEMMA RestStep ==
    ASSUME TypeInv, Shape, Versions, TextInv, ClaimInv, SpentInv, [Next]_vars
    PROVE  TextInv' /\ ClaimInv' /\ SpentInv'
<1>1. budget' = budget \/ \E k \in BudgetKinds : Spend(k)
  BY DEF Next, Qml, Callback, Task, Environment, Supervisor, SetAccount, SetQuery, SetMode,
         SetPaused, Reload, Act, Kick, HandleEvent, ActLands, MentionFound, MentionNotFound,
         TranscriptTold, ShowEarly, LandStale, LandRows, LandError, landFrame, ReadListing,
         ReadItems, ReadTexts, CutOff, Refused, CoreChange, TranscriptStored, ListingChange,
         Overflow, ServerDies, SwitchTranscripts, ServerGone, ServerBack, Tell, BudgetKinds, vars
<1>2. SpentInv' /\ (Unrefused' => Unrefused)
  BY <1>1, SpentStep
<1>3. CASE Qml
  BY <1>2, <1>3, QmlSettles
<1>4. CASE Kick
  <2>1. UNCHANGED <<rows, account, mode, query, text, enabled, untold, told, epoch, server, events,
                    listed>>
    BY <1>4 DEF Kick, coreVars, qmlVars
  <2>2. CASE paused
    <3>1. UNCHANGED askVars /\ restartDue' = restartDue
      BY <1>4, <2>2 DEF Kick
    <3>2. QED
      BY <1>2, <2>1, <3>1, QuietSettles DEF MineComes, Entries
  <2>3. CASE ~paused
    <3>1. StartRefresh(rows, awaiting, inFlight, tasks)
      BY <1>4, <2>3 DEF Kick
    <3>2. QED
      BY <1>2, <2>1, <3>1, RestartSettles DEF Known
  <2>4. QED
    BY <2>2, <2>3
<1>5. CASE HandleEvent
  BY <1>2, <1>5, EventSettles
<1>6. CASE (\E act \in acts : ActLands(act)) \/ (\E c \in checks : MentionFound(c))
  <2>1. PICK c \in Chats : Refresh(One(c))
    BY <1>6 DEF ActLands, MentionFound, TypeInv, ListType
  <2>2. UNCHANGED <<rows, account, mode, query, restartDue, text, enabled, untold, told, epoch,
                    server>>
    BY <1>6 DEF ActLands, MentionFound, coreVars, qmlVars
  <2>3. One(c) \in Awaiting
    BY ScopeTypes
  <2>4. QED
    BY <1>2, <2>1, <2>2, <2>3, AskSettles DEF Known
<1>7. ASSUME NEW c \in checks, MentionNotFound(c) PROVE TextInv' /\ ClaimInv'
  <2>1. /\ UNCHANGED askVars
        /\ UNCHANGED <<rows, account, mode, query, restartDue, text, enabled, untold, told, epoch,
                       server, events, listed>>
    BY <1>7 DEF MentionNotFound, coreVars, qmlVars
  <2>2. QED
    BY <1>2, <2>1, QuietSettles DEF MineComes, Entries
<1>8. ASSUME NEW change \in told, TranscriptTold(change) PROVE TextInv' /\ ClaimInv'
  BY <1>8, ToldSettles
<1>9. ASSUME NEW t \in tasks, ShowEarly(t) \/ LandStale(t) \/ LandRows(t) \/ LandError(t)
      PROVE  TextInv' /\ ClaimInv'
  BY <1>9, ShowSettles, StaleSettles, RowsSettle, ErrorSettles
<1>10. ASSUME NEW t \in tasks,
              ReadListing(t) \/ ReadItems(t) \/ ReadTexts(t) \/ CutOff(t) \/ Refused(t)
       PROVE  TextInv' /\ ClaimInv'
  BY <1>10, TaskSettles
<1>11. CASE \/ \E a \in Accounts, c \in Chats : TranscriptStored(a, c)
            \/ \E key \in untold : Tell(key)
            \/ SwitchTranscripts
  BY <1>2, <1>11, StoreSettles
<1>12. CASE \/ \E a \in Accounts, c \in Chats : CoreChange(a, c)
            \/ \E a \in Accounts, m \in Modes, c \in Chats : ListingChange(a, m, c)
            \/ \E i, j \in DOMAIN events : i <= j /\ Overflow(i, j)
            \/ ServerDies \/ ServerGone \/ ServerBack
  BY <1>2, <1>12, ServerSettles
<1>13. CASE UNCHANGED vars
  <2>1. /\ UNCHANGED askVars
        /\ UNCHANGED <<rows, account, mode, query, restartDue, text, enabled, untold, told, epoch,
                       server, events, listed>>
    BY <1>13 DEF vars, coreVars, qmlVars
  <2>2. QED
    BY <1>2, <2>1, QuietSettles DEF MineComes, Entries
<1>14. QED
  BY <1>2, <1>3, <1>4, <1>5, <1>6, <1>7, <1>8, <1>9, <1>10, <1>11, <1>12, <1>13
  DEF Next, Callback, Task, Environment, Supervisor

LEMMA RestInit ==
    ASSUME Init
    PROVE  TextInv /\ ClaimInv /\ SpentInv
<1>1. TextInv
  BY DEF Init, TextInv, NoRows
<1>2. ~Known
  BY DEF Init, Known
<1>3. SpentInv
  <2>1. budget \in Budgets /\ budget \in [BudgetKinds -> Nat] /\ "fail" \in BudgetKinds
    BY ChatListAssumption DEF Init, BudgetKinds
  <2>2. budget["fail"] <= budget["fail"]
    BY <2>1
  <2>3. QED
    BY <2>1, <2>2 DEF SpentInv
<1>4. QED
  BY <1>1, <1>2, <1>3 DEF ClaimInv

\* Once nothing is under way, nothing can be due any more.
LEMMA RestShows ==
    ASSUME TypeInv, Shape, NoLostRefresh, TextInv, ClaimInv
    PROVE  SettledInSync
<1>1. SUFFICES ASSUME Settled, Unrefused PROVE InSync
  BY DEF SettledInSync
<1>2. /\ account # NoAccount /\ inFlight = 0 /\ ~again /\ ~restartDue
      /\ events = <<>> /\ acts = {} /\ told = {} /\ untold = {}
  BY <1>1 DEF Settled
<1>3. Known /\ Claims
  BY <1>1 DEF Settled, Known, ClaimInv
<1>4. DOMAIN events = {}
  BY <1>2
<1>5. ~Restless
  BY <1>2, <1>4 DEF Restless, MineComes
<1>6. awaiting = Nothing /\ Listed
  BY <1>2, <1>3, <1>5 DEF Claims, Asked, ListDue
<1>7. \A c : ~Owes(awaiting, c)
  BY <1>6 DEF Owes, Nothing
<1>8. \A c \in Chats : ~Wrong(rows[c], c)
  BY <1>2, <1>3, <1>4, <1>7 DEF NoLostRefresh, Owed, Coming, Heralded
<1>9. ~\E t \in tasks : First(t)
  BY <1>2, RowTypes DEF First, Shape, Generations
<1>10. ASSUME NEW c \in Chats, rows[c] # NoRow, rows[c].account = account
       PROVE  rows[c].text = TextNow(account, c) \/ c \in outdated
  <2>1. CASE c \in VoiceChats
    <3>1. ~TextDue(c)
      BY <1>2, <1>7, <1>9 DEF TextDue
    <3>2. QED
      BY <1>3, <1>10, <2>1, <3>1 DEF Claims, RowText, OldText
  <2>2. CASE c \notin VoiceChats
    BY <1>10, <2>2 DEF TextInv, TextNow
  <2>3. QED
    BY <2>1, <2>2
<1>11. ASSUME NEW c \in Chats
       PROVE  IF c \in Entries(account, mode, query)
              THEN /\ rows[c] # NoRow /\ rows[c].account = account
                   /\ rows[c].version = version[account][c]
                   /\ rows[c].text = TextNow(account, c) \/ c \in outdated
              ELSE rows[c] = NoRow
  <2>1. rows[c] # NoRow <=> c \in Entries(account, mode, query)
    BY <1>6 DEF Listed
  <2>2. rows[c] # NoRow => /\ rows[c].account = account
                           /\ rows[c].version = version[account][c]
    BY <1>8 DEF Wrong
  <2>3. QED
    BY <1>10, <2>1, <2>2
<1>12. QED
  BY <1>11 DEF InSync

\* A list at rest shows what the core lists and says, each chat once asked for, whatever
\* searches, events, restarts and transcripts came between a refresh's reads; only what a
\* replaced first load has shown early may keep an older transcript.
THEOREM AtRestInSync == Spec => []SettledInSync
<1>1. RefreshInv => Shape
  BY Halves
<1>2. Spec => [](TypeInv /\ Shape /\ NoLostRefresh)
  BY <1>1, TypeInit, TypeStep, RefreshesCovered, NothingLost, PTL DEF Spec
<1>3. Init => Versions
  BY DEF Init, Versions, Had, NoRows
<1>4. TypeInv /\ TypeInv' /\ Shape /\ Versions /\ [Next]_vars => Versions'
  BY VersionsStep
<1>5. Spec => []Versions
  BY <1>2, <1>3, <1>4, PTL DEF Spec
<1>6. Init => TextInv /\ ClaimInv /\ SpentInv
  BY RestInit
<1>7. TypeInv /\ Shape /\ Versions /\ TextInv /\ ClaimInv /\ SpentInv /\ [Next]_vars
      => TextInv' /\ ClaimInv' /\ SpentInv'
  BY RestStep
<1>8. Spec => [](TextInv /\ ClaimInv /\ SpentInv)
  BY <1>2, <1>5, <1>6, <1>7, PTL DEF Spec
<1>9. TypeInv /\ Shape /\ NoLostRefresh /\ TextInv /\ ClaimInv => SettledInSync
  BY RestShows
<1>10. QED
  BY <1>2, <1>8, <1>9, PTL

=============================================================================
