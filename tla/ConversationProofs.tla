-------------------------- MODULE ConversationProofs --------------------------
(***************************************************************************)
(* Proofs about a conversation's page, for every chat, every order of      *)
(* events, answers and reloads, and any sizes of page, fill and margin:    *)
(* its marks (MarksInv), types (NowTyped, RestTyped) and rows (RowsInv),   *)
(* and what reads under way and events still owe them (DueInv).            *)
(***************************************************************************)
EXTENDS Conversation, FiniteSetTheorems, TLAPS

TaskKinds == {"open", "prefetch", "sync", "fill", "absorb", "one", "send", "remove", "act"}

\* Records of the right fields, whatever lists and items they hold.
IsTask(t) == t \in [kind : TaskKinds, phase : {t.phase}, fresh : BOOLEAN,
                    ids : {t.ids}, list : {t.list}, items : {t.items}]
IsPage(p) == p \in [rows : {p.rows}, loaded : {p.loaded}, pending : {p.pending}, fetches : {p.fetches},
                    syncing : BOOLEAN, syncAgain : BOOLEAN, refreshing : {p.refreshing},
                    refreshAgain : {p.refreshAgain}, sending : BOOLEAN]
IsState(s) == s \in [page : {s.page}, tasks : {s.tasks}, cache : {s.cache}]

Fresh(ts, kind_) == {t \in ts : t.kind = kind_ /\ t.fresh}
Sends(ts) == {t \in ts : t.kind = "send"}

\* Each mark of page p stands for just the reads S.
SyncTrue(p, S) == (p.syncing <=> S # {}) /\ \A t, u \in S : t = u
SendTrue(p, S) == (p.sending <=> S # {}) /\ \A t, u \in S : t = u
OneTrue(p, S) ==
    /\ \A t \in S : \E m \in p.refreshing : t.ids = {m}
    /\ \A m \in p.refreshing : \E t \in S : t.ids = {m}
    /\ \A t, u \in S : t.ids = u.ids => t = u
    /\ p.refreshAgain \subseteq p.refreshing
FillTrue(p, S) ==
    /\ \A t \in S : t.ids # {} /\ t.ids \subseteq p.pending
    /\ \A m \in p.pending : \E t \in S : m \in t.ids
    /\ \A t, u \in S : t # u => t.ids \cap u.ids = {}
    /\ IsFiniteSet(S) /\ p.fetches = Cardinality(S) /\ p.fetches <= IN_FLIGHT

Marks(p, ts) ==
    /\ SyncTrue(p, Fresh(ts, "sync")) /\ OneTrue(p, Fresh(ts, "one"))
    /\ FillTrue(p, Fresh(ts, "fill")) /\ SendTrue(p, Sends(ts))

\* The page, its tasks and the cache between two lines of a handler.
Good(s) == IsState(s) /\ IsPage(s.page) /\ (\A t \in s.tasks : IsTask(t)) /\ Marks(s.page, s.tasks)

\* At the end of one: no sync is asked for without one under way.
Settled(s) == Good(s) /\ (s.page.syncAgain => s.page.syncing)

\* Before the page is there, only prefetches are under way.
Unopened == ~open => page = NewPage /\ \A t \in tasks : t.kind = "prefetch"

MarksInv == Settled(Now) /\ Unopened

-----------------------------------------------------------------------------
(* Tasks that come, go and go on *)

LEMMA NoneFresh == ASSUME NEW p, p.fetches = 0, p.pending = {} PROVE FillTrue(p, {})
  BY FS_EmptySet, ConversationAssumption DEF FillTrue

\* Tasks that go on leave every mark true.
LEMMA GoOn ==
    ASSUME NEW p, NEW ts, Marks(p, ts), NEW G,
           \A t \in ts : /\ G[t].kind = t.kind /\ G[t].fresh = t.fresh
                         /\ t.kind \in {"one", "fill"} => G[t].ids = t.ids
    PROVE  Marks(p, {G[t] : t \in ts})
  <1> DEFINE new == {G[t] : t \in ts}
  <1>1. Sends(new) = {G[t] : t \in Sends(ts)}
    BY DEF Sends
  <1>2. \A kind_ : Fresh(new, kind_) = {G[t] : t \in Fresh(ts, kind_)}
    BY DEF Fresh
  <1> HIDE DEF new
  <1>3. SyncTrue(p, Fresh(new, "sync")) /\ SendTrue(p, Sends(new))
    BY <1>1, <1>2 DEF Marks, SyncTrue, SendTrue
  <1>4. OneTrue(p, Fresh(new, "one"))
    <2> DEFINE S == Fresh(ts, "one")
    <2>1. \A t \in S : G[t].ids = t.ids
      BY DEF Fresh
    <2>2. OneTrue(p, S)
      BY DEF Marks
    <2> HIDE DEF S
    <2>3. \A t, u \in S : G[t].ids = G[u].ids => G[t] = G[u]
      BY <2>1, <2>2 DEF OneTrue
    <2>4. ASSUME NEW m \in p.refreshing PROVE \E t \in S : G[t].ids = {m}
      <3>1. PICK t \in S : t.ids = {m}
        BY <2>2 DEF OneTrue
      <3>q. QED BY <2>1, <3>1
    <2>5. ASSUME NEW t \in S PROVE \E m \in p.refreshing : G[t].ids = {m}
      <3>1. PICK m \in p.refreshing : t.ids = {m}
        BY <2>2 DEF OneTrue
      <3>q. QED BY <2>1, <3>1
    <2>6. PICK T : T = {G[t] : t \in S}
      OBVIOUS
    <2>7. ASSUME NEW m \in p.refreshing PROVE \E t \in T : t.ids = {m}
      BY <2>4, <2>6
    <2>8. ASSUME NEW t \in T PROVE \E m \in p.refreshing : t.ids = {m}
      BY <2>5, <2>6
    <2>9. \A t, u \in T : t.ids = u.ids => t = u
      BY <2>3, <2>6
    <2>10. OneTrue(p, T)
      BY <2>2, <2>7, <2>8, <2>9 DEF OneTrue
    <2>q. QED BY <1>2, <2>6, <2>10 DEF S
  <1>5. FillTrue(p, Fresh(new, "fill"))
    <2> DEFINE S == Fresh(ts, "fill")
               T == {G[t] : t \in S}
               F == [t \in S |-> G[t]]
    <2>1. \A t \in S : G[t].ids = t.ids
      BY DEF Fresh
    <2>2. FillTrue(p, S)
      BY DEF Marks
    <2> HIDE DEF S
    <2>3. \A t, u \in S : G[t] = G[u] => t = u
      BY <2>1, <2>2 DEF FillTrue
    <2>4. F \in Bijection(S, T)
      BY <2>3 DEF Bijection, Injection, Surjection, IsInjective
    <2>5. IsFiniteSet(T) /\ Cardinality(T) = Cardinality(S)
      BY <2>2, <2>4, FS_Bijection DEF FillTrue, ExistsBijection
    <2>6. FillTrue(p, T)
      BY <2>1, <2>2, <2>5 DEF FillTrue
    <2>q. QED BY <1>2, <2>6 DEF S
  <1>q. QED BY <1>3, <1>4, <1>5 DEF Marks, new

\* A task that no mark stands for may come or go.
LEMMA Unmarked ==
    ASSUME NEW p, NEW ts, Marks(p, ts), NEW t,
           t.kind \notin {"sync", "one", "fill", "send"} \/ (t.kind # "send" /\ ~t.fresh)
    PROVE  Marks(p, ts \cup {t}) /\ Marks(p, ts \ {t})
  <1>1. \A kind_ \in {"sync", "one", "fill"} :
           Fresh(ts \cup {t}, kind_) = Fresh(ts, kind_) /\ Fresh(ts \ {t}, kind_) = Fresh(ts, kind_)
    BY DEF Fresh
  <1>2. Sends(ts \cup {t}) = Sends(ts) /\ Sends(ts \ {t}) = Sends(ts)
    BY DEF Sends
  <1>q. QED BY <1>1, <1>2 DEF Marks

\* What a new task is.
LEMMA New ==
    ASSUME NEW kind_ \in TaskKinds, NEW ids
    PROVE  /\ IsTask(NewTask(kind_, ids))
           /\ NewTask(kind_, ids).kind = kind_ /\ NewTask(kind_, ids).fresh
           /\ NewTask(kind_, ids).ids = ids
  BY DEF IsTask, NewTask

\* Started: a task more.
LEMMA StartedIs ==
    ASSUME NEW s, IsState(s), NEW t
    PROVE  /\ IsState(Started(s, t)) /\ Started(s, t).page = s.page
           /\ Started(s, t).tasks = s.tasks \cup {t} /\ Started(s, t).cache = s.cache
  BY DEF IsState, Started

\* Only its own marks count.
LEMMA SameOne ==
    ASSUME NEW p, NEW q, NEW S, OneTrue(p, S),
           q.refreshing = p.refreshing, q.refreshAgain = p.refreshAgain
    PROVE  OneTrue(q, S)
  <1>1. ASSUME NEW t \in S PROVE \E m \in q.refreshing : t.ids = {m}
    BY DEF OneTrue
  <1>2. ASSUME NEW m \in q.refreshing PROVE \E t \in S : t.ids = {m}
    BY DEF OneTrue
  <1>q. QED BY <1>1, <1>2 DEF OneTrue

\* Rows are no mark.
LEMMA RowsGood ==
    ASSUME NEW s, Good(s), NEW rows
    PROVE  /\ Good([s EXCEPT !.page.rows = rows])
           /\ [s EXCEPT !.page.rows = rows].page.syncAgain = s.page.syncAgain
           /\ [s EXCEPT !.page.rows = rows].page.syncing = s.page.syncing
  <1> DEFINE r == [s EXCEPT !.page.rows = rows]
  <1>1. IsState(r) /\ r.page = [s.page EXCEPT !.rows = rows] /\ r.tasks = s.tasks
    BY DEF Good, IsState
  <1>2. /\ IsPage(r.page) /\ r.page.pending = s.page.pending /\ r.page.fetches = s.page.fetches
        /\ r.page.syncing = s.page.syncing /\ r.page.syncAgain = s.page.syncAgain
        /\ r.page.refreshing = s.page.refreshing /\ r.page.refreshAgain = s.page.refreshAgain
        /\ r.page.sending = s.page.sending
    BY <1>1 DEF Good, IsPage
  <1> HIDE DEF r
  <1>3. Marks(r.page, r.tasks)
    <2>1. SyncTrue(r.page, Fresh(r.tasks, "sync")) /\ SendTrue(r.page, Sends(r.tasks))
      BY <1>1, <1>2 DEF Good, Marks, SyncTrue, SendTrue
    <2>2. OneTrue(r.page, Fresh(r.tasks, "one"))
      <3> DEFINE S == Fresh(s.tasks, "one")
      <3>1. OneTrue(s.page, S)
        BY DEF Good, Marks
      <3> HIDE DEF S
      <3>2. OneTrue(r.page, S)
        BY <1>2, <3>1, SameOne
      <3>q. QED BY <1>1, <3>2 DEF S
    <2>3. FillTrue(r.page, Fresh(r.tasks, "fill"))
      BY <1>1, <1>2 DEF Good, Marks, FillTrue
    <2>q. QED BY <2>1, <2>2, <2>3 DEF Marks
  <1>q. QED BY <1>1, <1>2, <1>3 DEF Good, r

LEMMA StartGood ==
    ASSUME NEW s, Good(s), NEW kind_ \in {"open", "absorb", "remove", "act", "prefetch"}, NEW ids
    PROVE  /\ Good(Started(s, NewTask(kind_, ids)))
           /\ Started(s, NewTask(kind_, ids)).page = s.page
  <1>1. PICK t : /\ t = NewTask(kind_, ids) /\ IsTask(t)
                 /\ t.kind \notin {"sync", "one", "fill", "send"}
    BY New DEF TaskKinds
  <1>2. /\ IsState(Started(s, t)) /\ Started(s, t).page = s.page
        /\ Started(s, t).tasks = s.tasks \cup {t}
    BY StartedIs DEF Good
  <1>3. Marks(s.page, s.tasks \cup {t})
    BY <1>1, Unmarked DEF Good
  <1>q. QED BY <1>1, <1>2, <1>3 DEF Good

\* reload: its marks are down, and nothing of its generation is under way.
LEMMA ReloadGood ==
    ASSUME NEW s, IsState(s), IsPage(s.page), \A t \in s.tasks : IsTask(t),
           SendTrue(s.page, Sends(s.tasks))
    PROVE  Settled(Reload(s)) /\ ~Reload(s).page.syncAgain
  <1> DEFINE reset == [s.page EXCEPT !.pending = {}, !.fetches = 0, !.syncing = FALSE,
                                     !.syncAgain = FALSE, !.refreshing = {}, !.refreshAgain = {}]
             Aged(t) == IF t.kind \in {"open", "sync", "fill", "one"} THEN [t EXCEPT !.fresh = FALSE]
                       ELSE t
             old == {Aged(t) : t \in s.tasks}
  <1>1. /\ IsPage(reset) /\ reset.pending = {} /\ reset.fetches = 0 /\ ~reset.syncing
        /\ ~reset.syncAgain /\ reset.refreshing = {} /\ reset.refreshAgain = {}
        /\ reset.sending = s.page.sending
    BY DEF IsPage
  <1>2. ASSUME NEW t \in s.tasks
        PROVE  /\ IsTask(Aged(t)) /\ Aged(t).kind = t.kind
               /\ t.kind \in {"sync", "fill", "one"} => ~Aged(t).fresh
               /\ t.kind = "send" => Aged(t) = t
    BY DEF IsTask
  <1> HIDE DEF Aged
  <1>3. /\ \A t \in old : IsTask(t)
        /\ Fresh(old, "sync") = {} /\ Fresh(old, "fill") = {} /\ Fresh(old, "one") = {}
    BY <1>2 DEF Fresh
  <1>4. Sends(old) = Sends(s.tasks)
    BY <1>2 DEF Sends
  <1> HIDE DEF old, reset
  <1>5. ASSUME NEW p, IsPage(p), p.pending = {}, p.fetches = 0, ~p.syncing, ~p.syncAgain,
               p.refreshing = {}, p.refreshAgain = {}, p.sending = s.page.sending
        PROVE  Marks(p, old)
    BY <1>3, <1>4, <1>5, NoneFresh DEF Marks, SyncTrue, OneTrue, SendTrue
  <1>6. CASE s.cache = {}
    <2>1. PICK r : r = [s EXCEPT !.page = reset, !.tasks = old]
      OBVIOUS
    <2>2. IsState(r) /\ r.page = reset /\ r.tasks = old
      BY <2>1 DEF IsState
    <2>3. Good(r)
      BY <1>1, <1>3, <1>5, <2>2 DEF Good
    <2>4. Reload(s) = Started(r, NewTask("open", {}))
      BY <1>6, <2>1 DEF Reload, reset, old, Aged
    <2>q. QED BY <1>1, <2>2, <2>3, <2>4, StartGood DEF Settled
  <1>7. CASE s.cache # {}
    <2>1. PICK rows : Reload(s) = [page |-> [reset EXCEPT !.rows = rows, !.loaded = TRUE],
                                   tasks |-> old, cache |-> {}]
      BY <1>7 DEF Reload, reset, old, Aged
    <2>2. PICK p : p = [reset EXCEPT !.rows = rows, !.loaded = TRUE]
      OBVIOUS
    <2>3. /\ IsPage(p) /\ p.pending = {} /\ p.fetches = 0 /\ ~p.syncing /\ ~p.syncAgain
          /\ p.refreshing = {} /\ p.refreshAgain = {} /\ p.sending = s.page.sending
      BY <1>1, <2>2 DEF IsPage
    <2>4. Reload(s).page = p /\ Reload(s).tasks = old /\ IsState(Reload(s))
      BY <2>1, <2>2 DEF IsState
    <2>q. QED BY <1>3, <1>5, <2>3, <2>4 DEF Settled, Good
  <1>q. QED BY <1>6, <1>7

LEMMA SameMarks ==
    ASSUME NEW p, NEW q, NEW ts, Marks(p, ts), q.pending = p.pending, q.fetches = p.fetches,
           q.refreshing = p.refreshing, q.refreshAgain = p.refreshAgain,
           q.syncing = p.syncing, q.sending = p.sending
    PROVE  Marks(q, ts)
  <1>1. SyncTrue(q, Fresh(ts, "sync")) /\ SendTrue(q, Sends(ts))
    BY DEF Marks, SyncTrue, SendTrue
  <1>2. OneTrue(p, Fresh(ts, "one")) /\ FillTrue(p, Fresh(ts, "fill"))
    BY DEF Marks
  <1>3. OneTrue(q, Fresh(ts, "one"))
    BY <1>2, SameOne
  <1>4. FillTrue(q, Fresh(ts, "fill"))
    BY <1>2 DEF FillTrue
  <1>q. QED BY <1>1, <1>3, <1>4 DEF Marks

\* A flag of the page, set or taken.
LEMMA AgainGood ==
    ASSUME NEW s, Good(s), NEW b \in BOOLEAN
    PROVE  /\ Good([s EXCEPT !.page.syncAgain = b])
           /\ [s EXCEPT !.page.syncAgain = b].page.syncAgain = b
           /\ [s EXCEPT !.page.syncAgain = b].page.syncing = s.page.syncing
  <1> DEFINE r == [s EXCEPT !.page.syncAgain = b]
  <1>1. IsState(r) /\ r.page = [s.page EXCEPT !.syncAgain = b] /\ r.tasks = s.tasks
    BY DEF Good, IsState
  <1>2. /\ IsPage(r.page) /\ r.page.pending = s.page.pending /\ r.page.fetches = s.page.fetches
        /\ r.page.syncing = s.page.syncing /\ r.page.syncAgain = b
        /\ r.page.refreshing = s.page.refreshing /\ r.page.refreshAgain = s.page.refreshAgain
        /\ r.page.sending = s.page.sending
    BY <1>1 DEF Good, IsPage
  <1> HIDE DEF r
  <1>3. Marks(r.page, r.tasks)
    BY <1>1, <1>2, SameMarks DEF Good
  <1>q. QED BY <1>1, <1>2, <1>3 DEF Good, r

\* sync_rows.
LEMMA SyncRowsGood == ASSUME NEW s, Good(s) PROVE Settled(SyncRows(s))
  <1>1. CASE s.page.syncing
    <2>1. SyncRows(s) = [s EXCEPT !.page.syncAgain = TRUE]
      BY <1>1 DEF SyncRows
    <2>q. QED BY <1>1, <2>1, AgainGood DEF Settled
  <1>2. CASE ~s.page.syncing
    <2>1. PICK r, t : r = [s EXCEPT !.page.syncing = TRUE] /\ t = NewTask("sync", {})
      OBVIOUS
    <2>2. IsState(r) /\ r.page = [s.page EXCEPT !.syncing = TRUE] /\ r.tasks = s.tasks
      BY <2>1 DEF Good, IsState
    <2>3. /\ IsPage(r.page) /\ r.page.pending = s.page.pending /\ r.page.fetches = s.page.fetches
          /\ r.page.syncing /\ r.page.refreshing = s.page.refreshing
          /\ r.page.refreshAgain = s.page.refreshAgain /\ r.page.sending = s.page.sending
      BY <2>2 DEF Good, IsPage
    <2>4. IsTask(t) /\ t.kind = "sync" /\ t.fresh
      BY <2>1, New DEF TaskKinds
    <2>e. SyncRows(s) = Started(r, t)
      BY <1>2, <2>1 DEF SyncRows
    <2>5. /\ IsState(Started(r, t)) /\ Started(r, t).page = r.page
          /\ Started(r, t).tasks = s.tasks \cup {t}
      BY <2>2, StartedIs
    <2> DEFINE ts == s.tasks \cup {t}
    <2>6. /\ Fresh(ts, "sync") = Fresh(s.tasks, "sync") \cup {t} /\ Fresh(ts, "one") = Fresh(s.tasks, "one")
          /\ Fresh(ts, "fill") = Fresh(s.tasks, "fill") /\ Sends(ts) = Sends(s.tasks)
      BY <2>4 DEF Fresh, Sends
    <2>7. Fresh(s.tasks, "sync") = {}
      BY <1>2 DEF Good, Marks, SyncTrue
    <2> HIDE DEF ts
    <2>8. SyncTrue(r.page, Fresh(ts, "sync")) /\ SendTrue(r.page, Sends(ts))
      BY <2>3, <2>6, <2>7 DEF Good, Marks, SyncTrue, SendTrue
    <2>9. OneTrue(s.page, Fresh(ts, "one")) /\ FillTrue(s.page, Fresh(ts, "fill"))
      BY <2>6 DEF Good, Marks
    <2>10. OneTrue(r.page, Fresh(ts, "one"))
      BY <2>3, <2>9, SameOne
    <2>11. FillTrue(r.page, Fresh(ts, "fill"))
      BY <2>3, <2>9 DEF FillTrue
    <2>12. Marks(r.page, ts)
      BY <2>8, <2>10, <2>11 DEF Marks
    <2>q. QED BY <2>e, <2>3, <2>4, <2>5, <2>12 DEF Settled, Good, ts
  <1>q. QED BY <1>1, <1>2

\* What refresh_one leaves.
Refreshed(s, r) ==
    Good(r) /\ r.page.syncAgain = s.page.syncAgain /\ r.page.syncing = s.page.syncing

LEMMA RefreshOneGood == ASSUME NEW s, Good(s), NEW m PROVE Refreshed(s, RefreshOne(s, m))
  <1>1. CASE ~HasRow(s.page.rows, m)
    BY <1>1 DEF RefreshOne, Refreshed
  <1>2. CASE HasRow(s.page.rows, m) /\ m \in s.page.refreshing
    <2>1. PICK r : r = [s EXCEPT !.page.refreshAgain = @ \cup {m}]
      OBVIOUS
    <2>2. /\ IsState(r) /\ r.page = [s.page EXCEPT !.refreshAgain = @ \cup {m}]
          /\ r.tasks = s.tasks
      BY <2>1 DEF Good, IsState
    <2>3. /\ IsPage(r.page) /\ r.page.pending = s.page.pending /\ r.page.fetches = s.page.fetches
          /\ r.page.syncing = s.page.syncing /\ r.page.syncAgain = s.page.syncAgain
          /\ r.page.refreshing = s.page.refreshing
          /\ r.page.refreshAgain = s.page.refreshAgain \cup {m} /\ r.page.sending = s.page.sending
      BY <2>2 DEF Good, IsPage
    <2>4. SyncTrue(r.page, Fresh(s.tasks, "sync")) /\ SendTrue(r.page, Sends(s.tasks))
      BY <2>3 DEF Good, Marks, SyncTrue, SendTrue
    <2>5. FillTrue(r.page, Fresh(s.tasks, "fill"))
      BY <2>3 DEF Good, Marks, FillTrue
    <2> DEFINE S == Fresh(s.tasks, "one")
    <2>6. OneTrue(s.page, S)
      BY DEF Good, Marks
    <2> HIDE DEF S
    <2>7. ASSUME NEW t \in S PROVE \E k \in r.page.refreshing : t.ids = {k}
      BY <2>3, <2>6 DEF OneTrue
    <2>8. ASSUME NEW k \in r.page.refreshing PROVE \E t \in S : t.ids = {k}
      BY <2>3, <2>6 DEF OneTrue
    <2>9. r.page.refreshAgain \subseteq r.page.refreshing
      BY <1>2, <2>3, <2>6 DEF OneTrue
    <2>10. OneTrue(r.page, S)
      BY <2>6, <2>7, <2>8, <2>9 DEF OneTrue
    <2>11. Good(r)
      BY <2>2, <2>3, <2>4, <2>5, <2>10 DEF Good, Marks, S
    <2>q. QED BY <1>2, <2>1, <2>3, <2>11 DEF RefreshOne, Refreshed
  <1>3. CASE HasRow(s.page.rows, m) /\ m \notin s.page.refreshing
    <2>1. PICK r, t : r = [s EXCEPT !.page.refreshing = @ \cup {m}] /\ t = NewTask("one", {m})
      OBVIOUS
    <2>2. /\ IsState(r) /\ r.page = [s.page EXCEPT !.refreshing = @ \cup {m}]
          /\ r.tasks = s.tasks
      BY <2>1 DEF Good, IsState
    <2>3. /\ IsPage(r.page) /\ r.page.pending = s.page.pending /\ r.page.fetches = s.page.fetches
          /\ r.page.syncing = s.page.syncing /\ r.page.syncAgain = s.page.syncAgain
          /\ r.page.refreshing = s.page.refreshing \cup {m}
          /\ r.page.refreshAgain = s.page.refreshAgain /\ r.page.sending = s.page.sending
      BY <2>2 DEF Good, IsPage
    <2>4. IsTask(t) /\ t.kind = "one" /\ t.fresh /\ t.ids = {m}
      BY <2>1, New DEF TaskKinds
    <2>e. RefreshOne(s, m) = Started(r, t)
      BY <1>3, <2>1 DEF RefreshOne
    <2>5. /\ IsState(Started(r, t)) /\ Started(r, t).page = r.page
          /\ Started(r, t).tasks = s.tasks \cup {t}
      BY <2>2, StartedIs
    <2> DEFINE ts == s.tasks \cup {t}
               S  == Fresh(s.tasks, "one")
    <2>6. /\ Fresh(ts, "sync") = Fresh(s.tasks, "sync") /\ Fresh(ts, "one") = S \cup {t}
          /\ Fresh(ts, "fill") = Fresh(s.tasks, "fill") /\ Sends(ts) = Sends(s.tasks)
      BY <2>4 DEF Fresh, Sends
    <2>7. OneTrue(s.page, S)
      BY DEF Good, Marks
    <2> HIDE DEF ts, S
    <2>8. ASSUME NEW u \in S PROVE \E k \in r.page.refreshing : u.ids = {k} /\ k # m
      BY <1>3, <2>3, <2>7 DEF OneTrue
    <2>9. ASSUME NEW k \in r.page.refreshing PROVE \E u \in S \cup {t} : u.ids = {k}
      <3>1. CASE k = m
        BY <2>4, <3>1
      <3>2. CASE k \in s.page.refreshing
        BY <2>7, <3>2 DEF OneTrue
      <3>q. QED BY <2>3, <3>1, <3>2
    <2>10. ASSUME NEW u \in S \cup {t}, NEW v \in S \cup {t}, u.ids = v.ids PROVE u = v
      <3>1. \A w \in S : w.ids # {m}
        BY <2>8
      <3>q. QED BY <2>4, <2>7, <2>10, <3>1 DEF OneTrue
    <2>11. m \in r.page.refreshing /\ r.page.refreshAgain \subseteq r.page.refreshing
      BY <2>3, <2>7 DEF OneTrue
    <2>12. OneTrue(r.page, S \cup {t})
      BY <2>4, <2>8, <2>9, <2>10, <2>11 DEF OneTrue
    <2>13. SyncTrue(r.page, Fresh(ts, "sync")) /\ SendTrue(r.page, Sends(ts))
      BY <2>3, <2>6 DEF Good, Marks, SyncTrue, SendTrue
    <2>14. FillTrue(r.page, Fresh(ts, "fill"))
      BY <2>3, <2>6 DEF Good, Marks, FillTrue
    <2>15. Marks(r.page, ts)
      BY <2>6, <2>12, <2>13, <2>14 DEF Marks
    <2>q. QED BY <2>e, <2>3, <2>4, <2>5, <2>15 DEF Good, Refreshed, ts
  <1>q. QED BY <1>1, <1>2, <1>3

\* synced.
LEMMA SyncedGood == ASSUME NEW s, Good(s), NEW ids PROVE Good(Synced(s, ids))
  <1>1. \/ Synced(s, ids) = Reload(s)
        \/ \E rows : Synced(s, ids) = [s EXCEPT !.page.rows = rows]
        \/ \E rows, arrived : Synced(s, ids) = Started([s EXCEPT !.page.rows = rows], NewTask("absorb", arrived))
    BY DEF Synced
  <1>2. Good(Reload(s))
    BY ReloadGood DEF Good, Marks, Settled
  <1>3. ASSUME NEW rows, NEW arrived
        PROVE  /\ Good([s EXCEPT !.page.rows = rows])
               /\ Good(Started([s EXCEPT !.page.rows = rows], NewTask("absorb", arrived)))
    <2>1. PICK r : r = [s EXCEPT !.page.rows = rows]
      OBVIOUS
    <2>2. Good(r)
      BY <2>1, RowsGood
    <2>3. Good(Started(r, NewTask("absorb", arrived)))
      BY <2>2, StartGood
    <2>q. QED BY <2>1, <2>2, <2>3
  <1>q. QED BY <1>1, <1>2, <1>3

-----------------------------------------------------------------------------
(* Answers landing *)

\* A page with the same marks is as good.
LEMMA SameGood ==
    ASSUME NEW s, Settled(s), NEW r, IsState(r), r.tasks = s.tasks, IsPage(r.page),
           r.page.pending = s.page.pending, r.page.fetches = s.page.fetches,
           r.page.refreshing = s.page.refreshing, r.page.refreshAgain = s.page.refreshAgain,
           r.page.syncing = s.page.syncing, r.page.syncAgain = s.page.syncAgain,
           r.page.sending = s.page.sending
    PROVE  Settled(r)
  <1>1. Marks(r.page, r.tasks)
    BY SameMarks DEF Settled, Good
  <1>q. QED BY <1>1 DEF Settled, Good

\* The answer t is taken off: s is what is left.
TakenOff(s, t) ==
    /\ IsState(s) /\ s.page = page /\ s.tasks = tasks \ {t}
    /\ IsPage(s.page) /\ \A u \in s.tasks : IsTask(u)
    /\ t \in tasks /\ IsTask(t)

LEMMA Off ==
    ASSUME Settled(Now), NEW t \in tasks
    PROVE  TakenOff([Now EXCEPT !.tasks = @ \ {t}], t)
  <1>1. IsPage(page) /\ \A u \in tasks : IsTask(u)
    BY DEF Settled, Good, Now
  <1>q. QED BY <1>1 DEF TakenOff, IsState, Now

\* No mark stands for it: nothing is to be done.
LEMMA OffUnmarked ==
    ASSUME Settled(Now), NEW t, NEW s, TakenOff(s, t),
           t.kind \notin {"sync", "one", "fill", "send"} \/ (t.kind # "send" /\ ~t.fresh)
    PROVE  Settled(s)
  <1>1. Marks(page, tasks) /\ (page.syncAgain => page.syncing)
    BY DEF Settled, Good, Now
  <1>2. Marks(page, tasks \ {t})
    BY <1>1, Unmarked
  <1>q. QED BY <1>1, <1>2 DEF Settled, Good, TakenOff

LEMMA RowsSettled == ASSUME NEW s, Settled(s), NEW rows PROVE Settled([s EXCEPT !.page.rows = rows])
  BY RowsGood DEF Settled

LEMMA OpenLands ==
    ASSUME Settled(Now), NEW t, NEW s, TakenOff(s, t), t.kind = "open"
    PROVE  Settled(OpenLanded(s, t))
  <1>1. Settled(s)
    BY OffUnmarked
  <1>2. PICK r : r = OpenLanded(s, t)
    OBVIOUS
  <1>3. /\ IsState(r) /\ r.tasks = s.tasks
        /\ \/ r.page = [s.page EXCEPT !.loaded = TRUE]
           \/ r.page = [s.page EXCEPT !.loaded = TRUE, !.rows = RowsFor(t.list, t.items)]
    BY <1>1, <1>2 DEF OpenLanded, Settled, Good, IsState
  <1>4. /\ IsPage(r.page) /\ r.page.pending = s.page.pending /\ r.page.fetches = s.page.fetches
        /\ r.page.syncing = s.page.syncing /\ r.page.syncAgain = s.page.syncAgain
        /\ r.page.refreshing = s.page.refreshing /\ r.page.refreshAgain = s.page.refreshAgain
        /\ r.page.sending = s.page.sending
    BY <1>1, <1>3 DEF Settled, Good, IsPage
  <1>5. Settled(r)
    BY <1>1, <1>3, <1>4, SameGood
  <1>q. QED BY <1>2, <1>5

\* A sync lands: its mark is taken, its rows are in, and one more is asked for if it was told of.
LEMMA SyncLands ==
    ASSUME Settled(Now), NEW t, NEW s, TakenOff(s, t), t.kind = "sync"
    PROVE  Settled(SyncLanded(s, t))
  <1>1. CASE ~t.fresh
    <2>1. Settled(s)
      BY <1>1, OffUnmarked
    <2>q. QED BY <1>1, <2>1 DEF SyncLanded
  <1>2. CASE t.fresh
    <2>1. PICK told : told = [s EXCEPT !.page.syncing = FALSE]
      OBVIOUS
    <2>2. IsState(told) /\ told.page = [page EXCEPT !.syncing = FALSE] /\ told.tasks = tasks \ {t}
      BY <2>1 DEF TakenOff, IsState
    <2>3. /\ IsPage(told.page) /\ told.page.pending = page.pending /\ told.page.fetches = page.fetches
          /\ ~told.page.syncing /\ told.page.refreshing = page.refreshing
          /\ told.page.refreshAgain = page.refreshAgain /\ told.page.sending = page.sending
      BY <2>2 DEF TakenOff, IsPage
    <2>4. Marks(page, tasks)
      BY DEF Settled, Good, Now
    <2> DEFINE ts == tasks \ {t}
    <2>5. /\ Fresh(ts, "sync") = Fresh(tasks, "sync") \ {t} /\ Fresh(ts, "one") = Fresh(tasks, "one")
          /\ Fresh(ts, "fill") = Fresh(tasks, "fill") /\ Sends(ts) = Sends(tasks)
          /\ t \in Fresh(tasks, "sync")
      BY <1>2 DEF Fresh, Sends, TakenOff
    <2> HIDE DEF ts
    <2>6. Fresh(ts, "sync") = {}
      BY <2>4, <2>5 DEF Marks, SyncTrue
    <2>7. SyncTrue(told.page, Fresh(ts, "sync")) /\ SendTrue(told.page, Sends(ts))
      BY <2>3, <2>4, <2>5, <2>6 DEF Marks, SyncTrue, SendTrue
    <2>8. OneTrue(page, Fresh(ts, "one")) /\ FillTrue(page, Fresh(ts, "fill"))
      BY <2>4, <2>5 DEF Marks
    <2>9. OneTrue(told.page, Fresh(ts, "one"))
      BY <2>3, <2>8, SameOne
    <2>10. FillTrue(told.page, Fresh(ts, "fill"))
      BY <2>3, <2>8 DEF FillTrue
    <2>11. Good(told)
      BY <2>2, <2>3, <2>7, <2>9, <2>10 DEF Good, Marks, TakenOff, ts
    <2>12. PICK in_ : in_ = IF t.phase = "failed" THEN told ELSE Synced(told, t.list)
      OBVIOUS
    <2>13. Good(in_)
      BY <2>11, <2>12, SyncedGood
    <2>14. PICK once : once = [in_ EXCEPT !.page.syncAgain = FALSE]
      OBVIOUS
    <2>15. Settled(once) /\ Settled(SyncRows(once))
      BY <2>13, <2>14, AgainGood, SyncRowsGood DEF Settled
    <2>16. SyncLanded(s, t) = IF in_.page.syncAgain THEN SyncRows(once) ELSE once
      BY <1>2, <2>1, <2>12, <2>14 DEF SyncLanded
    <2>q. QED BY <2>15, <2>16
  <1>q. QED BY <1>1, <1>2

\* A fill lands: it counts, unless another generation asked for it.
LEMMA FillLands ==
    ASSUME Settled(Now), NEW t, NEW s, TakenOff(s, t), t.kind = "fill"
    PROVE  Settled(FillLanded(s, t))
  <1>1. CASE ~t.fresh
    <2>1. Settled(s)
      BY <1>1, OffUnmarked
    <2>q. QED BY <1>1, <2>1 DEF FillLanded
  <1>2. CASE t.fresh
    <2>1. PICK r : r = FillLanded(s, t)
      OBVIOUS
    <2>2. /\ IsState(r) /\ r.tasks = tasks \ {t}
          /\ r.page = [page EXCEPT !.pending = @ \ t.ids, !.fetches = @ - 1,
                                   !.rows = Filled(@, t.items)]
      BY <1>2, <2>1 DEF TakenOff, IsState, FillLanded
    <2>3. /\ IsPage(r.page) /\ r.page.pending = page.pending \ t.ids
          /\ r.page.fetches = page.fetches - 1 /\ r.page.syncing = page.syncing
          /\ r.page.syncAgain = page.syncAgain /\ r.page.refreshing = page.refreshing
          /\ r.page.refreshAgain = page.refreshAgain /\ r.page.sending = page.sending
      BY <2>2 DEF TakenOff, IsPage
    <2>4. Marks(page, tasks)
      BY DEF Settled, Good, Now
    <2> DEFINE ts == tasks \ {t}
               S  == Fresh(tasks, "fill")
    <2>5. /\ Fresh(ts, "sync") = Fresh(tasks, "sync") /\ Fresh(ts, "one") = Fresh(tasks, "one")
          /\ Fresh(ts, "fill") = S \ {t} /\ Sends(ts) = Sends(tasks)
          /\ t \in S
      BY <1>2 DEF Fresh, Sends, TakenOff
    <2>6. FillTrue(page, S)
      BY <2>4 DEF Marks
    <2> HIDE DEF ts, S
    <2>7. SyncTrue(r.page, Fresh(ts, "sync")) /\ SendTrue(r.page, Sends(ts))
      BY <2>3, <2>4, <2>5 DEF Marks, SyncTrue, SendTrue
    <2>8. OneTrue(r.page, Fresh(ts, "one"))
      <3>1. OneTrue(page, Fresh(ts, "one"))
        BY <2>4, <2>5 DEF Marks
      <3>q. QED BY <2>3, <3>1, SameOne
    <2>9. FillTrue(r.page, S \ {t})
      <3>1. IsFiniteSet(S \ {t}) /\ Cardinality(S \ {t}) = Cardinality(S) - 1 /\ Cardinality(S) \in Nat
        BY <2>5, <2>6, FS_RemoveElement, FS_CardinalityType DEF FillTrue
      <3>2. r.page.fetches = Cardinality(S \ {t}) /\ r.page.fetches <= IN_FLIGHT
        BY <2>3, <2>6, <3>1, ConversationAssumption DEF FillTrue
      <3>3. ASSUME NEW u \in S \ {t} PROVE u.ids # {} /\ u.ids \subseteq r.page.pending
        BY <2>3, <2>5, <2>6 DEF FillTrue
      <3>4. ASSUME NEW m \in r.page.pending PROVE \E u \in S \ {t} : m \in u.ids
        BY <2>3, <2>5, <2>6 DEF FillTrue
      <3>q. QED BY <2>6, <3>1, <3>2, <3>3, <3>4 DEF FillTrue
    <2>10. Marks(r.page, ts)
      BY <2>5, <2>7, <2>8, <2>9 DEF Marks
    <2>11. Settled(r)
      BY <2>2, <2>3, <2>10 DEF Settled, Good, Now, TakenOff, ts
    <2>q. QED BY <2>1, <2>11
  <1>q. QED BY <1>1, <1>2

\* The read of a row lands, and another is asked for if it was told of.
LEMMA OneLands ==
    ASSUME Settled(Now), NEW t, NEW s, TakenOff(s, t), t.kind = "one"
    PROVE  Settled(OneLanded(s, t))
  <1>1. CASE ~t.fresh
    <2>1. Settled(s)
      BY <1>1, OffUnmarked
    <2>2. OneLanded(s, t) = [s EXCEPT !.page.rows = Filled(@, t.items)]
      BY <1>1 DEF OneLanded
    <2>3. Settled([s EXCEPT !.page.rows = Filled(s.page.rows, t.items)])
      BY <2>1, RowsSettled
    <2>q. QED BY <2>2, <2>3 DEF TakenOff, IsState
  <1>2. CASE t.fresh
    <2>1. PICK told : told = [s EXCEPT !.page.refreshing = @ \ t.ids, !.page.refreshAgain = @ \ t.ids]
      OBVIOUS
    <2>2. /\ IsState(told) /\ told.tasks = tasks \ {t}
          /\ told.page = [page EXCEPT !.refreshing = @ \ t.ids, !.refreshAgain = @ \ t.ids]
      BY <2>1 DEF TakenOff, IsState
    <2>3. /\ IsPage(told.page) /\ told.page.pending = page.pending /\ told.page.fetches = page.fetches
          /\ told.page.syncing = page.syncing /\ told.page.syncAgain = page.syncAgain
          /\ told.page.refreshing = page.refreshing \ t.ids
          /\ told.page.refreshAgain = page.refreshAgain \ t.ids /\ told.page.sending = page.sending
      BY <2>2 DEF TakenOff, IsPage
    <2>4. Marks(page, tasks) /\ (page.syncAgain => page.syncing)
      BY DEF Settled, Good, Now
    <2> DEFINE ts == tasks \ {t}
               S  == Fresh(tasks, "one")
    <2>5. /\ Fresh(ts, "sync") = Fresh(tasks, "sync") /\ Fresh(ts, "one") = S \ {t}
          /\ Fresh(ts, "fill") = Fresh(tasks, "fill") /\ Sends(ts) = Sends(tasks)
          /\ t \in S
      BY <1>2 DEF Fresh, Sends, TakenOff
    <2>6. OneTrue(page, S)
      BY <2>4 DEF Marks
    <2> HIDE DEF ts, S
    <2>7. PICK m \in page.refreshing : t.ids = {m}
      BY <2>5, <2>6 DEF OneTrue
    <2>8. SyncTrue(told.page, Fresh(ts, "sync")) /\ SendTrue(told.page, Sends(ts))
      BY <2>3, <2>4, <2>5 DEF Marks, SyncTrue, SendTrue
    <2>9. FillTrue(told.page, Fresh(ts, "fill"))
      BY <2>3, <2>4, <2>5 DEF Marks, FillTrue
    <2>10. OneTrue(told.page, S \ {t})
      <3>1. ASSUME NEW u \in S \ {t} PROVE \E k \in told.page.refreshing : u.ids = {k}
        <4>1. PICK k \in page.refreshing : u.ids = {k}
          BY <2>6 DEF OneTrue
        <4>2. u.ids # t.ids
          BY <2>5, <2>6 DEF OneTrue
        <4>3. k # m
          BY <2>7, <4>1, <4>2
        <4>q. QED BY <2>3, <2>7, <4>1, <4>3
      <3>2. ASSUME NEW k \in told.page.refreshing PROVE \E u \in S \ {t} : u.ids = {k}
        <4>1. k \in page.refreshing /\ k # m
          BY <2>3, <2>7
        <4>2. PICK u \in S : u.ids = {k}
          BY <2>6, <4>1 DEF OneTrue
        <4>3. u # t
          BY <2>7, <4>1, <4>2
        <4>q. QED BY <4>2, <4>3
      <3>3. told.page.refreshAgain \subseteq told.page.refreshing
        BY <2>3, <2>6 DEF OneTrue
      <3>q. QED BY <2>6, <3>1, <3>2, <3>3 DEF OneTrue
    <2>11. Marks(told.page, ts)
      BY <2>5, <2>8, <2>9, <2>10 DEF Marks
    <2>12. Settled(told)
      BY <2>2, <2>3, <2>4, <2>11 DEF Settled, Good, TakenOff, ts
    <2>13. PICK again : /\ again = told \/ \E k : again = RefreshOne(told, k)
                        /\ OneLanded(s, t) = [again EXCEPT !.page.rows = Filled(@, t.items)]
      BY <1>2, <2>1 DEF OneLanded
    <2>14. Settled(again)
      BY <2>12, <2>13, RefreshOneGood DEF Settled, Refreshed
    <2>15. Settled([again EXCEPT !.page.rows = Filled(again.page.rows, t.items)])
      BY <2>14, RowsSettled
    <2>q. QED BY <2>13, <2>14, <2>15 DEF Settled, Good, IsState
  <1>q. QED BY <1>1, <1>2

\* What was sent is placed.
LEMMA SendLands ==
    ASSUME Settled(Now), NEW t, NEW s, TakenOff(s, t), t.kind = "send"
    PROVE  Settled(SendLanded(s, t))
  <1>1. PICK free : free = [s EXCEPT !.page.sending = FALSE]
    OBVIOUS
  <1>2. IsState(free) /\ free.page = [page EXCEPT !.sending = FALSE] /\ free.tasks = tasks \ {t}
    BY <1>1 DEF TakenOff, IsState
  <1>3. /\ IsPage(free.page) /\ free.page.pending = page.pending /\ free.page.fetches = page.fetches
        /\ free.page.syncing = page.syncing /\ free.page.syncAgain = page.syncAgain
        /\ free.page.refreshing = page.refreshing
        /\ free.page.refreshAgain = page.refreshAgain /\ ~free.page.sending
    BY <1>2 DEF TakenOff, IsPage
  <1>4. Marks(page, tasks) /\ (page.syncAgain => page.syncing)
    BY DEF Settled, Good, Now
  <1> DEFINE ts == tasks \ {t}
  <1>5. /\ Fresh(ts, "sync") = Fresh(tasks, "sync") /\ Fresh(ts, "one") = Fresh(tasks, "one")
        /\ Fresh(ts, "fill") = Fresh(tasks, "fill") /\ Sends(ts) = Sends(tasks) \ {t}
        /\ t \in Sends(tasks)
    BY DEF Fresh, Sends, TakenOff
  <1> HIDE DEF ts
  <1>6. Sends(ts) = {}
    BY <1>4, <1>5 DEF Marks, SendTrue
  <1>7. SyncTrue(free.page, Fresh(ts, "sync")) /\ SendTrue(free.page, Sends(ts))
    BY <1>3, <1>4, <1>5, <1>6 DEF Marks, SyncTrue, SendTrue
  <1>8. OneTrue(page, Fresh(ts, "one")) /\ FillTrue(page, Fresh(ts, "fill"))
    BY <1>4, <1>5 DEF Marks
  <1>9. OneTrue(free.page, Fresh(ts, "one"))
    BY <1>3, <1>8, SameOne
  <1>10. FillTrue(free.page, Fresh(ts, "fill"))
    BY <1>3, <1>8 DEF FillTrue
  <1>11. Settled(free)
    BY <1>2, <1>3, <1>4, <1>7, <1>9, <1>10 DEF Settled, Good, Marks, TakenOff, ts
  <1>12. \/ SendLanded(s, t) = free
         \/ \E rows : SendLanded(s, t) = [free EXCEPT !.page.rows = rows]
    BY <1>1 DEF SendLanded
  <1>q. QED BY <1>11, <1>12, RowsSettled

-----------------------------------------------------------------------------
(* Steps *)

LEMMA BecomesSettled == ASSUME NEW s, Settled(s), Becomes(s) PROVE Settled(Now)'
  <1>1. IsState(Now)' /\ Now'.page = s.page /\ Now'.tasks = s.tasks
    BY DEF Now, Becomes, IsState
  <1>q. QED BY <1>1 DEF Settled, Good

\* The page is as it was, and so are the tasks but for how far they are.
LEMMA GoneOn ==
    ASSUME MarksInv, UNCHANGED <<open, page>>, NEW G, tasks' = {G[t] : t \in tasks},
           \A t \in tasks : /\ IsTask(G[t]) /\ G[t].kind = t.kind /\ G[t].fresh = t.fresh
                            /\ t.kind \in {"one", "fill"} => G[t].ids = t.ids
    PROVE  MarksInv'
  <1>1. /\ IsPage(page) /\ Marks(page, tasks) /\ (page.syncAgain => page.syncing)
    BY DEF MarksInv, Settled, Good, Now
  <1>2. Marks(page, tasks')
    BY <1>1, GoOn
  <1>3. Settled(Now)'
    BY <1>1, <1>2 DEF Settled, Good, Now, IsState
  <1>4. Unopened'
    BY DEF MarksInv, Unopened
  <1>q. QED BY <1>3, <1>4 DEF MarksInv

LEMMA Answered ==
    ASSUME MarksInv, UNCHANGED <<open, page>>, NEW t \in tasks, NEW u, Answer(t, u),
           IsTask(u), u.kind = t.kind, u.fresh = t.fresh, t.kind \in {"one", "fill"} => u.ids = t.ids
    PROVE  MarksInv'
  <1> DEFINE G == [x \in tasks |-> IF x = t THEN u ELSE x]
  <1>1. tasks' = {G[x] : x \in tasks}
    BY DEF Answer
  <1>2. \A x \in tasks : IsTask(x)
    BY DEF MarksInv, Settled, Good, Now
  <1>3. \A x \in tasks : /\ IsTask(G[x]) /\ G[x].kind = x.kind /\ G[x].fresh = x.fresh
                         /\ x.kind \in {"one", "fill"} => G[x].ids = x.ids
    BY <1>2
  <1> HIDE DEF G
  <1>q. QED BY <1>1, <1>3, GoneOn

\* The core, and what it answers.
LEMMA MarksCore ==
    ASSUME MarksInv,
           \/ \E at \in 1..(Len(list) + 1) : CoreArrives(at)
           \/ \E m \in Msgs, kind \in {"changed", "state"} : CoreChanges(m, kind)
           \/ \E m \in Msgs : CoreDeletes(m)
           \/ CoreMoves
    PROVE  MarksInv'
  <1>1. UNCHANGED <<open, page, tasks>>
    BY DEF CoreArrives, CoreChanges, CoreDeletes, CoreMoves, pageVars
  <1>q. QED BY <1>1 DEF MarksInv, Settled, Good, Now, IsState, Unopened

LEMMA MarksLost == ASSUME MarksInv, NEW restart \in BOOLEAN, CoreLosesEvents(restart) PROVE MarksInv'
  <1> DEFINE G == [t \in tasks |-> IF restart /\ t.phase \in Unanswered
                                   THEN [t EXCEPT !.phase = "failed"] ELSE t]
  <1>1. UNCHANGED <<open, page>> /\ tasks' = {G[t] : t \in tasks}
    BY DEF CoreLosesEvents
  <1>2. \A t \in tasks : IsTask(t)
    BY DEF MarksInv, Settled, Good, Now
  <1>3. \A t \in tasks : /\ IsTask(G[t]) /\ G[t].kind = t.kind /\ G[t].fresh = t.fresh
                         /\ t.kind \in {"one", "fill"} => G[t].ids = t.ids
    BY <1>2 DEF IsTask
  <1> HIDE DEF G
  <1>q. QED BY <1>1, <1>3, GoneOn

LEMMA MarksAnswers ==
    ASSUME MarksInv, NEW t \in tasks,
           \/ CoreLists(t) \/ CoreReads(t) \/ CoreRemoves(t) \/ CoreActs(t) \/ CoreFails(t)
           \/ \E phase \in {"made", "answered"} : CoreSends(t, phase)
    PROVE  MarksInv'
  <1>1. IsTask(t) /\ UNCHANGED <<open, page>>
    BY DEF MarksInv, Settled, Good, Now, CoreLists, CoreReads, CoreRemoves, CoreActs, CoreFails, CoreSends
  <1>2. CASE CoreLists(t)
    <2>1. PICK ids, phase, u : u = [t EXCEPT !.list = list, !.ids = ids, !.phase = phase] /\ Answer(t, u)
      BY <1>2 DEF CoreLists
    <2>2. IsTask(u) /\ u.kind = t.kind /\ u.fresh = t.fresh /\ t.kind \notin {"one", "fill"}
      BY <1>1, <1>2, <2>1 DEF IsTask, CoreLists
    <2>q. QED BY <1>1, <2>1, <2>2, Answered
  <1>3. CASE CoreReads(t)
    <2>1. PICK items, phase, u : u = [t EXCEPT !.items = items, !.phase = phase] /\ Answer(t, u)
      BY <1>3 DEF CoreReads
    <2>2. IsTask(u) /\ u.kind = t.kind /\ u.fresh = t.fresh /\ u.ids = t.ids
      BY <1>1, <2>1 DEF IsTask
    <2>q. QED BY <1>1, <2>1, <2>2, Answered
  <1>4. CASE CoreRemoves(t) \/ CoreActs(t) \/ CoreFails(t)
    <2>1. PICK phase, u : u = [t EXCEPT !.phase = phase] /\ Answer(t, u)
      BY <1>4 DEF CoreRemoves, CoreActs, CoreFails
    <2>2. IsTask(u) /\ u.kind = t.kind /\ u.fresh = t.fresh /\ u.ids = t.ids
      BY <1>1, <2>1 DEF IsTask
    <2>q. QED BY <1>1, <2>1, <2>2, Answered
  <1>5. CASE \E phase \in {"made", "answered"} : CoreSends(t, phase)
    <2>1. PICK ids, phase, items, u : /\ u = [t EXCEPT !.ids = ids, !.phase = phase, !.items = items]
                                      /\ Answer(t, u)
      BY <1>5 DEF CoreSends
    <2>2. IsTask(u) /\ u.kind = t.kind /\ u.fresh = t.fresh /\ t.kind = "send"
      BY <1>1, <1>5, <2>1 DEF IsTask, CoreSends
    <2>q. QED BY <1>1, <2>1, <2>2, Answered
  <1>q. QED BY <1>2, <1>3, <1>4, <1>5

\* What only prefetches leave true.
LEMMA OnlyPrefetch ==
    ASSUME NEW ts, \A t \in ts : t.kind = "prefetch"
    PROVE  Marks(NewPage, ts) /\ IsPage(NewPage) /\ ~NewPage.syncAgain
  <1>1. /\ Fresh(ts, "sync") = {} /\ Fresh(ts, "one") = {} /\ Fresh(ts, "fill") = {} /\ Sends(ts) = {}
    BY DEF Fresh, Sends
  <1>2. /\ IsPage(NewPage) /\ NewPage.pending = {} /\ NewPage.fetches = 0 /\ ~NewPage.syncing
        /\ ~NewPage.syncAgain /\ NewPage.refreshing = {} /\ NewPage.refreshAgain = {} /\ ~NewPage.sending
    BY DEF NewPage, IsPage
  <1>3. FillTrue(NewPage, {})
    BY <1>2, NoneFresh
  <1>4. SyncTrue(NewPage, {}) /\ SendTrue(NewPage, {}) /\ OneTrue(NewPage, {})
    BY <1>2 DEF SyncTrue, SendTrue, OneTrue
  <1>q. QED BY <1>1, <1>2, <1>3, <1>4 DEF Marks

LEMMA MarksInit == Init => MarksInv
  <1> SUFFICES ASSUME Init PROVE MarksInv
    OBVIOUS
  <1>1. page = NewPage /\ tasks = {}
    BY DEF Init
  <1>2. Marks(page, tasks) /\ IsPage(page) /\ ~page.syncAgain
    BY <1>1, OnlyPrefetch
  <1>q. QED BY <1>1, <1>2 DEF MarksInv, Settled, Good, Now, IsState, Unopened

\* A page that is made has what is prefetched, or asks for it.
LEMMA OpenedSettled ==
    ASSUME NEW s, IsState(s), \A t \in s.tasks : IsTask(t) /\ t.kind = "prefetch", Opened(s)
    PROVE  MarksInv'
  <1>1. PICK r : r = [s EXCEPT !.page = NewPage]
    OBVIOUS
  <1>2. IsState(r) /\ r.page = NewPage /\ r.tasks = s.tasks
    BY <1>1 DEF IsState
  <1>3. SendTrue(r.page, Sends(r.tasks)) /\ IsPage(r.page)
    BY <1>2, OnlyPrefetch DEF Marks
  <1>4. Settled(Reload(r))
    BY <1>2, <1>3, ReloadGood
  <1>5. open' = TRUE /\ Becomes(Reload(r))
    BY <1>1 DEF Opened
  <1>6. Settled(Now)'
    BY <1>4, <1>5, BecomesSettled
  <1>q. QED BY <1>5, <1>6 DEF MarksInv, Unopened

LEMMA MarksOpens ==
    ASSUME MarksInv,
           \/ Tap \/ OpenPage
           \/ \E t \in tasks, listActive \in BOOLEAN : PrefetchLands(t, listActive)
    PROVE  MarksInv'
  <1>1. \A t \in tasks : IsTask(t)
    BY DEF MarksInv, Settled, Good, Now
  <1>2. CASE Tap
    <2>1. PICK new, old : /\ new = NewTask("prefetch", {}) /\ old = {[t EXCEPT !.fresh = FALSE] : t \in tasks}
                          /\ tasks' = old \cup {new} /\ UNCHANGED <<open, page, cache>> /\ ~open
      BY <1>2 DEF Tap
    <2>2. IsTask(new) /\ new.kind = "prefetch"
      BY <2>1, New DEF TaskKinds
    <2>3. page = NewPage /\ \A t \in tasks : t.kind = "prefetch"
      BY <2>1 DEF MarksInv, Unopened
    <2>4. \A t \in tasks' : IsTask(t) /\ t.kind = "prefetch"
      <3>1. \A t \in tasks : IsTask([t EXCEPT !.fresh = FALSE]) /\ [t EXCEPT !.fresh = FALSE].kind = "prefetch"
        BY <1>1, <2>3 DEF IsTask
      <3>q. QED BY <2>1, <2>2, <3>1
    <2>5. Marks(NewPage, tasks') /\ IsPage(NewPage) /\ ~NewPage.syncAgain
      BY <2>4, OnlyPrefetch
    <2>q. QED BY <2>1, <2>3, <2>4, <2>5 DEF MarksInv, Settled, Good, Now, IsState, Unopened
  <1>3. CASE OpenPage
    <2>1. Opened(Now) /\ ~open
      BY <1>3 DEF OpenPage
    <2>2. \A t \in tasks : t.kind = "prefetch"
      BY <2>1 DEF MarksInv, Unopened
    <2>q. QED BY <1>1, <2>1, <2>2, OpenedSettled DEF Now, IsState
  <1>4. ASSUME NEW t \in tasks, NEW listActive \in BOOLEAN, PrefetchLands(t, listActive) PROVE MarksInv'
    <2>1. PICK held, s : /\ s = [page |-> page, tasks |-> tasks \ {t}, cache |-> held]
                         /\ t.kind = "prefetch" /\ (listActive => ~open)
                         /\ IF t.fresh /\ listActive THEN Opened(s) ELSE Becomes(s) /\ UNCHANGED open
      BY <1>4 DEF PrefetchLands
    <2>2. IsState(s) /\ s.page = page /\ s.tasks = tasks \ {t}
      BY <2>1 DEF IsState
    <2>3. CASE t.fresh /\ listActive
      <3>1. \A u \in s.tasks : IsTask(u) /\ u.kind = "prefetch"
        BY <1>1, <2>1, <2>2, <2>3 DEF MarksInv, Unopened
      <3>q. QED BY <2>1, <2>2, <2>3, <3>1, OpenedSettled
    <2>4. CASE ~(t.fresh /\ listActive)
      <3>1. TakenOff(s, t)
        BY <1>1, <2>2 DEF TakenOff, MarksInv, Settled, Good, Now
      <3>2. Settled(s)
        BY <2>1, <3>1, OffUnmarked DEF MarksInv
      <3>3. Settled(Now)'
        BY <2>1, <2>4, <3>2, BecomesSettled
      <3>4. Unopened'
        BY <2>1, <2>2, <2>4 DEF MarksInv, Unopened, Becomes
      <3>q. QED BY <3>3, <3>4 DEF MarksInv
    <2>q. QED BY <2>3, <2>4
  <1>q. QED BY <1>2, <1>3, <1>4

\* With the page there, its marks are all there is to show.
LEMMA OpenMarks == ASSUME NEW s, Settled(s), Becomes(s), open' = TRUE PROVE MarksInv'
  BY BecomesSettled DEF MarksInv, Unopened

LEMMA MarksEvent == ASSUME MarksInv, HandleEvent PROVE MarksInv'
  <1>1. UNCHANGED open
    BY DEF HandleEvent
  <1>2. Settled(Now)
    BY DEF MarksInv
  <1>3. CASE ~open
    <2>0. Becomes(Now)
      BY <1>3 DEF HandleEvent
    <2>1. UNCHANGED <<page, tasks>>
      BY <2>0 DEF Becomes, Now
    <2>q. QED BY <1>1, <2>1 DEF MarksInv, Settled, Good, Now, IsState, Unopened
  <1>4. CASE open
    <2>1. PICK m, s : /\ Becomes(s)
                      /\ \/ s = SyncRows(Now) \/ s = RefreshOne(SyncRows(Now), m)
                         \/ s = RefreshOne(Now, m) \/ s = Reload(Now)
      <3>1. Head(events).kind \in {"list", "changed", "state"} \/ Head(events).kind \notin {"list", "changed", "state"}
        OBVIOUS
      <3>q. QED BY <1>4, <3>1 DEF HandleEvent
    <2>2. Settled(SyncRows(Now))
      BY <1>2, SyncRowsGood DEF Settled
    <2>3. Settled(RefreshOne(SyncRows(Now), m)) /\ Settled(RefreshOne(Now, m))
      BY <1>2, <2>2, RefreshOneGood DEF Settled, Refreshed
    <2>4. Settled(Reload(Now))
      BY <1>2, ReloadGood DEF Settled, Good, Marks
    <2>5. open' = TRUE
      BY <1>1, <1>4 DEF HandleEvent
    <2>q. QED BY <2>1, <2>2, <2>3, <2>4, <2>5, OpenMarks
  <1>q. QED BY <1>3, <1>4

\* A view asks for rows that nobody has asked for.
LEMMA MarksAsk == ASSUME MarksInv, NEW i, Ask(i) PROVE MarksInv'
  <1>1. PICK wanted : wanted = Wanted(i)
    OBVIOUS
  <1>2. /\ open /\ UNCHANGED open /\ page.fetches < IN_FLIGHT /\ wanted # {}
        /\ Becomes(Started([Now EXCEPT !.page.pending = @ \cup wanted, !.page.fetches = @ + 1],
                           NewTask("fill", wanted)))
    BY <1>1 DEF Ask
  <1>3. wanted \cap page.pending = {}
    BY <1>1 DEF Wanted
  <1>4. PICK r, t : /\ r = [Now EXCEPT !.page.pending = @ \cup wanted, !.page.fetches = @ + 1]
                    /\ t = NewTask("fill", wanted)
    OBVIOUS
  <1>5. /\ IsState(r) /\ r.tasks = tasks
        /\ r.page = [page EXCEPT !.pending = @ \cup wanted, !.fetches = @ + 1]
    BY <1>4 DEF IsState, Now
  <1>6. /\ IsPage(page) /\ Marks(page, tasks) /\ (\A u \in tasks : IsTask(u))
        /\ page.syncAgain => page.syncing
    BY DEF MarksInv, Settled, Good, Now
  <1>7. /\ IsPage(r.page) /\ r.page.pending = page.pending \cup wanted
        /\ r.page.fetches = page.fetches + 1 /\ r.page.syncing = page.syncing
        /\ r.page.syncAgain = page.syncAgain /\ r.page.refreshing = page.refreshing
        /\ r.page.refreshAgain = page.refreshAgain /\ r.page.sending = page.sending
    BY <1>5, <1>6 DEF IsPage
  <1>8. IsTask(t) /\ t.kind = "fill" /\ t.fresh /\ t.ids = wanted
    BY <1>4, New DEF TaskKinds
  <1>9. PICK s : s = Started(r, t)
    OBVIOUS
  <1>10. IsState(s) /\ s.page = r.page /\ s.tasks = tasks \cup {t}
    BY <1>5, <1>9, StartedIs
  <1> DEFINE ts == tasks \cup {t}
             S  == Fresh(tasks, "fill")
  <1>11. /\ Fresh(ts, "sync") = Fresh(tasks, "sync") /\ Fresh(ts, "one") = Fresh(tasks, "one")
         /\ Fresh(ts, "fill") = S \cup {t} /\ Sends(ts) = Sends(tasks)
    BY <1>8 DEF Fresh, Sends
  <1>12. FillTrue(page, S)
    BY <1>6 DEF Marks
  <1> HIDE DEF ts, S
  <1>13. SyncTrue(r.page, Fresh(ts, "sync")) /\ SendTrue(r.page, Sends(ts))
    BY <1>6, <1>7, <1>11 DEF Marks, SyncTrue, SendTrue
  <1>14. OneTrue(r.page, Fresh(ts, "one"))
    <2>1. OneTrue(page, Fresh(ts, "one"))
      BY <1>6, <1>11 DEF Marks
    <2>q. QED BY <1>7, <2>1, SameOne
  <1>15. FillTrue(r.page, S \cup {t})
    <2>1. t \notin S
      BY <1>2, <1>3, <1>8, <1>12 DEF FillTrue
    <2>2. /\ IsFiniteSet(S \cup {t}) /\ Cardinality(S \cup {t}) = Cardinality(S) + 1
          /\ Cardinality(S) \in Nat
      BY <1>12, <2>1, FS_AddElement, FS_CardinalityType DEF FillTrue
    <2>3. r.page.fetches = Cardinality(S \cup {t}) /\ r.page.fetches <= IN_FLIGHT
      BY <1>2, <1>7, <1>12, <2>2, ConversationAssumption DEF FillTrue
    <2>4. ASSUME NEW u \in S \cup {t} PROVE u.ids # {} /\ u.ids \subseteq r.page.pending
      BY <1>2, <1>7, <1>8, <1>12 DEF FillTrue
    <2>5. ASSUME NEW m \in r.page.pending PROVE \E u \in S \cup {t} : m \in u.ids
      BY <1>7, <1>8, <1>12 DEF FillTrue
    <2>6. ASSUME NEW u \in S PROVE u.ids \cap wanted = {}
      BY <1>3, <1>12 DEF FillTrue
    <2>7. ASSUME NEW u \in S \cup {t}, NEW v \in S \cup {t}, u # v PROVE u.ids \cap v.ids = {}
      BY <1>8, <1>12, <2>6, <2>7 DEF FillTrue
    <2>q. QED BY <2>2, <2>3, <2>4, <2>5, <2>7 DEF FillTrue
  <1>16. Marks(r.page, ts)
    BY <1>11, <1>13, <1>14, <1>15 DEF Marks
  <1>17. Settled(s)
    BY <1>6, <1>7, <1>8, <1>10, <1>16 DEF Settled, Good, ts
  <1>18. open' = TRUE /\ Becomes(s)
    BY <1>2, <1>4, <1>9 DEF MarksInv, Ask
  <1>q. QED BY <1>17, <1>18, OpenMarks

LEMMA MarksSend == ASSUME MarksInv, Send PROVE MarksInv'
  <1>1. PICK r, t, s : /\ r = [Now EXCEPT !.page.sending = TRUE] /\ t = NewTask("send", {})
                       /\ s = Started(r, t)
    OBVIOUS
  <1>2. open /\ UNCHANGED open /\ ~page.sending /\ Becomes(s)
    BY <1>1 DEF Send
  <1>3. IsState(r) /\ r.tasks = tasks /\ r.page = [page EXCEPT !.sending = TRUE]
    BY <1>1 DEF IsState, Now
  <1>4. /\ IsPage(page) /\ Marks(page, tasks) /\ (\A u \in tasks : IsTask(u))
        /\ page.syncAgain => page.syncing
    BY DEF MarksInv, Settled, Good, Now
  <1>5. /\ IsPage(r.page) /\ r.page.pending = page.pending /\ r.page.fetches = page.fetches
        /\ r.page.syncing = page.syncing /\ r.page.syncAgain = page.syncAgain
        /\ r.page.refreshing = page.refreshing /\ r.page.refreshAgain = page.refreshAgain
        /\ r.page.sending
    BY <1>3, <1>4 DEF IsPage
  <1>6. IsTask(t) /\ t.kind = "send"
    BY <1>1, New DEF TaskKinds
  <1>7. IsState(s) /\ s.page = r.page /\ s.tasks = tasks \cup {t}
    <2>1. s = Started(r, t)
      BY <1>1
    <2>2. /\ IsState(Started(r, t)) /\ Started(r, t).page = r.page
          /\ Started(r, t).tasks = r.tasks \cup {t}
      BY <1>3, StartedIs
    <2>q. QED BY <1>3, <2>1, <2>2
  <1> DEFINE ts == tasks \cup {t}
  <1>8. /\ Fresh(ts, "sync") = Fresh(tasks, "sync") /\ Fresh(ts, "one") = Fresh(tasks, "one")
        /\ Fresh(ts, "fill") = Fresh(tasks, "fill") /\ Sends(ts) = Sends(tasks) \cup {t}
    BY <1>6 DEF Fresh, Sends
  <1>9. Sends(tasks) = {}
    BY <1>2, <1>4 DEF Marks, SendTrue
  <1> HIDE DEF ts
  <1>10. SyncTrue(r.page, Fresh(ts, "sync")) /\ SendTrue(r.page, Sends(ts))
    BY <1>4, <1>5, <1>8, <1>9 DEF Marks, SyncTrue, SendTrue
  <1>11. OneTrue(page, Fresh(ts, "one")) /\ FillTrue(page, Fresh(ts, "fill"))
    BY <1>4, <1>8 DEF Marks
  <1>12. OneTrue(r.page, Fresh(ts, "one"))
    BY <1>5, <1>11, SameOne
  <1>13. FillTrue(r.page, Fresh(ts, "fill"))
    BY <1>5, <1>11 DEF FillTrue
  <1>14. Settled(s)
    BY <1>4, <1>5, <1>6, <1>7, <1>10, <1>12, <1>13 DEF Settled, Good, Marks, ts
  <1>15. open' = TRUE
    BY <1>2 DEF Send
  <1>q. QED BY <1>2, <1>14, <1>15, OpenMarks

LEMMA MarksReader ==
    ASSUME MarksInv, \E m \in Msgs : RemoveMessage(m) \/ Act(m)
    PROVE  MarksInv'
  <1>1. PICK m \in Msgs, kind_ \in {"remove", "act"} :
           open /\ UNCHANGED open /\ Becomes(Started(Now, NewTask(kind_, {m})))
    <2>1. ASSUME NEW m \in Msgs, RemoveMessage(m)
          PROVE  open /\ UNCHANGED open /\ Becomes(Started(Now, NewTask("remove", {m})))
      BY <2>1 DEF RemoveMessage
    <2>2. ASSUME NEW m \in Msgs, Act(m)
          PROVE  open /\ UNCHANGED open /\ Becomes(Started(Now, NewTask("act", {m})))
      BY <2>2 DEF Act
    <2>q. QED BY <2>1, <2>2
  <1>2. Settled(Started(Now, NewTask(kind_, {m})))
    BY StartGood DEF MarksInv, Settled
  <1>3. open' = TRUE
    BY <1>1 DEF MarksInv
  <1>q. QED BY <1>1, <1>2, <1>3, OpenMarks

LEMMA MarksLand == ASSUME MarksInv, NEW t \in tasks, Lands(t) PROVE MarksInv'
  <1>1. PICK s : s = [Now EXCEPT !.tasks = @ \ {t}]
    OBVIOUS
  <1>2. Settled(Now) /\ TakenOff(s, t)
    BY <1>1, Off DEF MarksInv
  <1>3. t.kind # "prefetch" /\ UNCHANGED open
    BY DEF Lands
  <1>4. open' = TRUE
    BY <1>3 DEF MarksInv, Unopened
  <1>5. PICK r : /\ Becomes(r)
                 /\ r = CASE t.kind = "open"   -> OpenLanded(s, t)
                          [] t.kind = "sync"   -> SyncLanded(s, t)
                          [] t.kind = "fill"   -> FillLanded(s, t)
                          [] t.kind = "absorb" -> AbsorbLanded(s, t)
                          [] t.kind = "one"    -> OneLanded(s, t)
                          [] t.kind = "send"   -> SendLanded(s, t)
                          [] t.kind = "remove" -> RemoveLanded(s, t)
                          [] t.kind = "act"    -> ActLanded(s, t)
    BY <1>1 DEF Lands
  <1>6. CASE t.kind \in {"absorb", "remove", "act"}
    <2>1. Settled(s)
      BY <1>2, <1>6, OffUnmarked
    <2>2. /\ \E rows : AbsorbLanded(s, t) = [s EXCEPT !.page.rows = rows]
          /\ RemoveLanded(s, t) = s \/ \E rows : RemoveLanded(s, t) = [s EXCEPT !.page.rows = rows]
          /\ ActLanded(s, t) = s \/ \E m : ActLanded(s, t) = RefreshOne(s, m)
      BY DEF AbsorbLanded, RemoveLanded, ActLanded
    <2>3. \A m : Settled(RefreshOne(s, m))
      BY <2>1, RefreshOneGood DEF Settled, Refreshed
    <2>4. \A rows : Settled([s EXCEPT !.page.rows = rows])
      BY <2>1, RowsSettled
    <2>5. Settled(r)
      BY <1>5, <1>6, <2>1, <2>2, <2>3, <2>4
    <2>q. QED BY <1>4, <1>5, <2>5, OpenMarks
  <1>7. CASE t.kind \in {"open", "sync", "fill", "one", "send"}
    <2>1. Settled(r)
      BY <1>2, <1>5, <1>7, OpenLands, SyncLands, FillLands, OneLands, SendLands
    <2>q. QED BY <1>4, <1>5, <2>1, OpenMarks
  <1>q. QED BY <1>2, <1>3, <1>6, <1>7 DEF TakenOff, IsTask, TaskKinds

LEMMA MarksStep == MarksInv /\ [Next]_vars => MarksInv'
  <1> SUFFICES ASSUME MarksInv, [Next]_vars PROVE MarksInv'
    OBVIOUS
  <1>1. CASE UNCHANGED vars
    BY <1>1 DEF MarksInv, Settled, Good, Now, IsState, Unopened, vars, pageVars
  <1>2. CASE System
    BY <1>2, MarksAnswers, MarksOpens, MarksLand, MarksEvent, MarksAsk DEF System, Hydrate
  <1>3. CASE Others
    BY <1>3, MarksCore, MarksLost, MarksOpens, MarksSend, MarksReader, MarksAsk DEF Others, Scroll
  <1>q. QED BY <1>1, <1>2, <1>3 DEF Next

\* However reloads, events, failures and late answers cross, each mark of the page stands for
\* just the reads of its generation: none is left over, which would keep every later event from
\* being read, and no answer is counted twice (sync_rows, refresh_one, hydrated, reload, send).
THEOREM MarksTellTruth == Spec => []FlagsTellTruth
  <1>1. MarksInv => FlagsTellTruth
    <2> SUFFICES ASSUME MarksInv PROVE FlagsTellTruth
      OBVIOUS
    <2>1. \A kind_ : FreshOf(kind_) = Fresh(tasks, kind_)
      BY DEF FreshOf, Fresh
    <2>2. IsPage(page) /\ Marks(page, tasks) /\ (page.syncAgain => page.syncing)
      BY DEF MarksInv, Settled, Good, Now
    <2>3. page.syncing \in BOOLEAN /\ page.sending \in BOOLEAN
      BY <2>2 DEF IsPage
    <2>4. page.syncing = (FreshOf("sync") # {}) /\ Cardinality(FreshOf("sync")) <= 1
      <3>1. PICK S : S = FreshOf("sync")
        OBVIOUS
      <3>2. (page.syncing <=> S # {}) /\ \A t, u \in S : t = u
        BY <2>1, <2>2, <3>1 DEF Marks, SyncTrue
      <3>3. S = {} \/ \E t : S = {t}
        BY <3>2
      <3>4. Cardinality(S) <= 1
        <4>1. CASE S = {}
          <5>1. Cardinality({}) = 0
            BY FS_EmptySet
          <5>q. QED BY <4>1, <5>1
        <4>2. ASSUME NEW t, S = {t} PROVE Cardinality(S) <= 1
          <5>1. Cardinality({t}) = 1
            BY FS_Singleton
          <5>q. QED BY <4>2, <5>1
        <4>q. QED BY <3>3, <4>1, <4>2
      <3>q. QED BY <2>3, <3>1, <3>2, <3>4
    <2>5. /\ page.refreshing = UNION {t.ids : t \in FreshOf("one")}
          /\ page.refreshAgain \subseteq page.refreshing
      <3>1. PICK S : S = FreshOf("one")
        OBVIOUS
      <3>2. OneTrue(page, S)
        BY <2>1, <2>2, <3>1 DEF Marks
      <3>3. ASSUME NEW m \in page.refreshing PROVE \E t \in S : m \in t.ids
        BY <3>2 DEF OneTrue
      <3>4. ASSUME NEW t \in S, NEW m \in t.ids PROVE m \in page.refreshing
        BY <3>2 DEF OneTrue
      <3>5. page.refreshing = UNION {t.ids : t \in S}
        BY <3>3, <3>4
      <3>q. QED BY <3>1, <3>2, <3>5 DEF OneTrue
    <2>6. /\ page.pending = UNION {t.ids : t \in FreshOf("fill")}
          /\ page.fetches = Cardinality(FreshOf("fill")) /\ page.fetches <= IN_FLIGHT
          /\ \A t, u \in FreshOf("fill") : t # u => t.ids \cap u.ids = {}
      <3>1. PICK S : S = FreshOf("fill")
        OBVIOUS
      <3>2. FillTrue(page, S)
        BY <2>1, <2>2, <3>1 DEF Marks
      <3>3. page.pending = UNION {t.ids : t \in S}
        BY <3>2 DEF FillTrue
      <3>q. QED BY <3>1, <3>2, <3>3 DEF FillTrue
    <2>7. page.sending = \E t \in tasks : t.kind = "send"
      <3>1. page.sending <=> \E t \in tasks : t.kind = "send"
        BY <2>2 DEF Marks, SendTrue, Sends
      <3>q. QED BY <2>3, <3>1
    <2>q. QED BY <2>2, <2>4, <2>5, <2>6, <2>7 DEF FlagsTellTruth
  <1>q. QED BY <1>1, MarksInit, MarksStep, PTL DEF Spec
-----------------------------------------------------------------------------
(* Sequences *)

\* A collection of finite sets has one that contains no other.
LEMMA Smallest ==
    ASSUME NEW S, NEW F \in SUBSET FiniteSubsetsOf(S), F # {}
    PROVE  \E x \in F : \A y \in F : y \subseteq x => y = x
  <1>1. IsWellFoundedOn(StrictSubsetOrdering(S), FiniteSubsetsOf(S))
    BY FS_StrictSubsetOrderingWellFounded
  <1>2. \E x \in F : \A y \in F : ~(<<y, x>> \in StrictSubsetOrdering(S))
    BY <1>1, WFMin
  <1>q. QED BY <1>2 DEF StrictSubsetOrdering, FiniteSubsetsOf

\* A set of numbers has a least one.
LEMMA Least ==
    ASSUME NEW T \in SUBSET Nat, T # {}
    PROVE  \E x \in T : \A y \in T : x <= y
  <1>1. \A n \in Nat : IsFiniteSet(0..n)
    BY FS_Interval
  <1>2. {0..n : n \in T} \in SUBSET FiniteSubsetsOf(Nat) /\ {0..n : n \in T} # {}
    BY <1>1 DEF FiniteSubsetsOf
  <1>3. PICK F : F = {0..n : n \in T}
    OBVIOUS
  <1>4. F \in SUBSET FiniteSubsetsOf(Nat) /\ F # {}
    BY <1>2, <1>3, Zenon
  <1>5. \E z \in F : \A y \in F : y \subseteq z => y = z
    BY <1>4, Smallest
  <1>6. PICK z \in F : \A y \in F : y \subseteq z => y = z
    BY <1>5
  <1>7. PICK x \in T : z = 0..x
    BY <1>3
  <1>8. ASSUME NEW y \in T PROVE x <= y
    <2>1. 0..y \in F
      BY <1>3
    <2>2. 0..y \subseteq 0..x => 0..y = 0..x
      BY <1>6, <1>7, <2>1
    <2>q. QED BY <2>2
  <1>q. QED BY <1>8

\* Filtering, one member after another.
Filter(seq, S, k, f) ==
    f = [i \in 0..k |-> IF i = 0 THEN <<>>
                        ELSE IF seq[i] \in S THEN Append(f[i - 1], seq[i]) ELSE f[i - 1]]

LEMMA FilterAll == ASSUME NEW seq, NEW S, NEW n \in Nat PROVE \E f : Filter(seq, S, n, f)
  <1> DEFINE Bad == {k \in 0..n : ~\E f : Filter(seq, S, k, f)}
             To(f, i) == IF seq[i] \in S THEN Append(f[i - 1], seq[i]) ELSE f[i - 1]
  <1>1. SUFFICES ASSUME Bad # {} PROVE FALSE
    OBVIOUS
  <1>2. PICK k \in Bad : \A j \in Bad : k <= j
    <2>1. Bad \in SUBSET Nat
      OBVIOUS
    <2> HIDE DEF Bad
    <2>q. QED BY <1>1, <2>1, Least
  <1>3. CASE k = 0
    <2>1. PICK f : f = [i \in 0..0 |-> <<>>]
      OBVIOUS
    <2>2. Filter(seq, S, 0, f)
      BY <2>1 DEF Filter
    <2>q. QED BY <1>2, <1>3, <2>2
  <1>4. CASE k > 0
    <2>1. k - 1 \in 0..n /\ k - 1 \notin Bad /\ k \in Nat
      BY <1>2, <1>4
    <2>2. PICK f : Filter(seq, S, k - 1, f)
      BY <2>1
    <2>3. PICK g : g = [i \in 0..k |-> IF i = k THEN To(f, k) ELSE f[i]]
      OBVIOUS
    <2>4. \A i \in 0..k - 1 : g[i] = f[i]
      BY <2>1, <2>3
    <2>5. \A i \in 0..k - 1 : f[i] = IF i = 0 THEN <<>> ELSE To(f, i)
      BY <2>2 DEF Filter
    <2>6. ASSUME NEW i \in 0..k PROVE g[i] = IF i = 0 THEN <<>> ELSE To(g, i)
      <3>1. CASE i = k
        BY <1>4, <2>1, <2>3, <2>4, <3>1
      <3>2. CASE i < k
        <4>1. i = 0 \/ i - 1 \in 0..k - 1
          BY <2>1, <3>2
        <4>q. QED BY <2>1, <2>4, <2>5, <3>2, <4>1
      <3>q. QED BY <2>1, <3>1, <3>2
    <2>7. Filter(seq, S, k, g)
      BY <2>3, <2>6 DEF Filter
    <2>q. QED BY <1>2, <2>7
  <1>q. QED BY <1>2, <1>3, <1>4

LEMMA OnlyFilters ==
    ASSUME NEW seq, NEW S, Len(seq) \in Nat
    PROVE  \E f : Filter(seq, S, Len(seq), f) /\ Only(seq, S) = f[Len(seq)]
  <1>1. \E f : Filter(seq, S, Len(seq), f)
    BY FilterAll
  <1>2. PICK f : f = CHOOSE g : g = [i \in 0..Len(seq) |-> IF i = 0 THEN <<>>
                                     ELSE IF seq[i] \in S THEN Append(g[i - 1], seq[i]) ELSE g[i - 1]]
    OBVIOUS
  <1>3. Filter(seq, S, Len(seq), f)
    BY <1>1, <1>2 DEF Filter
  <1>4. Only(seq, S) = f[Len(seq)]
    BY <1>2 DEF Only
  <1>q. QED BY <1>3, <1>4

\* r is what filtering the first k leaves.
Filtered(T, seq, S, k, r) ==
    /\ r \in Seq(T)
    /\ \A i \in 1..k : seq[i] \in S => \E a \in DOMAIN r : r[a] = seq[i]
    /\ \A a \in DOMAIN r : \E i \in 1..k : r[a] = seq[i] /\ seq[i] \in S
    /\ \A a, b \in DOMAIN r : a < b => \E i, j \in 1..k : i < j /\ r[a] = seq[i] /\ r[b] = seq[j]
    /\ (\A i \in 1..k : seq[i] \in S) => Len(r) = k /\ \A i \in 1..k : r[i] = seq[i]

LEMMA FilterOne ==
    ASSUME NEW T, NEW seq \in Seq(T), NEW S, NEW k \in 1..Len(seq), NEW p, NEW r,
           Filtered(T, seq, S, k - 1, p),
           r = IF seq[k] \in S THEN Append(p, seq[k]) ELSE p
    PROVE  Filtered(T, seq, S, k, r)
  <1>0. p \in Seq(T) /\ seq[k] \in T /\ Len(p) \in Nat /\ DOMAIN p = 1..Len(p)
    BY DEF Filtered
  <1>1. CASE seq[k] \notin S
    <2>1. r = p
      BY <1>1
    <2>2. \A i \in 1..k : i = k \/ i \in 1..k - 1
      OBVIOUS
    <2>3. \A i \in 1..k - 1 : i \in 1..k
      OBVIOUS
    <2>4. \A i \in 1..k : seq[i] \in S => i \in 1..k - 1
      BY <1>1, <2>2
    <2>5. \A a \in DOMAIN p : \E i \in 1..k : p[a] = seq[i] /\ seq[i] \in S
      BY <2>3 DEF Filtered
    <2>6. \A a, b \in DOMAIN p : a < b => \E i, j \in 1..k : i < j /\ p[a] = seq[i] /\ p[b] = seq[j]
      BY <2>3 DEF Filtered
    <2>7. \A i \in 1..k : seq[i] \in S => \E a \in DOMAIN p : p[a] = seq[i]
      BY <2>4 DEF Filtered
    <2>8. ~\A i \in 1..k : seq[i] \in S
      BY <1>1
    <2>9. Filtered(T, seq, S, k, p)
      BY <1>0, <2>5, <2>6, <2>7, <2>8 DEF Filtered
    <2>q. QED BY <2>1, <2>9
  <1>2. CASE seq[k] \in S
    <2>1. /\ r = Append(p, seq[k]) /\ r \in Seq(T) /\ Len(r) = Len(p) + 1
          /\ DOMAIN r = 1..Len(p) + 1
          /\ r[Len(p) + 1] = seq[k] /\ \A a \in 1..Len(p) : r[a] = p[a]
      BY <1>0, <1>2
    <2>2. \A i \in 1..k : i = k \/ i \in 1..k - 1
      OBVIOUS
    <2>3. \A i \in 1..k - 1 : i \in 1..k /\ i < k
      OBVIOUS
    <2>4. \A a \in DOMAIN r : a = Len(p) + 1 \/ a \in DOMAIN p
      BY <1>0, <2>1
    <2>5. \A i \in 1..k : seq[i] \in S => \E a \in DOMAIN r : r[a] = seq[i]
      <3>1. ASSUME NEW i \in 1..k - 1, seq[i] \in S PROVE \E a \in DOMAIN r : r[a] = seq[i]
        <4>1. PICK a \in DOMAIN p : p[a] = seq[i]
          BY <3>1 DEF Filtered
        <4>q. QED BY <1>0, <2>1, <4>1
      <3>q. QED BY <1>0, <2>1, <2>2, <3>1
    <2>6. \A a \in DOMAIN r : \E i \in 1..k : r[a] = seq[i] /\ seq[i] \in S
      <3>1. ASSUME NEW a \in DOMAIN p PROVE \E i \in 1..k : r[a] = seq[i] /\ seq[i] \in S
        <4>1. PICK i \in 1..k - 1 : p[a] = seq[i] /\ seq[i] \in S
          BY DEF Filtered
        <4>q. QED BY <1>0, <2>1, <2>3, <4>1
      <3>q. QED BY <1>2, <2>1, <2>4, <3>1
    <2>7. ASSUME NEW a \in DOMAIN r, NEW b \in DOMAIN r, a < b
          PROVE  \E i, j \in 1..k : i < j /\ r[a] = seq[i] /\ r[b] = seq[j]
      <3>1. a \in DOMAIN p
        BY <1>0, <2>1, <2>7
      <3>2. CASE b \in DOMAIN p
        <4>1. PICK i \in 1..k - 1, j \in 1..k - 1 : i < j /\ p[a] = seq[i] /\ p[b] = seq[j]
          BY <2>7, <3>1, <3>2 DEF Filtered
        <4>q. QED BY <1>0, <2>1, <2>3, <3>1, <3>2, <4>1
      <3>3. CASE b = Len(p) + 1
        <4>1. PICK i \in 1..k - 1 : p[a] = seq[i]
          BY <3>1 DEF Filtered
        <4>q. QED BY <1>0, <2>1, <2>3, <3>1, <3>3, <4>1
      <3>q. QED BY <2>4, <3>2, <3>3
    <2>8. ASSUME \A i \in 1..k : seq[i] \in S
          PROVE  Len(r) = k /\ \A i \in 1..k : r[i] = seq[i]
      <3>1. Len(p) = k - 1 /\ \A i \in 1..k - 1 : p[i] = seq[i]
        BY <2>3, <2>8 DEF Filtered
      <3>q. QED BY <2>1, <2>2, <3>1
    <2>q. QED BY <2>1, <2>5, <2>6, <2>7, <2>8 DEF Filtered
  <1>q. QED BY <1>1, <1>2

\* What filtering keeps, and that it keeps it in order.
LEMMA OnlyKeeps ==
    ASSUME NEW T, NEW seq \in Seq(T), NEW S
    PROVE  /\ Only(seq, S) \in Seq(T)
           /\ \A x : (\E a \in DOMAIN Only(seq, S) : Only(seq, S)[a] = x)
                     <=> x \in S /\ \E i \in DOMAIN seq : seq[i] = x
           /\ \A a, b \in DOMAIN Only(seq, S) : a < b =>
                 \E i, j \in DOMAIN seq : i < j /\ Only(seq, S)[a] = seq[i] /\ Only(seq, S)[b] = seq[j]
           /\ (\A i \in DOMAIN seq : seq[i] \in S) => Only(seq, S) = seq
  <1>0. PICK n \in Nat : \E f : n = Len(seq) /\ Filter(seq, S, n, f) /\ Only(seq, S) = f[n]
    BY OnlyFilters
  <1>1. PICK f : n = Len(seq) /\ Filter(seq, S, n, f) /\ Only(seq, S) = f[n]
    BY <1>0
  <1> DEFINE Good_(k, r) == Filtered(T, seq, S, k, r)
             Bad == {k \in 0..n : ~Good_(k, f[k])}
  <1>2. Good_(0, f[0])
    <2>1. f[0] = <<>>
      BY <1>1 DEF Filter
    <2>q. QED BY <2>1 DEF Filtered
  <1>3. ASSUME NEW k \in 1..n, NEW p, NEW r, Good_(k - 1, p),
               r = IF seq[k] \in S THEN Append(p, seq[k]) ELSE p
        PROVE  Good_(k, r)
    BY <1>1, <1>3, FilterOne
  <1>4. \A k \in 1..n : f[k] = IF seq[k] \in S THEN Append(f[k - 1], seq[k]) ELSE f[k - 1]
    <2>1. \A k \in 1..n : k \in 0..n /\ k # 0
      OBVIOUS
    <2>q. QED BY <1>1, <2>1 DEF Filter
  <1> HIDE DEF Good_
  <1>5. Bad = {}
    <2> SUFFICES ASSUME Bad # {} PROVE FALSE
      OBVIOUS
    <2>1. PICK k \in Bad : \A j \in Bad : k <= j
      <3>1. Bad \in SUBSET Nat
        OBVIOUS
      <3> HIDE DEF Bad
      <3>q. QED BY <3>1, Least
    <2>2. k \in 0..n /\ ~Good_(k, f[k]) /\ \A j \in 0..n : j < k => Good_(j, f[j])
      BY <2>1
    <2>3. k # 0
      BY <1>2, <2>2
    <2>4. k \in 1..n /\ k - 1 \in 0..n /\ k - 1 < k
      BY <2>2, <2>3
    <2>5. Good_(k - 1, f[k - 1])
      BY <2>2, <2>4
    <2>6. Good_(k, f[k])
      BY <1>3, <1>4, <2>4, <2>5
    <2>q. QED BY <2>2, <2>6
  <1>6. Good_(n, Only(seq, S))
    <2>1. n \in 0..n
      OBVIOUS
    <2>2. Good_(n, f[n])
      BY <1>5, <2>1
    <2>q. QED BY <1>1, <2>2
  <1>7. DOMAIN seq = 1..n
    BY <1>1
  <1>8. PICK r : r = Only(seq, S) /\ Filtered(T, seq, S, n, r)
    BY <1>6 DEF Good_
  <1>9. ASSUME \A i \in DOMAIN seq : seq[i] \in S PROVE r = seq
    <2>1. r \in Seq(T) /\ Len(r) = Len(seq) /\ \A i \in 1..Len(seq) : r[i] = seq[i]
      BY <1>1, <1>7, <1>8, <1>9 DEF Filtered
    <2>q. QED BY <2>1
  <1>10. \A x : (\E a \in DOMAIN r : r[a] = x) <=> x \in S /\ \E i \in 1..n : seq[i] = x
    BY <1>8 DEF Filtered
  <1>11. /\ r \in Seq(T)
         /\ \A a, b \in DOMAIN r : a < b => \E i, j \in 1..n : i < j /\ r[a] = seq[i] /\ r[b] = seq[j]
    BY <1>8 DEF Filtered
  <1>12. /\ r \in Seq(T)
         /\ \A x : (\E a \in DOMAIN r : r[a] = x) <=> x \in S /\ \E i \in DOMAIN seq : seq[i] = x
         /\ \A a, b \in DOMAIN r : a < b =>
               \E i, j \in DOMAIN seq : i < j /\ r[a] = seq[i] /\ r[b] = seq[j]
         /\ (\A i \in DOMAIN seq : seq[i] \in S) => r = seq
    <2> HIDE DEF Bad
    <2>1. \A x : (\E a \in DOMAIN r : r[a] = x) <=> x \in S /\ \E i \in DOMAIN seq : seq[i] = x
      BY <1>7, <1>10
    <2>2. \A a, b \in DOMAIN r : a < b =>
             \E i, j \in DOMAIN seq : i < j /\ r[a] = seq[i] /\ r[b] = seq[j]
      BY <1>7, <1>11
    <2>q. QED BY <1>9, <1>11, <2>1, <2>2
  <1>q. QED BY <1>8, <1>12

OnlyOf(T, seq, S, r) ==
    /\ r \in Seq(T)
    /\ \A x : (\E a \in DOMAIN r : r[a] = x) <=> x \in S /\ \E i \in DOMAIN seq : seq[i] = x
    /\ \A a, b \in DOMAIN r : a < b => \E i, j \in DOMAIN seq : i < j /\ r[a] = seq[i] /\ r[b] = seq[j]
    /\ (\A i \in DOMAIN seq : seq[i] \in S) => r = seq

LEMMA OnlyIs == ASSUME NEW T, NEW seq \in Seq(T), NEW S PROVE OnlyOf(T, seq, S, Only(seq, S))
  BY OnlyKeeps DEF OnlyOf

\* In a sequence that has nothing twice, one of two members is before the other.
LEMMA BeforeTotal ==
    ASSUME NEW T, NEW X \in Seq(T), IsInjective(X)
    PROVE  /\ \A a, b : Before(X, a, b) => /\ a \in ToSet(X) /\ b \in ToSet(X) /\ a # b
                                           /\ ~Before(X, b, a)
           /\ \A a, b \in ToSet(X) : a # b => Before(X, a, b) \/ Before(X, b, a)
  <1>1. DOMAIN X = 1..Len(X) /\ Len(X) \in Nat
    OBVIOUS
  <1>2. \A i, j \in DOMAIN X : X[i] = X[j] => i = j
    BY DEF IsInjective
  <1>3. ASSUME NEW a, NEW b, Before(X, a, b)
        PROVE  a \in ToSet(X) /\ b \in ToSet(X) /\ a # b /\ ~Before(X, b, a)
    <2>1. PICK i \in DOMAIN X, j \in DOMAIN X : i < j /\ X[i] = a /\ X[j] = b
      BY <1>3 DEF Before
    <2>2. a \in ToSet(X) /\ b \in ToSet(X)
      BY <2>1 DEF ToSet
    <2>3. a # b
      BY <1>1, <1>2, <2>1
    <2>4. ASSUME NEW k \in DOMAIN X, NEW l \in DOMAIN X, k < l, X[k] = b, X[l] = a PROVE FALSE
      <3>1. k = j /\ l = i
        BY <1>2, <2>1, <2>4
      <3>q. QED BY <1>1, <2>1, <2>4, <3>1
    <2>q. QED BY <2>2, <2>3, <2>4 DEF Before
  <1>4. ASSUME NEW a \in ToSet(X), NEW b \in ToSet(X), a # b PROVE Before(X, a, b) \/ Before(X, b, a)
    <2>1. PICK i \in DOMAIN X, j \in DOMAIN X : X[i] = a /\ X[j] = b
      BY DEF ToSet
    <2>2. i < j \/ j < i
      BY <1>1, <1>4, <2>1
    <2>q. QED BY <2>1, <2>2 DEF Before
  <1>q. QED BY <1>3, <1>4

\* Y is X with x put in at n.
Inserted(X, n, x, Y) ==
    /\ n \in 1..Len(X) + 1 /\ Len(Y) = Len(X) + 1
    /\ \A k \in 1..Len(X) + 1 : Y[k] = IF k < n THEN X[k] ELSE IF k = n THEN x ELSE X[k - 1]

LEMMA InsertAtInserts ==
    ASSUME NEW T, NEW X \in Seq(T), NEW x \in T, NEW n \in 1..Len(X) + 1
    PROVE  InsertAt(X, n, x) \in Seq(T) /\ Inserted(X, n, x, InsertAt(X, n, x))
  <1>1. Len(X) \in Nat /\ n \in Nat
    OBVIOUS
  <1>2. PICK A, B : A = SubSeq(X, 1, n - 1) /\ B = SubSeq(X, n, Len(X))
    OBVIOUS
  <1>3. /\ A \in Seq(T) /\ Len(A) = n - 1 /\ \A k \in 1..n - 1 : A[k] = X[k]
        /\ B \in Seq(T) /\ Len(B) = Len(X) - n + 1 /\ \A k \in 1..Len(X) - n + 1 : B[k] = X[n + k - 1]
    BY <1>1, <1>2
  <1>4. PICK C : C = A \o <<x>>
    OBVIOUS
  <1>5. /\ C \in Seq(T) /\ Len(C) = n /\ C[n] = x /\ \A k \in 1..n - 1 : C[k] = X[k]
    BY <1>1, <1>3, <1>4
  <1>6. PICK Y : Y = C \o B
    OBVIOUS
  <1>7. Y \in Seq(T) /\ Len(Y) = Len(X) + 1
    <2>1. Y \in Seq(T) /\ Len(Y) = Len(C) + Len(B)
      BY <1>3, <1>5, <1>6
    <2>2. Len(C) + Len(B) = Len(X) + 1
      BY <1>1, <1>3, <1>5
    <2>q. QED BY <2>1, <2>2
  <1>8. /\ \A k \in 1..n : Y[k] = C[k]
        /\ \A k \in 1..Len(X) - n + 1 : Y[n + k] = B[k]
    <2>1. \A k \in 1..Len(C) + Len(B) : Y[k] = IF k <= Len(C) THEN C[k] ELSE B[k - Len(C)]
      BY <1>3, <1>5, <1>6
    <2>2. \A k \in 1..n : k \in 1..Len(C) + Len(B) /\ k <= Len(C)
      BY <1>1, <1>3, <1>5
    <2>3. \A k \in 1..Len(X) - n + 1 : n + k \in 1..Len(C) + Len(B) /\ ~(n + k <= Len(C)) /\ (n + k) - Len(C) = k
      BY <1>1, <1>3, <1>5
    <2>q. QED BY <2>1, <2>2, <2>3
  <1>9. ASSUME NEW k \in 1..Len(X) + 1
        PROVE  Y[k] = IF k < n THEN X[k] ELSE IF k = n THEN x ELSE X[k - 1]
    <2>1. CASE k > n
      <3>1. k - n \in 1..Len(X) - n + 1 /\ n + (k - n) = k /\ n + (k - n) - 1 = k - 1
        BY <1>1, <2>1
      <3>2. Y[n + (k - n)] = B[k - n] /\ B[k - n] = X[n + (k - n) - 1]
        BY <1>3, <1>8, <3>1
      <3>q. QED BY <1>1, <2>1, <3>1, <3>2
    <2>2. CASE k <= n
      BY <1>1, <1>5, <1>8, <2>2
    <2>q. QED BY <1>1, <2>1, <2>2
  <1>10. InsertAt(X, n, x) = Y
    BY <1>2, <1>4, <1>6 DEF InsertAt
  <1>q. QED BY <1>7, <1>9, <1>10 DEF Inserted

LEMMA AppendInserts ==
    ASSUME NEW T, NEW X \in Seq(T), NEW x \in T
    PROVE  Append(X, x) \in Seq(T) /\ Inserted(X, Len(X) + 1, x, Append(X, x))
  <1>1. Len(X) \in Nat
    OBVIOUS
  <1>q. QED BY <1>1 DEF Inserted

\* What is put in leaves the rest in its order.
LEMMA InsertedOrder ==
    ASSUME NEW T, NEW X \in Seq(T), IsInjective(X), NEW n, NEW x, x \notin ToSet(X),
           NEW Y \in Seq(T), Inserted(X, n, x, Y)
    PROVE  /\ IsInjective(Y) /\ ToSet(Y) = ToSet(X) \cup {x}
           /\ \A a, b \in ToSet(X) : Before(Y, a, b) <=> Before(X, a, b)
           /\ \A i \in DOMAIN X : i < n => Before(Y, X[i], x)
           /\ \A i \in DOMAIN X : i >= n => Before(Y, x, X[i])
  <1>1. /\ Len(X) \in Nat /\ n \in 1..Len(X) + 1 /\ DOMAIN X = 1..Len(X)
        /\ Len(Y) = Len(X) + 1 /\ DOMAIN Y = 1..Len(X) + 1
    BY DEF Inserted
  <1>2. \A k \in 1..Len(X) + 1 : /\ k < n => Y[k] = X[k] /\ k \in DOMAIN X
                                 /\ k = n => Y[k] = x
                                 /\ k > n => Y[k] = X[k - 1] /\ k - 1 \in DOMAIN X
    BY <1>1 DEF Inserted
  <1>3. \A i \in DOMAIN X : X[i] # x
    BY DEF ToSet
  <1>4. \A i, j \in DOMAIN X : X[i] = X[j] => i = j
    BY DEF IsInjective
  <1>5. \A i \in DOMAIN X : /\ i < n => i \in DOMAIN Y /\ Y[i] = X[i]
                            /\ i >= n => i + 1 \in DOMAIN Y /\ Y[i + 1] = X[i]
    <2>1. \A i \in DOMAIN X : i \in Nat /\ (i + 1) - 1 = i /\ (i >= n => i + 1 > n)
      BY <1>1
    <2>q. QED BY <1>1, <1>2, <2>1
  <1>6. n \in DOMAIN Y /\ Y[n] = x
    BY <1>1, <1>2
  <1>7. IsInjective(Y)
    <2>1. ASSUME NEW k \in DOMAIN Y, NEW l \in DOMAIN Y, Y[k] = Y[l], k < l PROVE FALSE
      <3>1. k \in Nat /\ l \in Nat /\ n \in Nat
        BY <1>1
      <3>2. CASE l < n
        BY <1>1, <1>2, <1>4, <2>1, <3>1, <3>2
      <3>3. CASE k = n \/ l = n
        BY <1>1, <1>2, <1>3, <2>1, <3>1, <3>3
      <3>4. CASE k < n /\ l > n
        <4>1. Y[k] = X[k] /\ Y[l] = X[l - 1] /\ k \in DOMAIN X /\ l - 1 \in DOMAIN X
          BY <1>1, <1>2, <3>4
        <4>2. k = l - 1
          BY <1>4, <2>1, <4>1
        <4>q. QED BY <3>1, <3>4, <4>2
      <3>5. CASE k > n
        <4>1. Y[k] = X[k - 1] /\ Y[l] = X[l - 1] /\ k - 1 \in DOMAIN X /\ l - 1 \in DOMAIN X
          BY <1>1, <1>2, <2>1, <3>1, <3>5
        <4>2. k - 1 = l - 1
          BY <1>4, <2>1, <4>1
        <4>q. QED BY <2>1, <3>1, <4>2
      <3>q. QED BY <2>1, <3>1, <3>2, <3>3, <3>4, <3>5
    <2>2. \A k, l \in DOMAIN Y : k # l => k < l \/ l < k
      BY <1>1
    <2>3. \A k, l \in DOMAIN Y : Y[k] = Y[l] => k = l
      BY <2>1, <2>2
    <2>q. QED BY <2>3 DEF IsInjective
  <1>8. ToSet(Y) = ToSet(X) \cup {x}
    <2>1. ASSUME NEW y \in ToSet(X) PROVE y \in ToSet(Y)
      <3>1. PICK i \in DOMAIN X : y = X[i]
        BY DEF ToSet
      <3>2. i < n \/ i >= n
        BY <1>1
      <3>q. QED BY <1>5, <3>1, <3>2 DEF ToSet
    <2>2. x \in ToSet(Y)
      BY <1>6 DEF ToSet
    <2>3. ASSUME NEW y \in ToSet(Y) PROVE y \in ToSet(X) \cup {x}
      <3>1. PICK k \in DOMAIN Y : y = Y[k]
        BY DEF ToSet
      <3>2. k < n \/ k = n \/ k > n
        BY <1>1
      <3>q. QED BY <1>1, <1>2, <3>1, <3>2 DEF ToSet
    <2>q. QED BY <2>1, <2>2, <2>3
  <1>9. ASSUME NEW a, NEW b, Before(X, a, b) PROVE Before(Y, a, b)
    <2>1. PICK i \in DOMAIN X, j \in DOMAIN X : i < j /\ X[i] = a /\ X[j] = b
      BY <1>9 DEF Before
    <2>2. i \in Nat /\ j \in Nat /\ n \in Nat
      BY <1>1
    <2>3. CASE j < n
      BY <1>5, <2>1, <2>2, <2>3 DEF Before
    <2>4. CASE i < n /\ j >= n
      <3>1. i \in DOMAIN Y /\ j + 1 \in DOMAIN Y /\ i < j + 1 /\ Y[i] = a /\ Y[j + 1] = b
        BY <1>5, <2>1, <2>2, <2>4
      <3>q. QED BY <3>1 DEF Before
    <2>5. CASE i >= n
      <3>1. i + 1 \in DOMAIN Y /\ j + 1 \in DOMAIN Y /\ i + 1 < j + 1 /\ Y[i + 1] = a /\ Y[j + 1] = b
        BY <1>5, <2>1, <2>2, <2>5
      <3>q. QED BY <3>1 DEF Before
    <2>q. QED BY <2>1, <2>2, <2>3, <2>4, <2>5
  <1>10. ASSUME NEW a \in ToSet(X), NEW b \in ToSet(X), Before(Y, a, b) PROVE Before(X, a, b)
    <2>1. a # b /\ ~Before(Y, b, a)
      BY <1>7, <1>10, BeforeTotal
    <2>2. Before(X, a, b) \/ Before(X, b, a)
      BY <2>1, BeforeTotal
    <2>q. QED BY <1>9, <2>1, <2>2
  <1>11. ASSUME NEW i \in DOMAIN X, i < n PROVE Before(Y, X[i], x)
    BY <1>5, <1>6, <1>11 DEF Before
  <1>12. ASSUME NEW i \in DOMAIN X, i >= n PROVE Before(Y, x, X[i])
    <2>1. i + 1 \in DOMAIN Y /\ Y[i + 1] = X[i] /\ n < i + 1
      BY <1>1, <1>5, <1>12
    <2>q. QED BY <1>6, <2>1 DEF Before
  <1>q. QED BY <1>7, <1>8, <1>9, <1>10, <1>11, <1>12

\* Y is X with some left out.
Thinned(X, Y) ==
    /\ \A a \in DOMAIN Y : \E i \in DOMAIN X : Y[a] = X[i]
    /\ \A a, b \in DOMAIN Y : a < b =>
          \E i, j \in DOMAIN X : i < j /\ Y[a] = X[i] /\ Y[b] = X[j]

LEMMA ThinnedOrder ==
    ASSUME NEW T, NEW X \in Seq(T), IsInjective(X), NEW Y \in Seq(T), Thinned(X, Y)
    PROVE  /\ IsInjective(Y)
           /\ \A a, b \in ToSet(Y) : Before(Y, a, b) <=> Before(X, a, b)
  <1>1. /\ DOMAIN X = 1..Len(X) /\ Len(X) \in Nat
        /\ DOMAIN Y = 1..Len(Y) /\ Len(Y) \in Nat
    OBVIOUS
  <1>2. \A i, j \in DOMAIN X : X[i] = X[j] => i = j
    BY DEF IsInjective
  <1>3. ASSUME NEW a \in DOMAIN Y, NEW b \in DOMAIN Y, a < b PROVE Y[a] # Y[b]
    <2>1. PICK i \in DOMAIN X, j \in DOMAIN X : i < j /\ Y[a] = X[i] /\ Y[b] = X[j]
      BY <1>3 DEF Thinned
    <2>q. QED BY <1>1, <1>2, <2>1
  <1>4. IsInjective(Y)
    <2>1. \A a, b \in DOMAIN Y : a # b => a < b \/ b < a
      BY <1>1
    <2>2. \A a, b \in DOMAIN Y : Y[a] = Y[b] => a = b
      BY <1>3, <2>1
    <2>q. QED BY <2>2 DEF IsInjective
  <1>5. ASSUME NEW a, NEW b, Before(Y, a, b) PROVE Before(X, a, b)
    <2>1. PICK k \in DOMAIN Y, l \in DOMAIN Y : k < l /\ Y[k] = a /\ Y[l] = b
      BY <1>5 DEF Before
    <2>2. PICK i \in DOMAIN X, j \in DOMAIN X : i < j /\ Y[k] = X[i] /\ Y[l] = X[j]
      BY <2>1 DEF Thinned
    <2>q. QED BY <2>1, <2>2 DEF Before
  <1>6. ASSUME NEW a \in ToSet(Y), NEW b \in ToSet(Y), Before(X, a, b) PROVE Before(Y, a, b)
    <2>1. a # b /\ ~Before(X, b, a)
      BY <1>6, BeforeTotal
    <2>2. Before(Y, a, b) \/ Before(Y, b, a)
      BY <1>4, <2>1, BeforeTotal
    <2>q. QED BY <1>5, <2>1, <2>2
  <1>q. QED BY <1>4, <1>5, <1>6

LEMMA OnlyOrder ==
    ASSUME NEW T, NEW X \in Seq(T), IsInjective(X), NEW S
    PROVE  /\ Only(X, S) \in Seq(T) /\ IsInjective(Only(X, S))
           /\ ToSet(Only(X, S)) = ToSet(X) \cap S
           /\ \A a, b \in S : Before(Only(X, S), a, b) <=> Before(X, a, b)
  <1>1. PICK Y : Y = Only(X, S)
    OBVIOUS
  <1>2. Y \in Seq(T) /\ \A x : (\E a \in DOMAIN Y : Y[a] = x) <=> x \in S /\ \E i \in DOMAIN X : X[i] = x
    BY <1>1, OnlyKeeps
  <1>3. ToSet(Y) = ToSet(X) \cap S
    BY <1>2 DEF ToSet
  <1>4. \A a, b \in DOMAIN Y : a < b => \E i, j \in DOMAIN X : i < j /\ Y[a] = X[i] /\ Y[b] = X[j]
    BY <1>1, OnlyKeeps
  <1>5. Thinned(X, Y)
    BY <1>2, <1>4 DEF Thinned
  <1>6. IsInjective(Y) /\ \A a, b \in ToSet(Y) : Before(Y, a, b) <=> Before(X, a, b)
    BY <1>2, <1>5, ThinnedOrder
  <1>7. ASSUME NEW a \in S, NEW b \in S PROVE Before(Y, a, b) <=> Before(X, a, b)
    BY <1>2, <1>3, <1>6, BeforeTotal
  <1>q. QED BY <1>1, <1>2, <1>3, <1>6, <1>7


-----------------------------------------------------------------------------
(* place_arrivals *)

LEMMA RowIdsAre ==
    ASSUME NEW rows \in Seq(Row)
    PROVE  /\ RowIds(rows) \in Seq(Msgs) /\ Len(RowIds(rows)) = Len(rows)
           /\ DOMAIN RowIds(rows) = DOMAIN rows
           /\ \A i \in DOMAIN rows : RowIds(rows)[i] = rows[i].id /\ rows[i] \in Row /\ rows[i].id \in Msgs
           /\ \A m : HasRow(rows, m) <=> m \in ToSet(RowIds(rows))
  <1>1. PICK R : R = [i \in DOMAIN rows |-> rows[i].id]
    OBVIOUS
  <1>2. DOMAIN rows = 1..Len(rows) /\ Len(rows) \in Nat
    OBVIOUS
  <1>3. \A i \in DOMAIN rows : rows[i] \in Row /\ rows[i].id \in Msgs
    <2>1. \A i \in DOMAIN rows : rows[i] \in Row
      OBVIOUS
    <2>2. \A r \in Row : r.id \in Msgs
      BY DEF Row
    <2>q. QED BY <2>1, <2>2
  <1>4. R \in Seq(Msgs) /\ Len(R) = Len(rows) /\ DOMAIN R = DOMAIN rows
    BY <1>1, <1>2, <1>3
  <1>5. \A m : HasRow(rows, m) <=> m \in ToSet(R)
    BY <1>1, <1>4 DEF HasRow, ToSet
  <1>q. QED BY <1>1, <1>3, <1>4, <1>5 DEF RowIds

Placing(rows, ids, arrived, k, f) ==
    f = [i \in 0..k |-> IF i = 0 THEN [rows |-> rows, next |-> 1] ELSE Place(f[i - 1], ids[i], arrived)]

LEMMA PlacingAll ==
    ASSUME NEW rows, NEW ids, NEW arrived, NEW n \in Nat
    PROVE  \E f : Placing(rows, ids, arrived, n, f)
  <1> DEFINE Bad == {k \in 0..n : ~\E f : Placing(rows, ids, arrived, k, f)}
             To(f, i) == Place(f[i - 1], ids[i], arrived)
             start == [rows |-> rows, next |-> 1]
  <1>1. SUFFICES ASSUME Bad # {} PROVE FALSE
    OBVIOUS
  <1>2. PICK k \in Bad : \A j \in Bad : k <= j
    <2>1. Bad \in SUBSET Nat
      OBVIOUS
    <2> HIDE DEF Bad
    <2>q. QED BY <1>1, <2>1, Least
  <1>3. CASE k = 0
    <2>1. PICK f : f = [i \in 0..0 |-> start]
      OBVIOUS
    <2>2. Placing(rows, ids, arrived, 0, f)
      BY <2>1 DEF Placing
    <2>q. QED BY <1>2, <1>3, <2>2
  <1>4. CASE k > 0
    <2>1. k - 1 \in 0..n /\ k - 1 \notin Bad /\ k \in Nat
      BY <1>2, <1>4
    <2>2. PICK f : Placing(rows, ids, arrived, k - 1, f)
      BY <2>1
    <2>3. PICK g : g = [i \in 0..k |-> IF i = k THEN To(f, k) ELSE f[i]]
      OBVIOUS
    <2>4. \A i \in 0..k - 1 : g[i] = f[i]
      BY <2>1, <2>3
    <2>5. \A i \in 0..k - 1 : f[i] = IF i = 0 THEN start ELSE To(f, i)
      BY <2>2 DEF Placing
    <2>6. ASSUME NEW i \in 0..k PROVE g[i] = IF i = 0 THEN start ELSE To(g, i)
      <3>1. CASE i = k
        BY <1>4, <2>1, <2>3, <2>4, <3>1
      <3>2. CASE i < k
        <4>1. i = 0 \/ i - 1 \in 0..k - 1
          BY <2>1, <3>2
        <4>q. QED BY <2>1, <2>4, <2>5, <3>2, <4>1
      <3>q. QED BY <2>1, <3>1, <3>2
    <2>7. Placing(rows, ids, arrived, k, g)
      BY <2>3, <2>6 DEF Placing
    <2>q. QED BY <1>2, <2>7
  <1>q. QED BY <1>2, <1>3, <1>4

LEMMA PlacedPlaces ==
    ASSUME NEW rows, NEW ids, NEW arrived, Len(ids) \in Nat
    PROVE  \E f : Placing(rows, ids, arrived, Len(ids), f) /\ Placed(rows, ids, arrived) = f[Len(ids)].rows
  <1>1. \E f : Placing(rows, ids, arrived, Len(ids), f)
    BY PlacingAll
  <1>2. PICK f : f = CHOOSE g : g = [i \in 0..Len(ids) |-> IF i = 0 THEN [rows |-> rows, next |-> 1]
                                                           ELSE Place(g[i - 1], ids[i], arrived)]
    OBVIOUS
  <1>3. Placing(rows, ids, arrived, Len(ids), f)
    BY <1>1, <1>2 DEF Placing
  <1>4. Placed(rows, ids, arrived) = f[Len(ids)].rows
    BY <1>2 DEF Placed
  <1>q. QED BY <1>3, <1>4

\* Rows that are those of ids but for the arrivals, in its order, and maybe others.
Placeable(rows, ids, arrived) ==
    /\ rows \in Seq(Row) /\ IsInjective(RowIds(rows))
    /\ ids \in Seq(Msgs) /\ IsInjective(ids)
    /\ arrived \cap ToSet(RowIds(rows)) = {}
    /\ ToSet(ids) \subseteq arrived \cup ToSet(RowIds(rows))
    /\ InOrder(rows, ids)

\* What is there once the first i ids are placed; the last of them is before `next`.
InPlace(rows, ids, arrived, i, at) ==
    LET R == RowIds(rows)
        P == RowIds(at.rows) IN
    /\ at = [rows |-> at.rows, next |-> at.next]
    /\ at.rows \in Seq(Row) /\ at.next \in 1..Len(at.rows) + 1
    /\ IsInjective(P)
    /\ \A m : m \in ToSet(P) <=> m \in ToSet(R) \/ (m \in arrived /\ \E k \in 1..i : ids[k] = m)
    /\ \A a, b \in ToSet(R) : Before(P, a, b) <=> Before(R, a, b)
    /\ \A r \in ToSet(at.rows) : r \in ToSet(rows) \/ (r.ver = 0 /\ r.id \in arrived)
    /\ i = 0 => at.next = 1
    /\ i > 0 => at.next > 1 /\ P[at.next - 1] = ids[i]
    /\ \A k, l \in 1..i : k < l => Before(P, ids[k], ids[l])
    /\ \A b \in ToSet(R) :
          (\A k \in 1..i : ids[k] # b /\ (ids[k] \in ToSet(R) => Before(R, ids[k], b)))
          => \A k \in 1..i : Before(P, ids[k], b)

LEMMA InPlaceFirst ==
    ASSUME NEW rows, NEW ids, NEW arrived, Placeable(rows, ids, arrived)
    PROVE  InPlace(rows, ids, arrived, 0, [rows |-> rows, next |-> 1])
  <1>1. rows \in Seq(Row) /\ Len(rows) \in Nat
    BY DEF Placeable
  <1>q. QED BY <1>1 DEF Placeable, InPlace

LEMMA BlankRow == ASSUME NEW m \in Msgs PROVE [id |-> m, ver |-> 0] \in Row
  BY DEF Row

\* An arrival is put in.
LEMMA InPlaceArrival ==
    ASSUME NEW rows, NEW ids, NEW arrived, Placeable(rows, ids, arrived),
           NEW i \in 1..Len(ids), NEW at, InPlace(rows, ids, arrived, i - 1, at),
           ids[i] \in arrived
    PROVE  InPlace(rows, ids, arrived, i, Place(at, ids[i], arrived))
  <1> DEFINE R == RowIds(rows)
             P == RowIds(at.rows)
             n == at.next
             m == ids[i]
  <1>1. PICK new : new = InsertAt(at.rows, n, [id |-> m, ver |-> 0])
    OBVIOUS
  <1>2. Place(at, m, arrived) = [rows |-> new, next |-> n + 1]
    BY <1>1 DEF Place
  <1>3. /\ ids \in Seq(Msgs) /\ m \in Msgs /\ i \in Nat /\ Len(ids) \in Nat
        /\ \A k, l \in 1..Len(ids) : ids[k] = ids[l] => k = l
    BY DEF Placeable, IsInjective
  <1>4. /\ at.rows \in Seq(Row) /\ n \in 1..Len(at.rows) + 1 /\ IsInjective(P)
        /\ P \in Seq(Msgs) /\ Len(P) = Len(at.rows) /\ DOMAIN P = DOMAIN at.rows
        /\ DOMAIN P = 1..Len(P) /\ Len(P) \in Nat
    BY RowIdsAre DEF InPlace
  <1>5. [id |-> m, ver |-> 0] \in Row
    BY <1>3, BlankRow
  <1>6. new \in Seq(Row) /\ Inserted(at.rows, n, [id |-> m, ver |-> 0], new)
    BY <1>1, <1>4, <1>5, InsertAtInserts
  <1> DEFINE Q == RowIds(new)
  <1>7. Q \in Seq(Msgs) /\ Len(Q) = Len(new) /\ \A k \in DOMAIN new : Q[k] = new[k].id
    BY <1>6, RowIdsAre
  <1>8. Inserted(P, n, m, Q)
    <2>1. Len(new) = Len(P) + 1 /\ DOMAIN new = 1..Len(P) + 1 /\ n \in Nat
      BY <1>4, <1>6 DEF Inserted
    <2>2. ASSUME NEW k \in 1..Len(P) + 1
          PROVE  Q[k] = IF k < n THEN P[k] ELSE IF k = n THEN m ELSE P[k - 1]
      <3>1. new[k] = IF k < n THEN at.rows[k] ELSE IF k = n THEN [id |-> m, ver |-> 0] ELSE at.rows[k - 1]
        BY <1>4, <1>6 DEF Inserted
      <3>2. /\ k < n => k \in DOMAIN at.rows
            /\ (k # n /\ ~(k < n)) => k - 1 \in DOMAIN at.rows
        BY <1>4, <2>1
      <3>3. \A j \in DOMAIN at.rows : P[j] = at.rows[j].id
        BY <1>4, RowIdsAre
      <3>q. QED BY <1>7, <2>1, <3>1, <3>2, <3>3
    <2>q. QED BY <1>4, <1>7, <2>1, <2>2 DEF Inserted
  <1>9. m \notin ToSet(R) /\ m \notin ToSet(P)
    <2>1. m \notin ToSet(R)
      BY DEF Placeable
    <2>2. \A k \in 1..i - 1 : ids[k] # m
      BY <1>3
    <2>q. QED BY <2>1, <2>2 DEF InPlace
  <1>10. /\ IsInjective(Q) /\ ToSet(Q) = ToSet(P) \cup {m}
         /\ \A a, b \in ToSet(P) : Before(Q, a, b) <=> Before(P, a, b)
         /\ \A j \in DOMAIN P : j < n => Before(Q, P[j], m)
         /\ \A j \in DOMAIN P : j >= n => Before(Q, m, P[j])
    <2> HIDE DEF P, Q, n, m
    <2>q. QED BY <1>4, <1>7, <1>8, <1>9, InsertedOrder
  <1>11. ToSet(R) \subseteq ToSet(P)
    BY DEF InPlace
  <1>12. \A k \in 1..i - 1 : ids[k] \in ToSet(P)
    <2>1. \A k \in 1..i - 1 : ids[k] \in ToSet(ids)
      BY <1>3 DEF ToSet
    <2>q. QED BY <2>1 DEF InPlace, Placeable
  <1>13. \A k \in 1..i : k = i \/ k \in 1..i - 1
    BY <1>3
  <1>14. \A k \in 1..i - 1 : k \in 1..i
    BY <1>3
  <1>15. new \in Seq(Row) /\ n + 1 \in 1..Len(new) + 1
    BY <1>4, <1>6 DEF Inserted
  <1>16. \A x : x \in ToSet(Q) <=> x \in ToSet(R) \/ (x \in arrived /\ \E k \in 1..i : ids[k] = x)
    <2>1. \A x : x \in ToSet(P) <=> x \in ToSet(R) \/ (x \in arrived /\ \E k \in 1..i - 1 : ids[k] = x)
      BY DEF InPlace
    <2>2. i \in 1..i
      BY <1>3
    <2>3. \A x : (\E k \in 1..i : ids[k] = x) <=> x = m \/ \E k \in 1..i - 1 : ids[k] = x
      BY <1>13, <1>14, <2>2
    <2>q. QED BY <1>10, <2>1, <2>3
  <1>17. \A a, b \in ToSet(R) : Before(Q, a, b) <=> Before(R, a, b)
    BY <1>10, <1>11 DEF InPlace
  <1>18. \A r \in ToSet(new) : r \in ToSet(rows) \/ (r.ver = 0 /\ r.id \in arrived)
    <2>1. ASSUME NEW k \in DOMAIN new PROVE new[k] = [id |-> m, ver |-> 0] \/ new[k] \in ToSet(at.rows)
      <3>1. k \in 1..Len(P) + 1 /\ k \in Nat /\ n \in Nat
        BY <1>4, <1>6 DEF Inserted
      <3>2. new[k] = IF k < n THEN at.rows[k] ELSE IF k = n THEN [id |-> m, ver |-> 0] ELSE at.rows[k - 1]
        BY <1>4, <1>6, <3>1 DEF Inserted
      <3>3. /\ k < n => k \in DOMAIN at.rows
            /\ k > n => k - 1 \in DOMAIN at.rows
        BY <1>4, <3>1
      <3>4. k < n \/ k = n \/ k > n
        BY <3>1
      <3>q. QED BY <3>1, <3>2, <3>3, <3>4 DEF ToSet
    <2>2. \A r \in ToSet(at.rows) : r \in ToSet(rows) \/ (r.ver = 0 /\ r.id \in arrived)
      BY DEF InPlace
    <2>q. QED BY <2>1, <2>2 DEF ToSet
  <1>19. n + 1 > 1 /\ Q[n] = m
    <2>1. n \in 1..Len(P) + 1
      BY <1>4
    <2>q. QED BY <1>4, <1>8, <2>1 DEF Inserted
  \* The ids placed are before the new row,
  <1>20. \A k \in 1..i - 1 : Before(Q, ids[k], m)
    <2> SUFFICES ASSUME NEW k \in 1..i - 1 PROVE Before(Q, ids[k], m)
      OBVIOUS
    <2>1. n > 1 /\ P[n - 1] = ids[i - 1] /\ n - 1 \in DOMAIN P /\ n - 1 < n
      BY <1>3, <1>4 DEF InPlace
    <2>2. Before(Q, ids[i - 1], m)
      BY <1>10, <2>1
    <2>3. CASE k = i - 1
      BY <2>2, <2>3
    <2>4. CASE k < i - 1
      <3>1. Before(P, ids[k], ids[i - 1])
        <4>1. i - 1 \in 1..i - 1
          BY <1>3
        <4>q. QED BY <2>4, <4>1 DEF InPlace
      <3>2. PICK a \in DOMAIN P, b \in DOMAIN P : a < b /\ P[a] = ids[k] /\ P[b] = ids[i - 1]
        BY <3>1 DEF Before
      <3>3. b = n - 1
        BY <1>4, <2>1, <3>2 DEF IsInjective
      <3>4. a < n
        BY <1>4, <3>2, <3>3
      <3>q. QED BY <1>10, <3>2, <3>4
    <2>q. QED BY <1>3, <2>3, <2>4
  <1>21. \A k, l \in 1..i : k < l => Before(Q, ids[k], ids[l])
    <2> SUFFICES ASSUME NEW k \in 1..i, NEW l \in 1..i, k < l PROVE Before(Q, ids[k], ids[l])
      OBVIOUS
    <2>1. k \in 1..i - 1
      BY <1>3
    <2>2. CASE l = i
      BY <1>20, <2>1, <2>2
    <2>3. CASE l \in 1..i - 1
      BY <1>10, <1>12, <2>1, <2>3 DEF InPlace
    <2>q. QED BY <1>13, <2>2, <2>3
  \* and a row past them all is past the new one.
  <1>22. ASSUME NEW b \in ToSet(R),
                \A k \in 1..i : ids[k] # b /\ (ids[k] \in ToSet(R) => Before(R, ids[k], b))
         PROVE  \A k \in 1..i : Before(Q, ids[k], b)
    <2>1. \A k \in 1..i - 1 : Before(P, ids[k], b)
      BY <1>14, <1>22 DEF InPlace
    <2>2. \A k \in 1..i - 1 : Before(Q, ids[k], b)
      BY <1>10, <1>11, <1>12, <2>1
    <2>3. PICK j \in DOMAIN P : P[j] = b
      BY <1>11 DEF ToSet
    <2>4. j >= n
      <3>1. CASE i = 1
        BY <1>4, <3>1 DEF InPlace
      <3>2. CASE i > 1
        <4>1. i - 1 \in 1..i - 1 /\ i - 1 > 0
          BY <1>3, <3>2
        <4>2. P[n - 1] = ids[i - 1] /\ n - 1 \in DOMAIN P
          BY <1>4, <4>1 DEF InPlace
        <4>3. PICK c \in DOMAIN P, d \in DOMAIN P : c < d /\ P[c] = ids[i - 1] /\ P[d] = b
          BY <2>1, <4>1 DEF Before
        <4>4. c = n - 1 /\ d = j
          BY <1>4, <2>3, <4>2, <4>3 DEF IsInjective
        <4>q. QED BY <1>4, <4>3, <4>4
      <3>q. QED BY <1>3, <3>1, <3>2
    <2>5. Before(Q, m, b)
      BY <1>10, <2>3, <2>4
    <2>q. QED BY <1>13, <2>2, <2>5
  <1>23. n + 1 - 1 = n /\ i > 0 /\ i # 0
    BY <1>3, <1>4
  <1>24. PICK at2 : at2 = [rows |-> new, next |-> n + 1]
    OBVIOUS
  <1>25. at2.rows = new /\ at2.next = n + 1 /\ at2 = [rows |-> at2.rows, next |-> at2.next]
    BY <1>24
  <1>26. InPlace(rows, ids, arrived, i, at2)
    BY <1>10, <1>15, <1>16, <1>17, <1>18, <1>19, <1>21, <1>22, <1>23, <1>25 DEF InPlace
  <1>q. QED BY <1>2, <1>24, <1>26

\* A row that is there already.
LEMMA InPlaceHeld ==
    ASSUME NEW rows, NEW ids, NEW arrived, Placeable(rows, ids, arrived),
           NEW i \in 1..Len(ids), NEW at, InPlace(rows, ids, arrived, i - 1, at),
           ids[i] \notin arrived
    PROVE  InPlace(rows, ids, arrived, i, Place(at, ids[i], arrived))
  <1> DEFINE R == RowIds(rows)
             P == RowIds(at.rows)
             m == ids[i]
  <1>1. /\ ids \in Seq(Msgs) /\ m \in Msgs /\ i \in Nat /\ Len(ids) \in Nat
        /\ \A k, l \in 1..Len(ids) : ids[k] = ids[l] => k = l
    BY DEF Placeable, IsInjective
  <1>2. /\ at.rows \in Seq(Row) /\ IsInjective(P)
        /\ P \in Seq(Msgs) /\ Len(P) = Len(at.rows) /\ DOMAIN P = DOMAIN at.rows
        /\ DOMAIN P = 1..Len(P) /\ Len(P) \in Nat
        /\ \A j \in DOMAIN P : P[j] = at.rows[j].id
    BY RowIdsAre DEF InPlace
  <1>3. m \in ToSet(R) /\ m \in ToSet(P)
    <2>1. m \in ToSet(ids)
      BY <1>1 DEF ToSet
    <2>2. m \in ToSet(R)
      BY <2>1 DEF Placeable
    <2>q. QED BY <2>2 DEF InPlace
  <1>4. HasRow(at.rows, m)
    BY <1>2, <1>3, RowIdsAre
  <1>5. PICK p : p = CHOOSE j \in DOMAIN at.rows : at.rows[j].id = m
    OBVIOUS
  <1>6. p \in DOMAIN P /\ P[p] = m
    BY <1>2, <1>4, <1>5 DEF HasRow
  <1>7. PICK at2 : at2 = Place(at, m, arrived)
    OBVIOUS
  <1>8. at2 = [at EXCEPT !.next = p + 1]
    BY <1>4, <1>5, <1>7 DEF Place
  <1>9. at = [rows |-> at.rows, next |-> at.next]
    BY DEF InPlace
  <1>10. at2.rows = at.rows /\ at2.next = p + 1 /\ at2 = [rows |-> at2.rows, next |-> at2.next]
    BY <1>8, <1>9
  <1>11. \A k \in 1..i : k = i \/ k \in 1..i - 1
    BY <1>1
  <1>12. \A k \in 1..i - 1 : k \in 1..i /\ k < i /\ k \in 1..Len(ids)
    BY <1>1
  <1>13. \A x : x \in ToSet(P) <=> x \in ToSet(R) \/ (x \in arrived /\ \E k \in 1..i : ids[k] = x)
    <2>1. \A x : x \in ToSet(P) <=> x \in ToSet(R) \/ (x \in arrived /\ \E k \in 1..i - 1 : ids[k] = x)
      BY DEF InPlace
    <2>2. \A x \in arrived : (\E k \in 1..i : ids[k] = x) <=> \E k \in 1..i - 1 : ids[k] = x
      BY <1>11, <1>12
    <2>q. QED BY <2>1, <2>2
  \* It is past all ids placed before.
  <1>14. \A k \in 1..i - 1 : ids[k] # m
    BY <1>1, <1>12
  <1>15. \A k \in 1..i - 1 : ids[k] \in ToSet(R) => Before(R, ids[k], m)
    <2> SUFFICES ASSUME NEW k \in 1..i - 1, ids[k] \in ToSet(R) PROVE Before(R, ids[k], m)
      OBVIOUS
    <2>1. Before(ids, ids[k], m) /\ ids[k] \in ToSet(ids) /\ m \in ToSet(ids)
      BY <1>1, <1>12 DEF Before, ToSet
    <2>2. R \in Seq(Msgs) /\ IsInjective(R)
      BY RowIdsAre DEF Placeable
    <2>3. Before(R, ids[k], m) \/ Before(R, m, ids[k])
      BY <1>3, <1>14, <2>2, BeforeTotal
    <2>4. ~Before(ids, m, ids[k])
      BY <2>1, BeforeTotal DEF Placeable
    <2>q. QED BY <2>1, <2>3, <2>4 DEF Placeable, InOrder
  <1>16. \A k \in 1..i - 1 : Before(P, ids[k], m)
    BY <1>3, <1>14, <1>15 DEF InPlace
  <1>17. \A k, l \in 1..i : k < l => Before(P, ids[k], ids[l])
    <2> SUFFICES ASSUME NEW k \in 1..i, NEW l \in 1..i, k < l PROVE Before(P, ids[k], ids[l])
      OBVIOUS
    <2>1. k \in 1..i - 1
      BY <1>1
    <2>2. CASE l = i
      BY <1>16, <2>1, <2>2
    <2>3. CASE l \in 1..i - 1
      BY <2>1, <2>3 DEF InPlace
    <2>q. QED BY <1>11, <2>2, <2>3
  <1>18. ASSUME NEW b \in ToSet(R),
                \A k \in 1..i : ids[k] # b /\ (ids[k] \in ToSet(R) => Before(R, ids[k], b))
         PROVE  \A k \in 1..i : Before(P, ids[k], b)
    <2>1. \A k \in 1..i - 1 : Before(P, ids[k], b)
      BY <1>12, <1>18 DEF InPlace
    <2>2. Before(R, m, b)
      <3>1. i \in 1..i
        BY <1>1
      <3>q. QED BY <1>3, <1>18, <3>1
    <2>3. Before(P, m, b)
      BY <1>3, <2>2 DEF InPlace
    <2>q. QED BY <1>11, <2>1, <2>3
  <1>19. p + 1 \in 1..Len(at.rows) + 1 /\ p + 1 > 1 /\ (p + 1) - 1 = p /\ i # 0 /\ i > 0
    BY <1>1, <1>2, <1>6
  <1>20. InPlace(rows, ids, arrived, i, at2)
    BY <1>2, <1>6, <1>10, <1>13, <1>17, <1>18, <1>19 DEF InPlace
  <1>q. QED BY <1>7, <1>20

\* place_arrivals: rows keep their order, those of ids have its order, and a row that is past
\* all those of ids is past all arrivals too.
PlacedSo(rows, ids, arrived, out) ==
    LET R == RowIds(rows)
        P == RowIds(out) IN
    /\ out \in Seq(Row) /\ IsInjective(P)
    /\ ToSet(P) = ToSet(R) \cup (arrived \cap ToSet(ids))
    /\ \A a, b \in ToSet(R) : Before(P, a, b) <=> Before(R, a, b)
    /\ \A r \in ToSet(out) : r \in ToSet(rows) \/ (r.ver = 0 /\ r.id \in arrived)
    /\ \A a, b : Before(ids, a, b) => Before(P, a, b)
    /\ \A b \in ToSet(R) \ ToSet(ids) :
          (\A c \in ToSet(ids) \cap ToSet(R) : Before(R, c, b)) => \A a \in ToSet(ids) : Before(P, a, b)

LEMMA PlacedIs ==
    ASSUME NEW rows, NEW ids, NEW arrived, Placeable(rows, ids, arrived),
           NEW out, out = Placed(rows, ids, arrived)
    PROVE  PlacedSo(rows, ids, arrived, out)
  <1>1. ids \in Seq(Msgs)
    BY DEF Placeable
  <1>0. PICK n \in Nat : \E f : /\ n = Len(ids) /\ Placing(rows, ids, arrived, n, f)
                                 /\ out = f[n].rows
    BY <1>1, PlacedPlaces
  <1>2. PICK f : n = Len(ids) /\ Placing(rows, ids, arrived, n, f) /\ out = f[n].rows
    BY <1>0
  <1> DEFINE Good_(k) == InPlace(rows, ids, arrived, k, f[k])
             Bad == {k \in 0..n : ~Good_(k)}
  <1>3. Good_(0)
    <2>1. f[0] = [rows |-> rows, next |-> 1]
      BY <1>2 DEF Placing
    <2>q. QED BY <2>1, InPlaceFirst
  <1>4. ASSUME NEW k \in 1..n, Good_(k - 1) PROVE Good_(k)
    <2>1. k \in 0..n /\ k # 0
      OBVIOUS
    <2>2. f[k] = Place(f[k - 1], ids[k], arrived)
      BY <1>2, <2>1 DEF Placing
    <2>q. QED BY <1>2, <1>4, <2>2, InPlaceArrival, InPlaceHeld
  <1> HIDE DEF Good_
  <1>5. Bad = {}
    <2> SUFFICES ASSUME Bad # {} PROVE FALSE
      OBVIOUS
    <2>1. PICK k \in Bad : \A j \in Bad : k <= j
      <3>1. Bad \in SUBSET Nat
        OBVIOUS
      <3> HIDE DEF Bad
      <3>q. QED BY <3>1, Least
    <2>2. k \in 0..n /\ ~Good_(k) /\ \A j \in 0..n : j < k => Good_(j)
      BY <2>1
    <2>3. k # 0
      BY <1>3, <2>2
    <2>4. k \in 1..n /\ k - 1 \in 0..n /\ k - 1 < k
      BY <2>2, <2>3
    <2>q. QED BY <1>4, <2>2, <2>4
  <1>6. InPlace(rows, ids, arrived, n, f[n])
    <2>1. n \in 0..n
      OBVIOUS
    <2>2. Good_(n)
      BY <1>5, <2>1
    <2>q. QED BY <2>2 DEF Good_
  <1> HIDE DEF Bad
  <1>7. DOMAIN ids = 1..n
    BY <1>1, <1>2
  <1>8. PICK R, P : R = RowIds(rows) /\ P = RowIds(out)
    OBVIOUS
  <1>9. \A m : m \in ToSet(ids) <=> \E k \in 1..n : ids[k] = m
    BY <1>7 DEF ToSet
  <1>10. ToSet(P) = ToSet(R) \cup (arrived \cap ToSet(ids))
    <2>1. \A m : m \in ToSet(P) <=> m \in ToSet(R) \/ (m \in arrived /\ \E k \in 1..n : ids[k] = m)
      BY <1>2, <1>6, <1>8 DEF InPlace
    <2>q. QED BY <1>9, <2>1
  <1>11. ASSUME NEW a, NEW b, Before(ids, a, b) PROVE Before(P, a, b)
    <2>1. PICK k \in 1..n, l \in 1..n : k < l /\ ids[k] = a /\ ids[l] = b
      BY <1>7, <1>11 DEF Before
    <2>q. QED BY <1>2, <1>6, <1>8, <2>1 DEF InPlace
  <1>12. ASSUME NEW b \in ToSet(R) \ ToSet(ids),
                \A c \in ToSet(ids) \cap ToSet(R) : Before(R, c, b)
         PROVE  \A a \in ToSet(ids) : Before(P, a, b)
    <2>1. \A k \in 1..n : ids[k] # b /\ (ids[k] \in ToSet(R) => Before(R, ids[k], b))
      BY <1>9, <1>12
    <2>2. \A k \in 1..n : Before(P, ids[k], b)
      BY <1>2, <1>6, <1>8, <1>12, <2>1 DEF InPlace
    <2>q. QED BY <1>9, <2>2
  <1>13. /\ out \in Seq(Row) /\ IsInjective(P)
         /\ \A a, b \in ToSet(R) : Before(P, a, b) <=> Before(R, a, b)
         /\ \A r \in ToSet(out) : r \in ToSet(rows) \/ (r.ver = 0 /\ r.id \in arrived)
    BY <1>2, <1>6, <1>8 DEF InPlace
  <1>q. QED BY <1>8, <1>10, <1>11, <1>12, <1>13 DEF PlacedSo

-----------------------------------------------------------------------------
(* Rows that change *)

LEMMA SameSeq ==
    ASSUME NEW T, NEW X \in Seq(T), NEW Y \in Seq(T), Len(X) = Len(Y), \A i \in 1..Len(X) : X[i] = Y[i]
    PROVE  X = Y
  OBVIOUS

LEMMA RowIs ==
    /\ \A r \in Row : r.id \in Msgs /\ r.ver \in Nat
    /\ \A m \in Msgs, v \in Nat :
          [id |-> m, ver |-> v] \in Row /\ [id |-> m, ver |-> v].id = m /\ [id |-> m, ver |-> v].ver = v
  BY DEF Row

LEMMA LoadedRows ==
    ASSUME NEW ids \in Seq(Msgs), NEW items \in [Msgs -> Nat]
    PROVE  /\ RowsFor(ids, items) \in Seq(Row) /\ RowIds(RowsFor(ids, items)) = ids
           /\ \A r \in ToSet(RowsFor(ids, items)) : r.ver = items[r.id]
  <1>1. PICK out : out = [i \in DOMAIN ids |-> [id |-> ids[i], ver |-> items[ids[i]]]]
    OBVIOUS
  <1>2. DOMAIN ids = 1..Len(ids) /\ Len(ids) \in Nat /\ \A i \in DOMAIN ids : ids[i] \in Msgs
    OBVIOUS
  <1>3. \A i \in DOMAIN ids : out[i] = [id |-> ids[i], ver |-> items[ids[i]]]
    BY <1>1
  <1>4. \A i \in DOMAIN ids : out[i] \in Row /\ out[i].id = ids[i] /\ out[i].ver = items[ids[i]]
    <2>1. \A i \in DOMAIN ids : ids[i] \in Msgs /\ items[ids[i]] \in Nat
      BY <1>2
    <2>2. \A m \in Msgs, v \in Nat : /\ [id |-> m, ver |-> v] \in Row
                                     /\ [id |-> m, ver |-> v].id = m /\ [id |-> m, ver |-> v].ver = v
      BY RowIs
    <2> SUFFICES ASSUME NEW i \in DOMAIN ids
                 PROVE  out[i] \in Row /\ out[i].id = ids[i] /\ out[i].ver = items[ids[i]]
      OBVIOUS
    <2>3. PICK m \in Msgs, v \in Nat : m = ids[i] /\ v = items[ids[i]]
      BY <2>1
    <2>4. out[i] = [id |-> m, ver |-> v]
      BY <1>3, <2>3
    <2>q. QED BY <2>2, <2>3, <2>4
  <1>5. out \in [1..Len(ids) -> Row]
    BY <1>1, <1>2, <1>4
  <1>6. out \in Seq(Row) /\ Len(out) = Len(ids) /\ DOMAIN out = DOMAIN ids
    BY <1>1, <1>2, <1>5
  <1>7. \A r \in ToSet(out) : r.ver = items[r.id]
    BY <1>4, <1>6 DEF ToSet
  <1>8. RowIds(out) \in Seq(Msgs) /\ Len(RowIds(out)) = Len(ids) /\ \A i \in DOMAIN ids : RowIds(out)[i] = ids[i]
    BY <1>4, <1>6, RowIdsAre
  <1>9. RowIds(out) = ids
    BY <1>2, <1>8
  <1>q. QED BY <1>1, <1>6, <1>7, <1>9 DEF RowsFor

LEMMA FilledRows ==
    ASSUME NEW rows \in Seq(Row), NEW items \in [Msgs -> Nat]
    PROVE  /\ Filled(rows, items) \in Seq(Row) /\ RowIds(Filled(rows, items)) = RowIds(rows)
           /\ DOMAIN Filled(rows, items) = DOMAIN rows
           /\ \A i \in DOMAIN rows : Filled(rows, items)[i].ver =
                                        IF items[rows[i].id] = 0 THEN rows[i].ver ELSE items[rows[i].id]
  <1>1. PICK out : out = [i \in DOMAIN rows |-> IF items[rows[i].id] = 0 THEN rows[i]
                                                ELSE [rows[i] EXCEPT !.ver = items[rows[i].id]]]
    OBVIOUS
  <1>2. DOMAIN rows = 1..Len(rows) /\ Len(rows) \in Nat /\ \A i \in DOMAIN rows : rows[i] \in Row
    OBVIOUS
  <1>3. ASSUME NEW r \in Row, NEW v \in Nat
        PROVE  [r EXCEPT !.ver = v] \in Row /\ [r EXCEPT !.ver = v].id = r.id /\ [r EXCEPT !.ver = v].ver = v
    BY DEF Row
  <1>4. ASSUME NEW i \in DOMAIN rows
        PROVE  /\ out[i] \in Row /\ out[i].id = rows[i].id
               /\ out[i].ver = IF items[rows[i].id] = 0 THEN rows[i].ver ELSE items[rows[i].id]
    <2>1. rows[i] \in Row /\ rows[i].id \in Msgs
      BY <1>2, RowIs
    <2>2. items[rows[i].id] \in Nat
      BY <2>1
    <2>3. out[i] = IF items[rows[i].id] = 0 THEN rows[i] ELSE [rows[i] EXCEPT !.ver = items[rows[i].id]]
      BY <1>1
    <2>q. QED BY <1>3, <2>1, <2>2, <2>3
  <1>5. out \in [1..Len(rows) -> Row]
    BY <1>1, <1>2, <1>4
  <1>6. out \in Seq(Row) /\ Len(out) = Len(rows) /\ DOMAIN out = DOMAIN rows
    BY <1>1, <1>2, <1>5
  <1>7. /\ RowIds(out) \in Seq(Msgs) /\ Len(RowIds(out)) = Len(rows)
        /\ \A i \in DOMAIN rows : RowIds(out)[i] = out[i].id
    BY <1>6, RowIdsAre
  <1>8. /\ RowIds(rows) \in Seq(Msgs) /\ Len(RowIds(rows)) = Len(rows)
        /\ \A i \in DOMAIN rows : RowIds(rows)[i] = rows[i].id
    BY RowIdsAre
  <1>9. RowIds(out) = RowIds(rows)
    <2>1. \A i \in DOMAIN rows : RowIds(out)[i] = RowIds(rows)[i]
      BY <1>4, <1>7, <1>8
    <2>q. QED BY <1>2, <1>7, <1>8, <2>1, SameSeq
  <1>q. QED BY <1>1, <1>4, <1>6, <1>9 DEF Filled

\* drop_row, and what a sync leaves in.
OnlyThose(rows, S, out) ==
    /\ out \in Seq(Row) /\ IsInjective(RowIds(out))
    /\ ToSet(RowIds(out)) = ToSet(RowIds(rows)) \cap S
    /\ \A a, b \in S : Before(RowIds(out), a, b) <=> Before(RowIds(rows), a, b)
    /\ ToSet(out) \subseteq ToSet(rows)

LEMMA OnlyRows ==
    ASSUME NEW rows \in Seq(Row), IsInjective(RowIds(rows)), NEW S,
           NEW out, out = Only(rows, {r \in ToSet(rows) : r.id \in S})
    PROVE  OnlyThose(rows, S, out)
  <1>1. PICK T : T = {r \in ToSet(rows) : r.id \in S}
    OBVIOUS
  <1>0. out = Only(rows, T)
    BY <1>1
  <1>2. /\ out \in Seq(Row)
        /\ \A x : (\E a \in DOMAIN out : out[a] = x) <=> x \in T /\ \E i \in DOMAIN rows : rows[i] = x
        /\ \A a, b \in DOMAIN out : a < b => \E i, j \in DOMAIN rows : i < j /\ out[a] = rows[i] /\ out[b] = rows[j]
    <2>1. OnlyOf(Row, rows, T, out)
      BY <1>0, OnlyIs
    <2>q. QED BY <2>1 DEF OnlyOf
  <1>3. PICK R, P : R = RowIds(rows) /\ P = RowIds(out)
    OBVIOUS
  <1>4. /\ R \in Seq(Msgs) /\ DOMAIN R = DOMAIN rows /\ \A i \in DOMAIN rows : R[i] = rows[i].id
        /\ P \in Seq(Msgs) /\ DOMAIN P = DOMAIN out /\ \A i \in DOMAIN out : P[i] = out[i].id
        /\ IsInjective(R)
    BY <1>2, <1>3, RowIdsAre
  <1>5. Thinned(R, P)
    <2>1. ASSUME NEW a \in DOMAIN P PROVE \E i \in DOMAIN R : P[a] = R[i]
      <3>1. PICK i \in DOMAIN rows : rows[i] = out[a]
        BY <1>2, <1>4
      <3>q. QED BY <1>4, <3>1
    <2>2. ASSUME NEW a \in DOMAIN P, NEW b \in DOMAIN P, a < b
          PROVE  \E i, j \in DOMAIN R : i < j /\ P[a] = R[i] /\ P[b] = R[j]
      <3>0. a \in DOMAIN out /\ b \in DOMAIN out
        BY <1>4
      <3>1. PICK i \in DOMAIN rows, j \in DOMAIN rows : i < j /\ out[a] = rows[i] /\ out[b] = rows[j]
        BY <1>2, <2>2, <3>0
      <3>q. QED BY <1>4, <3>0, <3>1
    <2>q. QED BY <2>1, <2>2 DEF Thinned
  <1>6. IsInjective(P) /\ \A a, b \in ToSet(P) : Before(P, a, b) <=> Before(R, a, b)
    BY <1>4, <1>5, ThinnedOrder
  <1>7. ASSUME NEW m PROVE m \in ToSet(P) <=> m \in ToSet(R) /\ m \in S
    <2>1. ASSUME m \in ToSet(P) PROVE m \in ToSet(R) /\ m \in S
      <3>1. PICK a \in DOMAIN out : out[a].id = m
        BY <1>4, <2>1 DEF ToSet
      <3>2. out[a] \in T /\ \E i \in DOMAIN rows : rows[i] = out[a]
        BY <1>2
      <3>q. QED BY <1>1, <1>4, <3>1, <3>2 DEF ToSet
    <2>2. ASSUME m \in ToSet(R), m \in S PROVE m \in ToSet(P)
      <3>1. PICK i \in DOMAIN rows : rows[i].id = m
        BY <1>4, <2>2 DEF ToSet
      <3>2. rows[i] \in T
        BY <1>1, <2>2, <3>1 DEF ToSet
      <3>3. PICK a \in DOMAIN out : out[a] = rows[i]
        BY <1>2, <3>2
      <3>q. QED BY <1>4, <3>1, <3>3 DEF ToSet
    <2>q. QED BY <2>1, <2>2
  <1>8. ASSUME NEW a \in S, NEW b \in S PROVE Before(P, a, b) <=> Before(R, a, b)
    BY <1>4, <1>6, <1>7, BeforeTotal
  <1>9. ToSet(out) \subseteq ToSet(rows)
    BY <1>2 DEF ToSet
  <1>q. QED BY <1>2, <1>3, <1>6, <1>7, <1>8, <1>9 DEF OnlyThose

LEMMA AppendedRows ==
    ASSUME NEW rows \in Seq(Row), NEW m \in Msgs, NEW v \in Nat
    PROVE  /\ Append(rows, [id |-> m, ver |-> v]) \in Seq(Row)
           /\ RowIds(Append(rows, [id |-> m, ver |-> v])) = Append(RowIds(rows), m)
           /\ ToSet(Append(rows, [id |-> m, ver |-> v])) = ToSet(rows) \cup {[id |-> m, ver |-> v]}
  <1>1. PICK row \in Row : row = [id |-> m, ver |-> v] /\ row.id = m
    BY RowIs
  <1>2. PICK out : out = Append(rows, row)
    OBVIOUS
  <1>3. /\ out \in Seq(Row) /\ Len(out) = Len(rows) + 1 /\ DOMAIN out = 1..Len(rows) + 1
        /\ Len(rows) \in Nat /\ DOMAIN rows = 1..Len(rows)
        /\ out[Len(rows) + 1] = row /\ \A i \in 1..Len(rows) : out[i] = rows[i]
    BY <1>2
  <1>4. PICK R, P : R = RowIds(rows) /\ P = RowIds(out)
    OBVIOUS
  <1>5. /\ R \in Seq(Msgs) /\ Len(R) = Len(rows) /\ \A i \in DOMAIN rows : R[i] = rows[i].id
        /\ P \in Seq(Msgs) /\ Len(P) = Len(out) /\ \A i \in DOMAIN out : P[i] = out[i].id
    BY <1>3, <1>4, RowIdsAre
  <1>6. PICK Q : Q = Append(R, m)
    OBVIOUS
  <1>7. Q \in Seq(Msgs) /\ Len(Q) = Len(R) + 1 /\ Q[Len(R) + 1] = m /\ \A i \in 1..Len(R) : Q[i] = R[i]
    BY <1>5, <1>6
  <1>8. \A i \in 1..Len(rows) + 1 : P[i] = Q[i]
    <2>1. \A i \in 1..Len(rows) + 1 : i = Len(rows) + 1 \/ i \in 1..Len(rows)
      BY <1>3
    <2>q. QED BY <1>1, <1>3, <1>5, <1>7, <2>1
  <1>9. P = Q
    BY <1>3, <1>5, <1>7, <1>8
  <1>10. ToSet(out) = ToSet(rows) \cup {row}
    <2>1. \A i \in DOMAIN out : i = Len(rows) + 1 \/ i \in DOMAIN rows
      BY <1>3
    <2>2. Len(rows) + 1 \in DOMAIN out /\ \A i \in DOMAIN rows : i \in DOMAIN out
      BY <1>3
    <2>q. QED BY <1>3, <2>1, <2>2 DEF ToSet
  <1>q. QED BY <1>1, <1>2, <1>3, <1>4, <1>6, <1>9, <1>10

\* A message is newer than all of ids.
NewerThan(m, ids) == \A k \in ToSet(ids) : m > k

\* synced: what it leaves of rows, and in which order.
SyncedTo(rows, ids, out) ==
    LET R == RowIds(rows)
        P == RowIds(out) IN
    /\ out \in Seq(Row) /\ IsInjective(P)
    /\ ToSet(P) = ToSet(ids) \cup {m \in ToSet(R) : NewerThan(m, ids)}
    /\ \A a, b \in ToSet(R) \cap ToSet(P) : Before(P, a, b) <=> Before(R, a, b)
    /\ \A a, b : Before(ids, a, b) => Before(P, a, b)
    /\ \A b \in ToSet(R) \ ToSet(ids) :
          (NewerThan(b, ids) /\ \A c \in ToSet(ids) \cap ToSet(R) : Before(R, c, b))
          => \A a \in ToSet(ids) : Before(P, a, b)
    /\ \A r \in ToSet(out) : r \in ToSet(rows) \/ r.ver = 0

LEMMA SyncedRows ==
    ASSUME NEW rows \in Seq(Row), IsInjective(RowIds(rows)),
           NEW ids \in Seq(Msgs), IsInjective(ids), InOrder(rows, ids),
           NEW arrived, arrived = {m \in ToSet(ids) : ~HasRow(rows, m)},
           NEW stays, stays = Only(rows, {r \in ToSet(rows) : \/ r.id \in ToSet(ids)
                                                              \/ \A m \in ToSet(ids) : r.id > m})
    PROVE  SyncedTo(rows, ids, Placed(stays, ids, arrived))
  <1>1. PICK R, Q, out, P : /\ R = RowIds(rows) /\ Q = RowIds(stays)
                            /\ out = Placed(stays, ids, arrived) /\ P = RowIds(out)
    OBVIOUS
  <1>2. PICK S : S = {m \in Msgs : m \in ToSet(ids) \/ NewerThan(m, ids)}
    OBVIOUS
  <1>3. \A r \in ToSet(rows) : r.id \in Msgs
    BY RowIs DEF ToSet
  <1>4. {r \in ToSet(rows) : r.id \in ToSet(ids) \/ \A m \in ToSet(ids) : r.id > m} = {r \in ToSet(rows) : r.id \in S}
    BY <1>2, <1>3 DEF NewerThan
  <1>5. /\ stays \in Seq(Row) /\ IsInjective(Q) /\ ToSet(Q) = ToSet(R) \cap S
        /\ \A a, b \in S : Before(Q, a, b) <=> Before(R, a, b)
        /\ ToSet(stays) \subseteq ToSet(rows)
    <2>1. stays = Only(rows, {r \in ToSet(rows) : r.id \in S})
      BY <1>4
    <2>2. OnlyThose(rows, S, stays)
      BY <2>1, OnlyRows
    <2>q. QED BY <1>1, <2>2 DEF OnlyThose
  <1>6. /\ R \in Seq(Msgs) /\ IsInjective(R) /\ Q \in Seq(Msgs) /\ ToSet(R) \subseteq Msgs
        /\ ToSet(ids) \subseteq Msgs
        /\ \A m : HasRow(rows, m) <=> m \in ToSet(R)
    BY <1>1, <1>5, RowIdsAre DEF ToSet
  <1>7. ToSet(ids) \subseteq S
    BY <1>2, <1>6
  <1>8. Placeable(stays, ids, arrived)
    <2>1. arrived \cap ToSet(Q) = {} /\ ToSet(ids) \subseteq arrived \cup ToSet(Q)
      BY <1>5, <1>6, <1>7
    <2>2. InOrder(stays, ids)
      BY <1>1, <1>5, <1>7 DEF InOrder
    <2>q. QED BY <1>1, <1>5, <2>1, <2>2 DEF Placeable
  <1>9. /\ out \in Seq(Row) /\ IsInjective(P)
        /\ ToSet(P) = ToSet(Q) \cup (arrived \cap ToSet(ids))
        /\ \A a, b \in ToSet(Q) : Before(P, a, b) <=> Before(Q, a, b)
        /\ \A r \in ToSet(out) : r \in ToSet(stays) \/ (r.ver = 0 /\ r.id \in arrived)
        /\ \A a, b : Before(ids, a, b) => Before(P, a, b)
        /\ \A b \in ToSet(Q) \ ToSet(ids) :
              (\A c \in ToSet(ids) \cap ToSet(Q) : Before(Q, c, b)) => \A a \in ToSet(ids) : Before(P, a, b)
    <2>1. PlacedSo(stays, ids, arrived, out)
      BY <1>1, <1>8, PlacedIs
    <2>q. QED BY <1>1, <2>1 DEF PlacedSo
  <1>10. ToSet(P) = ToSet(ids) \cup {m \in ToSet(R) : NewerThan(m, ids)}
    BY <1>2, <1>5, <1>6, <1>9
  <1>11. ToSet(R) \cap ToSet(P) = ToSet(Q) /\ ToSet(Q) \subseteq S
    BY <1>2, <1>5, <1>6, <1>10
  <1>12. \A a, b \in ToSet(R) \cap ToSet(P) : Before(P, a, b) <=> Before(R, a, b)
    BY <1>5, <1>9, <1>11
  <1>13. ASSUME NEW b \in ToSet(R) \ ToSet(ids), NewerThan(b, ids),
                \A c \in ToSet(ids) \cap ToSet(R) : Before(R, c, b)
         PROVE  \A a \in ToSet(ids) : Before(P, a, b)
    <2>1. b \in S /\ b \in ToSet(Q)
      BY <1>2, <1>5, <1>6, <1>13
    <2>2. \A c \in ToSet(ids) \cap ToSet(Q) : Before(Q, c, b)
      BY <1>5, <1>7, <1>13, <2>1
    <2>q. QED BY <1>9, <1>13, <2>1, <2>2
  <1>14. \A r \in ToSet(out) : r \in ToSet(rows) \/ r.ver = 0
    BY <1>5, <1>9
  <1>q. QED BY <1>1, <1>9, <1>10, <1>12, <1>13, <1>14 DEF SyncedTo

-----------------------------------------------------------------------------
(* What the page's handlers make of it *)

PageFields == [rows : Seq(Row), loaded : BOOLEAN, pending : SUBSET Msgs, fetches : Int,
               syncing : BOOLEAN, syncAgain : BOOLEAN,
               refreshing : SUBSET Msgs, refreshAgain : SUBSET Msgs, sending : BOOLEAN]
Cached == [list : Seq(Msgs), items : [Msgs -> Nat]]

TypedPage(p) == p \in PageFields /\ IsInjective(RowIds(p.rows))
TypedTask(t) ==
    /\ t \in Task /\ IsInjective(t.list)
    /\ t.phase = "listed" => t.kind \in {"open", "prefetch"}
    /\ t.phase = "made" => t.kind = "send"
    /\ t.kind \in {"one", "remove", "act"} => \E m \in Msgs : t.ids = {m}
    /\ (t.kind = "send" /\ t.phase \in {"made", "answered"}) => \E m \in Msgs : t.ids = {m}
TypedCache(c) ==
    /\ \A x \in c : x \in Cached /\ IsInjective(x.list)
    /\ \A x, y \in c : x = y
Typed(s) == IsState(s) /\ TypedPage(s.page) /\ (\A t \in s.tasks : TypedTask(t)) /\ TypedCache(s.cache)

\* Of tasks ts, but of an older generation now; and one just asked.
Aged(u, ts) == \E t \in ts : u = t \/ u = [t EXCEPT !.fresh = FALSE]
Asked(u) ==
    /\ TypedTask(u) /\ u.phase = "asked" /\ u.list = <<>> /\ u.items = [m \in Msgs |-> 0]
    /\ u.kind = "remove" => u.ids \subseteq ToSet(RowIds(page.rows))
Handed(ts, us) == \A u \in us : Aged(u, ts) \/ Asked(u)

\* Rows and cache as they were.
Quiet(s, r) ==
    Typed(r) /\ r.page.rows = s.page.rows /\ r.cache = s.cache /\ Handed(s.tasks, r.tasks)

LEMMA NewAsked ==
    ASSUME NEW kind_ \in TaskKinds, NEW ids \in SUBSET Msgs,
           kind_ \in {"one", "remove", "act"} => \E m \in Msgs : ids = {m},
           kind_ = "remove" => ids \subseteq ToSet(RowIds(page.rows))
    PROVE  Asked(NewTask(kind_, ids))
  <1>1. PICK u : u = NewTask(kind_, ids)
    OBVIOUS
  <1>2. /\ u.kind = kind_ /\ u.phase = "asked" /\ u.ids = ids /\ u.list = <<>>
        /\ u.items = [m \in Msgs |-> 0]
    BY <1>1 DEF NewTask
  <1>3. u \in Task
    BY <1>1 DEF NewTask, Task, TaskKinds
  <1>4. IsInjective(u.list)
    BY <1>2 DEF IsInjective
  <1>q. QED BY <1>1, <1>2, <1>3, <1>4 DEF Asked, TypedTask

LEMMA AgedTyped == ASSUME NEW t, TypedTask(t) PROVE TypedTask([t EXCEPT !.fresh = FALSE])
  <1>1. PICK u : u = [t EXCEPT !.fresh = FALSE]
    OBVIOUS
  <1>2. u \in Task /\ u.kind = t.kind /\ u.phase = t.phase /\ u.ids = t.ids /\ u.list = t.list
    BY <1>1 DEF TypedTask, Task
  <1>q. QED BY <1>1, <1>2 DEF TypedTask

LEMMA HandedTyped ==
    ASSUME NEW ts, \A t \in ts : TypedTask(t), NEW us, Handed(ts, us)
    PROVE  \A u \in us : TypedTask(u)
  BY AgedTyped DEF Handed, Aged, Asked

LEMMA AgedTwice ==
    ASSUME NEW t, TypedTask(t)
    PROVE  [[t EXCEPT !.fresh = FALSE] EXCEPT !.fresh = FALSE] = [t EXCEPT !.fresh = FALSE]
  BY DEF TypedTask, Task

LEMMA HandedOn ==
    ASSUME NEW ts, \A t \in ts : TypedTask(t), NEW us, Handed(ts, us), NEW vs, Handed(us, vs)
    PROVE  Handed(ts, vs)
  <1> SUFFICES ASSUME NEW v \in vs PROVE Aged(v, ts) \/ Asked(v)
    BY DEF Handed
  <1>1. CASE Asked(v)
    BY <1>1
  <1>2. ASSUME NEW u \in us, v = u PROVE Aged(v, ts) \/ Asked(v)
    BY <1>2 DEF Handed
  <1>3. ASSUME NEW u \in us, v = [u EXCEPT !.fresh = FALSE] PROVE Aged(v, ts) \/ Asked(v)
    <2>1. CASE Asked(u)
      <3>1. u \in Task
        BY <2>1 DEF Asked, TypedTask
      <3>2. /\ v.phase = u.phase /\ v.list = u.list /\ v.items = u.items /\ v.kind = u.kind
            /\ v.ids = u.ids
        BY <1>3, <3>1 DEF Task
      <3>3. TypedTask(v)
        BY <1>3, <2>1, AgedTyped DEF Asked
      <3>q. QED BY <2>1, <3>2, <3>3 DEF Asked
    <2>2. ASSUME NEW t \in ts, u = t \/ u = [t EXCEPT !.fresh = FALSE] PROVE Aged(v, ts)
      <3>1. v = [t EXCEPT !.fresh = FALSE]
        BY <1>3, <2>2, AgedTwice
      <3>q. QED BY <3>1 DEF Aged
    <2>q. QED BY <2>1, <2>2 DEF Handed, Aged
  <1>q. QED BY <1>1, <1>2, <1>3 DEF Handed, Aged

LEMMA HandedSame == ASSUME NEW ts, NEW us \in SUBSET ts PROVE Handed(ts, us)
  BY DEF Handed, Aged

LEMMA QuietOn == ASSUME NEW s, Typed(s), NEW r, Quiet(s, r), NEW q, Quiet(r, q) PROVE Quiet(s, q)
  BY HandedOn DEF Quiet, Typed

\* Other fields of the page are set.
LEMMA FieldsQuiet ==
    ASSUME NEW s, Typed(s), NEW r, IsState(r), r.tasks = s.tasks, r.cache = s.cache,
           r.page \in PageFields, r.page.rows = s.page.rows
    PROVE  Quiet(s, r)
  BY HandedSame DEF Quiet, Typed, TypedPage

LEMMA StartQuiet == ASSUME NEW s, Typed(s), NEW u, Asked(u) PROVE Quiet(s, Started(s, u))
  <1>1. PICK r : r = Started(s, u)
    OBVIOUS
  <1>2. IsState(r) /\ r.page = s.page /\ r.tasks = s.tasks \cup {u} /\ r.cache = s.cache
    BY <1>1, StartedIs DEF Typed
  <1>3. Handed(s.tasks, r.tasks)
    BY <1>2 DEF Handed, Aged
  <1>4. \A t \in r.tasks : TypedTask(t)
    BY <1>2 DEF Typed, Asked
  <1>q. QED BY <1>1, <1>2, <1>3, <1>4 DEF Quiet, Typed

LEMMA AgainQuiet ==
    ASSUME NEW s, Typed(s), NEW b \in BOOLEAN
    PROVE  /\ Quiet(s, [s EXCEPT !.page.syncAgain = b]) /\ Quiet(s, [s EXCEPT !.page.syncing = b])
           /\ Quiet(s, [s EXCEPT !.page.sending = b])
  <1>1. ASSUME NEW r, NEW p \in PageFields, r = [s EXCEPT !.page = p], p.rows = s.page.rows PROVE Quiet(s, r)
    <2>1. IsState(r) /\ r.page = p /\ r.tasks = s.tasks /\ r.cache = s.cache
      BY <1>1 DEF Typed, IsState
    <2>q. QED BY <1>1, <2>1, FieldsQuiet
  <1>2. PICK p : p = s.page
    OBVIOUS
  <1>3. /\ [s EXCEPT !.page.syncAgain = b] = [s EXCEPT !.page = [p EXCEPT !.syncAgain = b]]
        /\ [s EXCEPT !.page.syncing = b] = [s EXCEPT !.page = [p EXCEPT !.syncing = b]]
        /\ [s EXCEPT !.page.sending = b] = [s EXCEPT !.page = [p EXCEPT !.sending = b]]
    BY <1>2
  <1>4. /\ [p EXCEPT !.syncAgain = b] \in PageFields /\ [p EXCEPT !.syncAgain = b].rows = p.rows
        /\ [p EXCEPT !.syncing = b] \in PageFields /\ [p EXCEPT !.syncing = b].rows = p.rows
        /\ [p EXCEPT !.sending = b] \in PageFields /\ [p EXCEPT !.sending = b].rows = p.rows
    BY <1>2 DEF Typed, TypedPage, PageFields
  <1>q. QED BY <1>1, <1>2, <1>3, <1>4

LEMMA SyncRowsQuiet == ASSUME NEW s, Typed(s) PROVE Quiet(s, SyncRows(s))
  <1>1. CASE s.page.syncing
    <2>1. SyncRows(s) = [s EXCEPT !.page.syncAgain = TRUE]
      BY <1>1 DEF SyncRows
    <2>q. QED BY <2>1, AgainQuiet
  <1>2. CASE ~s.page.syncing
    <2>1. PICK r, u : r = [s EXCEPT !.page.syncing = TRUE] /\ u = NewTask("sync", {})
      OBVIOUS
    <2>2. Quiet(s, r)
      BY <2>1, AgainQuiet
    <2>3. Asked(u)
      BY <2>1, NewAsked DEF TaskKinds
    <2>4. Quiet(r, Started(r, u))
      BY <2>2, <2>3, StartQuiet DEF Quiet
    <2>5. SyncRows(s) = Started(r, u)
      BY <1>2, <2>1 DEF SyncRows
    <2>q. QED BY <2>2, <2>4, <2>5, QuietOn
  <1>q. QED BY <1>1, <1>2

LEMMA RefreshOneQuiet == ASSUME NEW s, Typed(s), NEW m \in Msgs PROVE Quiet(s, RefreshOne(s, m))
  <1>1. CASE ~HasRow(s.page.rows, m)
    <2>1. RefreshOne(s, m) = s
      BY <1>1 DEF RefreshOne
    <2>q. QED BY <2>1, HandedSame DEF Quiet
  <1>2. CASE HasRow(s.page.rows, m) /\ m \in s.page.refreshing
    <2>1. PICK r : r = [s EXCEPT !.page.refreshAgain = @ \cup {m}]
      OBVIOUS
    <2>2. /\ IsState(r) /\ r.page = [s.page EXCEPT !.refreshAgain = @ \cup {m}]
          /\ r.tasks = s.tasks /\ r.cache = s.cache
      BY <2>1 DEF Typed, IsState
    <2>3. r.page \in PageFields /\ r.page.rows = s.page.rows
      BY <2>2 DEF Typed, TypedPage, PageFields
    <2>4. Quiet(s, r)
      BY <2>2, <2>3, FieldsQuiet
    <2>q. QED BY <1>2, <2>1, <2>4 DEF RefreshOne
  <1>3. CASE HasRow(s.page.rows, m) /\ m \notin s.page.refreshing
    <2>1. PICK r, u : r = [s EXCEPT !.page.refreshing = @ \cup {m}] /\ u = NewTask("one", {m})
      OBVIOUS
    <2>2. /\ IsState(r) /\ r.page = [s.page EXCEPT !.refreshing = @ \cup {m}]
          /\ r.tasks = s.tasks /\ r.cache = s.cache
      BY <2>1 DEF Typed, IsState
    <2>3. r.page \in PageFields /\ r.page.rows = s.page.rows
      BY <2>2 DEF Typed, TypedPage, PageFields
    <2>4. Quiet(s, r)
      BY <2>2, <2>3, FieldsQuiet
    <2>5. Asked(u)
      BY <2>1, NewAsked DEF TaskKinds
    <2>6. Quiet(r, Started(r, u))
      BY <2>4, <2>5, StartQuiet DEF Quiet
    <2>7. RefreshOne(s, m) = Started(r, u)
      BY <1>3, <2>1 DEF RefreshOne
    <2>q. QED BY <2>4, <2>6, <2>7, QuietOn
  <1>q. QED BY <1>1, <1>2, <1>3

\* No list is on its way in but one just asked for.
NoneLate(ts) == \A u \in ts : (u.kind = "sync" /\ u.fresh) => u.phase = "asked"

LEMMA NoneLateOn == ASSUME NEW ts, NoneLate(ts), \A t \in ts : TypedTask(t), NEW us, Handed(ts, us) PROVE NoneLate(us)
  <1> SUFFICES ASSUME NEW u \in us, u.kind = "sync", u.fresh PROVE u.phase = "asked"
    BY DEF NoneLate
  <1>1. CASE Asked(u)
    BY <1>1 DEF Asked
  <1>2. ASSUME NEW t \in ts, u = t \/ u = [t EXCEPT !.fresh = FALSE] PROVE u.phase = "asked"
    <2>1. [t EXCEPT !.fresh = FALSE].fresh = FALSE
      BY DEF TypedTask, Task
    <2>2. u = t
      BY <1>2, <2>1
    <2>q. QED BY <2>2 DEF NoneLate
  <1>q. QED BY <1>1, <1>2 DEF Handed, Aged

\* reload: the rows of the prefetch, or those there were, and no read of them left.
Reloaded(s, r) ==
    /\ Typed(r) /\ Handed(s.tasks, r.tasks) /\ NoneLate(r.tasks)
    /\ \/ s.cache = {} /\ r.cache = {} /\ r.page.rows = s.page.rows
       \/ r.cache = {} /\ \E c \in s.cache : r.page.rows = RowsFor(c.list, c.items)

LEMMA ReloadIs == ASSUME NEW s, Typed(s) PROVE Reloaded(s, Reload(s))
  <1> DEFINE reset == [s.page EXCEPT !.pending = {}, !.fetches = 0, !.syncing = FALSE,
                                     !.syncAgain = FALSE, !.refreshing = {}, !.refreshAgain = {}]
             Older(t) == IF t.kind \in {"open", "sync", "fill", "one"} THEN [t EXCEPT !.fresh = FALSE]
                       ELSE t
             old == {Older(t) : t \in s.tasks}
  <1>1. reset \in PageFields /\ reset.rows = s.page.rows
    <2>1. PICK p \in PageFields : p = s.page
      BY DEF Typed, TypedPage
    <2>2. PICK o, q : o = [p EXCEPT !.fetches = 0] /\ q = [o EXCEPT !.pending = {}, !.syncing = FALSE]
      OBVIOUS
    <2>a. o \in PageFields /\ o.rows = p.rows
      BY <2>2 DEF PageFields
    <2>3. q \in PageFields /\ q.rows = o.rows
      BY <2>2, <2>a DEF PageFields
    <2>4. PICK r : r = [q EXCEPT !.syncAgain = FALSE, !.refreshing = {}, !.refreshAgain = {}]
      OBVIOUS
    <2>5. r \in PageFields /\ r.rows = q.rows
      BY <2>3, <2>4 DEF PageFields
    <2>6. r = [p EXCEPT !.pending = {}, !.fetches = 0, !.syncing = FALSE,
                        !.syncAgain = FALSE, !.refreshing = {}, !.refreshAgain = {}]
      BY <2>2, <2>4
    <2>q. QED BY <2>1, <2>a, <2>3, <2>5, <2>6
  <1>2. \A t \in s.tasks : Older(t) = t \/ Older(t) = [t EXCEPT !.fresh = FALSE]
    OBVIOUS
  <1>3. Handed(s.tasks, old)
    BY <1>2 DEF Handed, Aged
  <1>4. \A u \in old : TypedTask(u)
    BY <1>3, HandedTyped DEF Typed
  <1>5. \A u \in old : u.kind = "sync" => ~u.fresh
    <2>1. ASSUME NEW t \in s.tasks PROVE Older(t).kind = t.kind /\ (t.kind = "sync" => ~Older(t).fresh)
      BY DEF Typed, TypedTask, Task
    <2>q. QED BY <2>1
  <1> HIDE DEF old, reset
  <1>6. CASE s.cache = {}
    <2>1. PICK r, u : r = [s EXCEPT !.page = reset, !.tasks = old] /\ u = NewTask("open", {})
      OBVIOUS
    <2>2. IsState(r) /\ r.page = reset /\ r.tasks = old /\ r.cache = s.cache
      BY <2>1 DEF Typed, IsState
    <2>3. Typed(r)
      BY <1>1, <1>4, <2>2 DEF Typed, TypedPage
    <2>4. Asked(u) /\ u.kind = "open"
      <3>1. Asked(u)
        BY <2>1, NewAsked DEF TaskKinds
      <3>q. QED BY <2>1, <3>1, New DEF TaskKinds
    <2>5. Quiet(r, Started(r, u))
      BY <2>3, <2>4, StartQuiet
    <2>6. Started(r, u).tasks = old \cup {u}
      BY <2>2, StartedIs
    <2>7. Reload(s) = Started(r, u)
      BY <1>6, <2>1 DEF Reload, reset, old, Older
    <2>8. Handed(s.tasks, old \cup {u})
      BY <1>3, <2>4 DEF Handed
    <2>9. \A v \in old \cup {u} : v.kind = "sync" => ~v.fresh
      BY <1>5, <2>4
    <2>q. QED BY <1>1, <1>6, <2>2, <2>5, <2>6, <2>7, <2>8, <2>9 DEF Quiet, Reloaded, NoneLate
  <1>7. CASE s.cache # {}
    <2>1. PICK c \in s.cache : c = CHOOSE x \in s.cache : TRUE
      BY <1>7
    <2>2. PICK r : r = Reload(s)
      OBVIOUS
    <2>3. r = [page |-> [reset EXCEPT !.rows = RowsFor(c.list, c.items), !.loaded = TRUE],
               tasks |-> old, cache |-> {}]
      BY <1>7, <2>1, <2>2 DEF Reload, reset, old, Older
    <2>4. PICK p, rows : rows = RowsFor(c.list, c.items) /\ p = [reset EXCEPT !.rows = rows, !.loaded = TRUE]
      OBVIOUS
    <2>5. IsState(r) /\ r.page = p /\ r.tasks = old /\ r.cache = {}
      BY <2>3, <2>4 DEF IsState
    <2>6. c.list \in Seq(Msgs) /\ c.items \in [Msgs -> Nat] /\ IsInjective(c.list)
      BY DEF Typed, TypedCache, Cached
    <2>7. rows \in Seq(Row) /\ RowIds(rows) = c.list
      BY <2>4, <2>6, LoadedRows
    <2>8. p \in PageFields /\ p.rows = rows
      BY <1>1, <2>4, <2>7 DEF PageFields
    <2>9. Typed(r)
      BY <1>4, <2>5, <2>6, <2>7, <2>8 DEF Typed, TypedPage, TypedCache
    <2>q. QED BY <1>3, <1>5, <2>2, <2>4, <2>5, <2>8, <2>9 DEF Reloaded, NoneLate
  <1>q. QED BY <1>6, <1>7

\* Rows are set.
Rowed(s, r, rows) ==
    /\ Typed(r) /\ r.page.rows = rows /\ r.cache = s.cache /\ Handed(s.tasks, r.tasks)

LEMMA RowsSet ==
    ASSUME NEW s, Typed(s), NEW rows \in Seq(Row), IsInjective(RowIds(rows))
    PROVE  Rowed(s, [s EXCEPT !.page.rows = rows], rows)
  <1>1. PICK r : r = [s EXCEPT !.page.rows = rows]
    OBVIOUS
  <1>2. IsState(r) /\ r.page = [s.page EXCEPT !.rows = rows] /\ r.tasks = s.tasks /\ r.cache = s.cache
    BY <1>1 DEF Typed, IsState
  <1>3. r.page \in PageFields /\ r.page.rows = rows
    BY <1>2 DEF Typed, TypedPage, PageFields
  <1>4. Handed(s.tasks, r.tasks)
    BY <1>2, HandedSame
  <1>q. QED BY <1>1, <1>2, <1>3, <1>4 DEF Rowed, Typed, TypedPage

LEMMA QuietRowed == ASSUME NEW s, Typed(s), NEW r, Quiet(s, r), NEW q, NEW rows, Rowed(r, q, rows) PROVE Rowed(s, q, rows)
  BY HandedOn DEF Quiet, Rowed, Typed

LEMMA RowedQuiet == ASSUME NEW s, Typed(s), NEW r, NEW rows, Rowed(s, r, rows), NEW q, Quiet(r, q) PROVE Rowed(s, q, rows)
  BY HandedOn DEF Quiet, Rowed, Typed

\* synced.
Syncs(s, ids, r) ==
    /\ InOrder(s.page.rows, ids) /\ SyncedTo(s.page.rows, ids, r.page.rows)
    /\ Rowed(s, r, r.page.rows)

LEMMA SyncedIs ==
    ASSUME NEW s, Typed(s), NEW ids \in Seq(Msgs), IsInjective(ids)
    PROVE  IF InOrder(s.page.rows, ids) THEN Syncs(s, ids, Synced(s, ids)) ELSE Reloaded(s, Synced(s, ids))
  <1>1. CASE ~InOrder(s.page.rows, ids)
    <2>1. Synced(s, ids) = Reload(s)
      BY <1>1 DEF Synced
    <2>q. QED BY <1>1, <2>1, ReloadIs
  <1>2. CASE InOrder(s.page.rows, ids)
    <2>1. PICK rows : rows = s.page.rows
      OBVIOUS
    <2>2. PICK arrived : arrived = {m \in ToSet(ids) : ~HasRow(rows, m)}
      OBVIOUS
    <2>3. PICK stays : stays = Only(rows, {r \in ToSet(rows) : \/ r.id \in ToSet(ids)
                                                              \/ \A m \in ToSet(ids) : r.id > m})
      OBVIOUS
    <2>4. PICK out : out = Placed(stays, ids, arrived)
      OBVIOUS
    <2>5. PICK placed : placed = [s EXCEPT !.page.rows = out]
      OBVIOUS
    <2>6. Synced(s, ids) = IF arrived = {} THEN placed ELSE Started(placed, NewTask("absorb", arrived))
      BY <1>2, <2>1, <2>2, <2>3, <2>4, <2>5 DEF Synced
    <2>7. rows \in Seq(Row) /\ IsInjective(RowIds(rows)) /\ InOrder(rows, ids)
      BY <1>2, <2>1 DEF Typed, TypedPage, PageFields
    <2>8. SyncedTo(rows, ids, out)
      BY <2>2, <2>3, <2>4, <2>7, SyncedRows
    <2>9. Rowed(s, placed, out)
      BY <2>5, <2>8, RowsSet DEF SyncedTo
    <2>10. arrived \in SUBSET Msgs
      BY <2>2 DEF ToSet
    <2>11. Asked(NewTask("absorb", arrived))
      BY <2>10, NewAsked DEF TaskKinds
    <2>12. Quiet(placed, Started(placed, NewTask("absorb", arrived)))
      BY <2>9, <2>11, StartQuiet DEF Rowed
    <2>13. Rowed(s, Synced(s, ids), out)
      BY <2>6, <2>9, <2>12, RowedQuiet
    <2>q. QED BY <1>2, <2>1, <2>8, <2>13 DEF Rowed, Syncs
  <1>q. QED BY <1>1, <1>2

LEMMA ReloadedBetween ==
    ASSUME NEW s, Typed(s), NEW told, Quiet(s, told), NEW in_, Reloaded(told, in_), NEW r, Quiet(in_, r)
    PROVE  Reloaded(s, r)
  <1>1. Handed(s.tasks, in_.tasks)
    BY HandedOn DEF Quiet, Reloaded, Typed
  <1>2. Handed(s.tasks, r.tasks)
    BY <1>1, HandedOn DEF Quiet, Reloaded, Typed
  <1>3. NoneLate(r.tasks)
    BY NoneLateOn DEF Quiet, Reloaded, Typed
  <1>4. Typed(r) /\ r.page.rows = in_.page.rows /\ r.cache = in_.cache
        /\ told.page.rows = s.page.rows /\ told.cache = s.cache
    BY DEF Quiet
  <1>q. QED BY <1>2, <1>3, <1>4 DEF Reloaded

\* What a landing answer t makes of s.
Loads(s, t, r) == Rowed(s, r, RowsFor(t.list, t.items)) /\ r.tasks = s.tasks
Places(s, t, r) ==
    \E m \in Msgs : /\ t.ids = {m} /\ ~HasRow(s.page.rows, m)
                    /\ Rowed(s, r, Append(s.page.rows, [id |-> m, ver |-> t.items[m]]))
                    /\ r.tasks = s.tasks
Drops(s, t, r) == Rowed(s, r, Only(s.page.rows, {row \in ToSet(s.page.rows) : row.id \notin t.ids}))
LandsAs(s, t, r) ==
    \/ Quiet(s, r)
    \/ Rowed(s, r, Filled(s.page.rows, t.items))
    \/ t.phase = "answered" /\ \/ t.kind = "open" /\ Loads(s, t, r)
                               \/ t.kind = "send" /\ Places(s, t, r)
                               \/ t.kind = "remove" /\ Drops(s, t, r)
                               \/ t.kind = "sync" /\ t.fresh /\ Syncs(s, t.list, r) /\ NoneLate(r.tasks)
    \/ t.kind = "sync" /\ Reloaded(s, r)

LEMMA FilledSet ==
    ASSUME NEW s, Typed(s), NEW t, TypedTask(t)
    PROVE  Rowed(s, [s EXCEPT !.page.rows = Filled(@, t.items)], Filled(s.page.rows, t.items))
  <1>1. PICK rows : rows = Filled(s.page.rows, t.items)
    OBVIOUS
  <1>2. s.page.rows \in Seq(Row) /\ IsInjective(RowIds(s.page.rows)) /\ t.items \in [Msgs -> Nat]
    BY DEF Typed, TypedPage, PageFields, TypedTask, Task
  <1>3. rows \in Seq(Row) /\ IsInjective(RowIds(rows))
    BY <1>1, <1>2, FilledRows
  <1>4. Rowed(s, [s EXCEPT !.page.rows = rows], rows)
    BY <1>3, RowsSet
  <1>5. [s EXCEPT !.page.rows = Filled(@, t.items)] = [s EXCEPT !.page.rows = rows]
    BY <1>1
  <1>q. QED BY <1>1, <1>4, <1>5

LEMMA QuietSelf == ASSUME NEW s, Typed(s) PROVE Quiet(s, s)
  BY HandedSame DEF Quiet

LEMMA OpenLandsAs ==
    ASSUME NEW s, Typed(s), NEW t, TypedTask(t), t.kind = "open", t.phase \in {"answered", "failed"}
    PROVE  LandsAs(s, t, OpenLanded(s, t))
  <1>0. PICK p \in PageFields : p = s.page
    BY DEF Typed, TypedPage
  <1>r. PICK rows : rows = RowsFor(t.list, t.items)
    OBVIOUS
  <1>1. p = s.page /\ rows = RowsFor(t.list, t.items)
    BY <1>0, <1>r
  <1>2. [p EXCEPT !.loaded = TRUE] \in PageFields /\ [p EXCEPT !.loaded = TRUE].rows = p.rows
    BY DEF PageFields
  <1>3. PICK r : r = [s EXCEPT !.page.loaded = TRUE]
    OBVIOUS
  <1>4. IsState(r) /\ r.page = [p EXCEPT !.loaded = TRUE] /\ r.tasks = s.tasks /\ r.cache = s.cache
    BY <1>1, <1>3 DEF Typed, IsState
  <1>5. Quiet(s, r)
    BY <1>1, <1>2, <1>4, FieldsQuiet
  <1>6. CASE t.phase = "failed"
    BY <1>3, <1>5, <1>6 DEF OpenLanded, LandsAs
  <1>7. CASE t.phase = "answered"
    <2>1. t.list \in Seq(Msgs) /\ IsInjective(t.list) /\ t.items \in [Msgs -> Nat]
      BY DEF TypedTask, Task
    <2>2. rows \in Seq(Row) /\ IsInjective(RowIds(rows))
      BY <1>1, <2>1, LoadedRows
    <2>3. PICK q : q = [r EXCEPT !.page.rows = rows]
      OBVIOUS
    <2>4. Rowed(r, q, rows)
      BY <1>5, <2>2, <2>3, RowsSet DEF Quiet
    <2>5. Rowed(s, q, rows)
      BY <1>5, <2>4, QuietRowed
    <2>6. OpenLanded(s, t) = q
      BY <1>1, <1>3, <1>7, <2>3 DEF OpenLanded, Typed, IsState
    <2>7. q.tasks = s.tasks
      BY <1>4, <2>3 DEF IsState
    <2>q. QED BY <1>1, <1>7, <2>5, <2>6, <2>7 DEF LandsAs, Loads
  <1>q. QED BY <1>6, <1>7

LEMMA SyncLandsAs ==
    ASSUME NEW s, Typed(s), NEW t, TypedTask(t), t.kind = "sync", t.phase \in {"answered", "failed"},
           t.fresh => NoneLate(s.tasks)
    PROVE  LandsAs(s, t, SyncLanded(s, t))
  <1>1. CASE ~t.fresh
    BY <1>1, QuietSelf DEF SyncLanded, LandsAs
  <1>2. CASE t.fresh
    <2>1. PICK told : told = [s EXCEPT !.page.syncing = FALSE]
      OBVIOUS
    <2>2. PICK in_ : in_ = IF t.phase = "failed" THEN told ELSE Synced(told, t.list)
      OBVIOUS
    <2>3. PICK once : once = [in_ EXCEPT !.page.syncAgain = FALSE]
      OBVIOUS
    <2>4. PICK r : r = SyncLanded(s, t)
      OBVIOUS
    <2>5. r = IF in_.page.syncAgain THEN SyncRows(once) ELSE once
      BY <1>2, <2>1, <2>2, <2>3, <2>4 DEF SyncLanded
    <2>6. Quiet(s, told)
      BY <2>1, AgainQuiet
    <2>7. ASSUME Typed(in_) PROVE Quiet(in_, r)
      <3>1. Quiet(in_, once)
        BY <2>3, <2>7, AgainQuiet
      <3>2. Quiet(once, SyncRows(once))
        BY <3>1, SyncRowsQuiet DEF Quiet
      <3>3. Quiet(in_, SyncRows(once))
        BY <2>7, <3>1, <3>2, QuietOn
      <3>q. QED BY <2>5, <3>1, <3>3
    <2>8. CASE t.phase = "failed"
      <3>1. in_ = told
        BY <2>2, <2>8
      <3>2. Quiet(s, r)
        BY <2>6, <2>7, <3>1, QuietOn DEF Quiet
      <3>q. QED BY <2>4, <3>2 DEF LandsAs
    <2>9. CASE t.phase = "answered"
      <3>1. in_ = Synced(told, t.list) /\ t.list \in Seq(Msgs) /\ IsInjective(t.list) /\ Typed(told)
        BY <2>2, <2>6, <2>9 DEF TypedTask, Task, Quiet
      <3>2. NoneLate(told.tasks)
        BY <1>2, <2>6, NoneLateOn DEF Quiet, Typed
      <3>3. CASE ~InOrder(told.page.rows, t.list)
        <4>1. Reloaded(told, in_)
          BY <3>1, <3>3, SyncedIs
        <4>2. Quiet(in_, r)
          BY <2>7, <4>1 DEF Reloaded
        <4>3. Reloaded(s, r)
          BY <2>6, <4>1, <4>2, ReloadedBetween
        <4>q. QED BY <2>4, <4>3 DEF LandsAs
      <3>4. CASE InOrder(told.page.rows, t.list)
        <4>1. Syncs(told, t.list, in_)
          BY <3>1, <3>4, SyncedIs
        <4>2. Quiet(in_, r)
          BY <2>7, <4>1 DEF Syncs, Rowed
        <4>3. Rowed(told, in_, in_.page.rows)
          BY <4>1 DEF Syncs
        <4>4. Rowed(s, in_, in_.page.rows)
          BY <2>6, <4>3, QuietRowed
        <4>5. Rowed(s, r, in_.page.rows)
          BY <4>2, <4>4, RowedQuiet
        <4>6. r.page.rows = in_.page.rows /\ told.page.rows = s.page.rows
          BY <2>6, <4>2 DEF Quiet
        <4>7. Syncs(s, t.list, r)
          BY <4>1, <4>5, <4>6 DEF Syncs
        <4>8. Handed(told.tasks, r.tasks)
          BY <4>3, <4>2, RowedQuiet, <3>1 DEF Rowed
        <4>9. NoneLate(r.tasks)
          BY <3>1, <3>2, <4>8, NoneLateOn DEF Typed
        <4>q. QED BY <1>2, <2>4, <2>9, <4>7, <4>9 DEF LandsAs
      <3>q. QED BY <3>3, <3>4
    <2>q. QED BY <2>8, <2>9
  <1>q. QED BY <1>1, <1>2

LEMMA FillLandsAs ==
    ASSUME NEW s, Typed(s), NEW t, TypedTask(t), t.kind = "fill"
    PROVE  LandsAs(s, t, FillLanded(s, t))
  <1>1. CASE ~t.fresh
    BY <1>1, QuietSelf DEF FillLanded, LandsAs
  <1>2. CASE t.fresh
    <2>1. PICK p \in PageFields : p = s.page
      BY DEF Typed, TypedPage
    <2>2. PICK q : q = [p EXCEPT !.pending = @ \ t.ids]
      OBVIOUS
    <2>3. q \in PageFields /\ q.rows = p.rows /\ q.fetches = p.fetches /\ p.fetches \in Int
      BY <2>1, <2>2 DEF PageFields
    <2>4. PICK o : o = [q EXCEPT !.fetches = p.fetches - 1]
      OBVIOUS
    <2>5. o \in PageFields /\ o.rows = p.rows
      BY <2>3, <2>4 DEF PageFields
    <2>6. PICK r : r = [s EXCEPT !.page = o]
      OBVIOUS
    <2>7. IsState(r) /\ r.page = o /\ r.tasks = s.tasks /\ r.cache = s.cache
      BY <2>6 DEF Typed, IsState
    <2>8. Quiet(s, r)
      BY <2>1, <2>5, <2>7, FieldsQuiet
    <2>9. Rowed(r, [r EXCEPT !.page.rows = Filled(@, t.items)], Filled(r.page.rows, t.items))
      BY <2>8, FilledSet DEF Quiet
    <2>10. FillLanded(s, t) = [r EXCEPT !.page.rows = Filled(@, t.items)]
      <3>1. FillLanded(s, t) = [s EXCEPT !.page = [p EXCEPT !.pending = @ \ t.ids, !.fetches = @ - 1,
                                                            !.rows = Filled(@, t.items)]]
        BY <1>2, <2>1 DEF FillLanded
      <3>2. [p EXCEPT !.pending = @ \ t.ids, !.fetches = @ - 1, !.rows = Filled(@, t.items)]
            = [o EXCEPT !.rows = Filled(@, t.items)]
        BY <2>2, <2>3, <2>4, <2>5
      <3>3. [r EXCEPT !.page.rows = Filled(@, t.items)] = [s EXCEPT !.page = [o EXCEPT !.rows = Filled(@, t.items)]]
        BY <2>6, <2>7
      <3>q. QED BY <3>1, <3>2, <3>3
    <2>11. Rowed(s, FillLanded(s, t), Filled(s.page.rows, t.items))
      <3>1. r.page.rows = s.page.rows
        BY <2>8 DEF Quiet
      <3>q. QED BY <2>8, <2>9, <2>10, <3>1, QuietRowed
    <2>q. QED BY <2>11 DEF LandsAs
  <1>q. QED BY <1>1, <1>2

LEMMA OneLandsAs ==
    ASSUME NEW s, Typed(s), NEW t, TypedTask(t), t.kind = "one"
    PROVE  LandsAs(s, t, OneLanded(s, t))
  <1>1. PICK told : told = [s EXCEPT !.page.refreshing = @ \ t.ids, !.page.refreshAgain = @ \ t.ids]
    OBVIOUS
  <1>2. PICK m \in Msgs : t.ids = {m} /\ m = CHOOSE k \in t.ids : TRUE
    BY DEF TypedTask
  <1>3. PICK again : again = IF ~t.fresh THEN s
                             ELSE IF t.ids \subseteq s.page.refreshAgain THEN RefreshOne(told, m) ELSE told
    OBVIOUS
  <1>4. Quiet(s, told)
    <2>1. PICK p \in PageFields : p = s.page
      BY DEF Typed, TypedPage
    <2>2. PICK q : q = [p EXCEPT !.refreshing = @ \ t.ids, !.refreshAgain = @ \ t.ids]
      OBVIOUS
    <2>3. q \in PageFields /\ q.rows = p.rows
      BY <2>1, <2>2 DEF PageFields
    <2>4. IsState(told) /\ told.page = q /\ told.tasks = s.tasks /\ told.cache = s.cache
      BY <1>1, <2>1, <2>2 DEF Typed, IsState
    <2>q. QED BY <2>1, <2>3, <2>4, FieldsQuiet
  <1>5. Quiet(s, again)
    <2>1. Quiet(told, RefreshOne(told, m))
      BY <1>4, RefreshOneQuiet DEF Quiet
    <2>2. Quiet(s, RefreshOne(told, m))
      BY <1>4, <2>1, QuietOn
    <2>q. QED BY <1>3, <1>4, <2>2, QuietSelf
  <1>6. Rowed(again, [again EXCEPT !.page.rows = Filled(@, t.items)], Filled(again.page.rows, t.items))
    BY <1>5, FilledSet DEF Quiet
  <1>7. OneLanded(s, t) = [again EXCEPT !.page.rows = Filled(@, t.items)]
    <2>1. CASE ~t.fresh
      BY <1>3, <2>1 DEF OneLanded
    <2>2. CASE t.fresh /\ t.ids \subseteq s.page.refreshAgain
      <3>1. again = RefreshOne(told, CHOOSE k \in t.ids : TRUE)
        BY <1>2, <1>3, <2>2
      <3>2. OneLanded(s, t) = [RefreshOne(told, CHOOSE k \in t.ids : TRUE) EXCEPT !.page.rows = Filled(@, t.items)]
        BY <1>1, <2>2 DEF OneLanded
      <3>q. QED BY <3>1, <3>2
    <2>3. CASE t.fresh /\ ~(t.ids \subseteq s.page.refreshAgain)
      BY <1>1, <1>3, <2>3 DEF OneLanded
    <2>q. QED BY <2>1, <2>2, <2>3
  <1>8. again.page.rows = s.page.rows
    BY <1>5 DEF Quiet
  <1>9. Rowed(s, OneLanded(s, t), Filled(s.page.rows, t.items))
    BY <1>5, <1>6, <1>7, <1>8, QuietRowed
  <1>q. QED BY <1>9 DEF LandsAs

LEMMA SendLandsAs ==
    ASSUME NEW s, Typed(s), NEW t, TypedTask(t), t.kind = "send", t.phase \in {"answered", "failed"}
    PROVE  LandsAs(s, t, SendLanded(s, t))
  <1>1. PICK free : free = [s EXCEPT !.page.sending = FALSE]
    OBVIOUS
  <1>2. Quiet(s, free) /\ free.page.rows = s.page.rows
    BY <1>1, AgainQuiet DEF Quiet
  <1>t. free.tasks = s.tasks
    BY <1>1 DEF Typed, IsState
  <1>3. CASE t.phase = "failed"
    BY <1>1, <1>2, <1>3 DEF SendLanded, LandsAs
  <1>4. CASE t.phase = "answered"
    <2>1. PICK m \in Msgs : t.ids = {m} /\ m = CHOOSE k \in t.ids : TRUE
      BY <1>4 DEF TypedTask
    <2>2. CASE HasRow(s.page.rows, m)
      <3>1. SendLanded(s, t) = [free EXCEPT !.page.rows = Filled(@, t.items)]
        BY <1>1, <1>4, <2>1, <2>2 DEF SendLanded
      <3>2. Rowed(free, SendLanded(s, t), Filled(free.page.rows, t.items))
        BY <1>2, <3>1, FilledSet DEF Quiet
      <3>3. Rowed(s, SendLanded(s, t), Filled(s.page.rows, t.items))
        BY <1>2, <3>2, QuietRowed
      <3>q. QED BY <3>3 DEF LandsAs
    <2>3. CASE ~HasRow(s.page.rows, m)
      <3>1. PICK v \in Nat : v = t.items[m]
        BY DEF TypedTask, Task
      <3>2. PICK rows : rows = Append(s.page.rows, [id |-> m, ver |-> v])
        OBVIOUS
      <3>3. s.page.rows \in Seq(Row) /\ IsInjective(RowIds(s.page.rows))
        BY DEF Typed, TypedPage, PageFields
      <3>4. rows \in Seq(Row) /\ RowIds(rows) = Append(RowIds(s.page.rows), m)
        BY <3>2, <3>3, AppendedRows
      <3>5. IsInjective(RowIds(rows))
        <4>1. PICK R : R = RowIds(s.page.rows) /\ R \in Seq(Msgs) /\ m \notin ToSet(R)
          BY <2>3, <3>3, RowIdsAre
        <4>2. Append(R, m) \in Seq(Msgs) /\ Inserted(R, Len(R) + 1, m, Append(R, m))
          BY <4>1, AppendInserts
        <4>3. IsInjective(Append(R, m))
          BY <3>3, <4>1, <4>2, InsertedOrder
        <4>q. QED BY <3>4, <4>1, <4>3
      <3>6. SendLanded(s, t) = [free EXCEPT !.page.rows = rows]
        <4>1. SendLanded(s, t) = [free EXCEPT !.page.rows = Append(@, [id |-> m, ver |-> t.items[m]])]
          BY <1>1, <1>4, <2>1, <2>3 DEF SendLanded
        <4>q. QED BY <1>2, <3>1, <3>2, <4>1
      <3>7. Rowed(free, SendLanded(s, t), rows)
        <4>1. Typed(free)
          BY <1>2 DEF Quiet
        <4>2. Rowed(free, [free EXCEPT !.page.rows = rows], rows)
          BY <3>4, <3>5, <4>1, RowsSet
        <4>q. QED BY <3>6, <4>2
      <3>8. Rowed(s, SendLanded(s, t), rows)
        BY <1>2, <3>7, QuietRowed
      <3>9. SendLanded(s, t).tasks = s.tasks
        BY <1>2, <1>t, <3>6 DEF Quiet, Typed, IsState
      <3>q. QED BY <1>4, <2>1, <2>3, <3>1, <3>2, <3>8, <3>9 DEF LandsAs, Places
    <2>q. QED BY <2>2, <2>3
  <1>q. QED BY <1>3, <1>4

LEMMA RemoveLandsAs ==
    ASSUME NEW s, Typed(s), NEW t, TypedTask(t), t.kind = "remove", t.phase \in {"answered", "failed"}
    PROVE  LandsAs(s, t, RemoveLanded(s, t))
  <1>1. CASE t.phase = "failed"
    BY <1>1, QuietSelf DEF RemoveLanded, LandsAs
  <1>2. CASE t.phase = "answered"
    <2>1. PICK rows : rows = Only(s.page.rows, {row \in ToSet(s.page.rows) : row.id \notin t.ids})
      OBVIOUS
    <2>2. s.page.rows \in Seq(Row) /\ IsInjective(RowIds(s.page.rows))
      BY DEF Typed, TypedPage, PageFields
    <2>3. rows \in Seq(Row) /\ IsInjective(RowIds(rows))
      <3>1. PICK S : S = Msgs \ t.ids
        OBVIOUS
      <3>2. \A row \in ToSet(s.page.rows) : row.id \in Msgs
        BY <2>2, RowIs DEF ToSet
      <3>3. {row \in ToSet(s.page.rows) : row.id \notin t.ids} = {row \in ToSet(s.page.rows) : row.id \in S}
        BY <3>1, <3>2
      <3>4. rows = Only(s.page.rows, {row \in ToSet(s.page.rows) : row.id \in S})
        BY <2>1, <3>3
      <3>5. OnlyThose(s.page.rows, S, rows)
        BY <2>2, <3>4, OnlyRows
      <3>q. QED BY <3>5 DEF OnlyThose
    <2>4. RemoveLanded(s, t) = [s EXCEPT !.page.rows = rows]
      BY <1>2, <2>1 DEF RemoveLanded
    <2>5. Rowed(s, RemoveLanded(s, t), rows)
      BY <2>3, <2>4, RowsSet
    <2>q. QED BY <1>2, <2>1, <2>5 DEF LandsAs, Drops
  <1>q. QED BY <1>1, <1>2

LEMMA AbsorbLandsAs ==
    ASSUME NEW s, Typed(s), NEW t, TypedTask(t)
    PROVE  LandsAs(s, t, AbsorbLanded(s, t))
  BY FilledSet DEF AbsorbLanded, LandsAs

LEMMA ActLandsAs ==
    ASSUME NEW s, Typed(s), NEW t, TypedTask(t), t.kind = "act"
    PROVE  LandsAs(s, t, ActLanded(s, t))
  <1>1. PICK m \in Msgs : m = CHOOSE k \in t.ids : TRUE
    BY DEF TypedTask
  <1>2. Quiet(s, RefreshOne(s, m)) /\ Quiet(s, s)
    BY RefreshOneQuiet, QuietSelf
  <1>q. QED BY <1>1, <1>2 DEF ActLanded, LandsAs

-----------------------------------------------------------------------------
(* Steps of the page *)

NowTyped == Typed(Now) /\ list \in Seq(Msgs) /\ IsInjective(list) /\ ver \in [Msgs -> Nat] /\ \A m \in Ids : ver[m] # 0

\* Lists with what was read of them, answered or held.
Brought(ts, c) ==
    c \cup {[list |-> t.list, items |-> t.items] :
               t \in {u \in ts : u.kind \in {"open", "prefetch"} /\ u.phase = "answered"}}

\* What becomes of the rows.
Kept       == page'.rows = page.rows
FilledBy   == \E t \in tasks : page'.rows = Filled(page.rows, t.items)
LoadedFrom ==
    /\ \E x \in Brought(tasks, cache) : page'.rows = RowsFor(x.list, x.items)
    /\ cache' # cache \/ (\E t \in tasks \ tasks' : t.kind = "open") \/ page.rows = <<>>
SentIn ==
    \E t \in tasks, m \in Msgs :
       /\ t.kind = "send" /\ t.phase = "answered" /\ t.ids = {m} /\ ~HasRow(page.rows, m)
       /\ page'.rows = Append(page.rows, [id |-> m, ver |-> t.items[m]])
       /\ \A u \in tasks' : u.kind # "send"
DroppedBy ==
    \E t \in tasks : /\ t.kind = "remove" /\ t.phase = "answered"
                     /\ page'.rows = Only(page.rows, {row \in ToSet(page.rows) : row.id \notin t.ids})
SyncedBy ==
    \E t \in tasks : /\ t.kind = "sync" /\ t.fresh /\ t.phase = "answered"
                     /\ InOrder(page.rows, t.list)
                     /\ SyncedTo(page.rows, t.list, page'.rows) /\ NoneLate(tasks')

RowsStep == Kept \/ FilledBy \/ LoadedFrom \/ SentIn \/ DroppedBy \/ SyncedBy

PageStep ==
    /\ UNCHANGED <<list, ver, moved>>
    /\ Typed(Now)' /\ Handed(tasks, tasks') /\ cache' \subseteq Brought(tasks, cache)
    /\ RowsStep

LEMMA BecomesTyped ==
    ASSUME NEW r, Typed(r), Becomes(r)
    PROVE  Typed(Now)' /\ page' = r.page /\ tasks' = r.tasks /\ cache' = r.cache
  <1>1. page' = r.page /\ tasks' = r.tasks /\ cache' = r.cache
    BY DEF Becomes
  <1>2. IsState(Now)' /\ Now'.page = page' /\ Now'.tasks = tasks' /\ Now'.cache = cache'
    BY DEF IsState, Now
  <1>q. QED BY <1>1, <1>2 DEF Typed

LEMMA NowFields == IsState(Now) /\ Now.page = page /\ Now.tasks = tasks /\ Now.cache = cache
  BY DEF IsState, Now

\* The rows are not touched.
LEMMA QuietStep ==
    ASSUME NowTyped, NEW r, Quiet(Now, r), Becomes(r), UNCHANGED <<list, ver, moved>>
    PROVE  PageStep
  <1>1. Typed(Now)' /\ page' = r.page /\ tasks' = r.tasks /\ cache' = r.cache
    BY BecomesTyped DEF Quiet
  <1>2. Kept /\ Handed(tasks, tasks') /\ cache' \subseteq Brought(tasks, cache)
    BY <1>1, NowFields DEF Quiet, Kept, Brought
  <1>q. QED BY <1>1, <1>2 DEF PageStep, RowsStep

\* The page loads anew.
LEMMA ReloadedStep ==
    ASSUME NowTyped, NEW s, s.page.rows = page.rows, Handed(tasks, s.tasks), Typed(s),
           s.cache \subseteq Brought(tasks, cache), s.cache = cache \/ page.rows = <<>>,
           NEW r, Reloaded(s, r), Becomes(r), UNCHANGED <<list, ver, moved>>
    PROVE  PageStep
  <1>1. Typed(Now)' /\ page' = r.page /\ tasks' = r.tasks /\ cache' = r.cache
    BY BecomesTyped DEF Reloaded
  <1>2. \A t \in tasks : TypedTask(t)
    BY NowFields DEF NowTyped, Typed
  <1>3. Handed(tasks, tasks')
    BY <1>1, <1>2, HandedOn DEF Reloaded
  <1>4. cache' = {}
    BY <1>1 DEF Reloaded
  <1>5. RowsStep
    BY <1>1, <1>4 DEF Reloaded, RowsStep, Kept, LoadedFrom
  <1>q. QED BY <1>1, <1>3, <1>4, <1>5 DEF PageStep

LEMMA RowedStep ==
    ASSUME NEW r, NEW rows, Rowed(Now, r, rows), Becomes(r)
    PROVE  /\ Typed(Now)' /\ page'.rows = rows /\ tasks' = r.tasks /\ Handed(tasks, tasks')
           /\ cache' = cache /\ cache' \subseteq Brought(tasks, cache)
  <1>1. Typed(Now)' /\ page' = r.page /\ tasks' = r.tasks /\ cache' = r.cache
    BY BecomesTyped DEF Rowed
  <1>q. QED BY <1>1, NowFields DEF Rowed, Brought

LEMMA LandStep == ASSUME NowTyped, MarksInv, NEW t \in tasks, Lands(t) PROVE PageStep
  <1>1. PICK s : s = [Now EXCEPT !.tasks = @ \ {t}]
    OBVIOUS
  <1>2. Typed(Now) /\ TypedTask(t)
    BY NowFields DEF NowTyped, Typed
  <1>3. IsState(s) /\ s.page = page /\ s.tasks = tasks \ {t} /\ s.cache = cache
    BY <1>1 DEF IsState, Now
  <1>4. Quiet(Now, s)
    <2>1. Typed(s)
      BY <1>2, <1>3, NowFields DEF Typed
    <2>q. QED BY <1>3, <2>1, NowFields, HandedSame DEF Quiet
  <1>5. PICK r : /\ Becomes(r)
                 /\ r = CASE t.kind = "open"   -> OpenLanded(s, t)
                          [] t.kind = "sync"   -> SyncLanded(s, t)
                          [] t.kind = "fill"   -> FillLanded(s, t)
                          [] t.kind = "absorb" -> AbsorbLanded(s, t)
                          [] t.kind = "one"    -> OneLanded(s, t)
                          [] t.kind = "send"   -> SendLanded(s, t)
                          [] t.kind = "remove" -> RemoveLanded(s, t)
                          [] t.kind = "act"    -> ActLanded(s, t)
    BY <1>1 DEF Lands
  <1>6. t.phase \in {"answered", "failed"} /\ t.kind # "prefetch" /\ UNCHANGED <<list, ver, moved>>
    BY DEF Lands, coreVars
  <1>7. Typed(s)
    BY <1>4 DEF Quiet
  <1>8. (t.kind = "sync" /\ t.fresh) => NoneLate(s.tasks)
    <2> SUFFICES ASSUME t.kind = "sync", t.fresh, NEW u \in s.tasks, u.kind = "sync", u.fresh PROVE FALSE
      BY DEF NoneLate
    <2>1. t \in Fresh(tasks, "sync") /\ u \in Fresh(tasks, "sync")
      BY <1>3 DEF Fresh
    <2>2. SyncTrue(page, Fresh(tasks, "sync"))
      BY NowFields DEF MarksInv, Settled, Good, Marks
    <2>q. QED BY <1>3, <2>1, <2>2 DEF SyncTrue
  <1>9. LandsAs(s, t, r)
    <2>1. t.kind \in {"open", "sync", "fill", "absorb", "one", "send", "remove", "act"}
      BY <1>2, <1>6 DEF TypedTask, Task
    <2>2. CASE t.kind \in {"open", "sync", "fill", "absorb"}
      BY <1>2, <1>5, <1>6, <1>7, <1>8, <2>2, OpenLandsAs, SyncLandsAs, FillLandsAs, AbsorbLandsAs
    <2>3. CASE t.kind \in {"one", "send", "remove", "act"}
      BY <1>2, <1>5, <1>6, <1>7, <2>3, OneLandsAs, SendLandsAs, RemoveLandsAs, ActLandsAs
    <2>q. QED BY <2>1, <2>2, <2>3
  <1>10. CASE Quiet(s, r)
    <2>1. Quiet(Now, r)
      BY <1>2, <1>4, <1>10, QuietOn
    <2>q. QED BY <1>5, <1>6, <2>1, QuietStep
  <1>11. ASSUME NEW rows, Rowed(s, r, rows)
         PROVE  /\ Typed(Now)' /\ page'.rows = rows /\ tasks' = r.tasks /\ Handed(tasks, tasks')
                /\ cache' \subseteq Brought(tasks, cache)
    <2>1. Rowed(Now, r, rows)
      BY <1>2, <1>4, <1>11, QuietRowed
    <2>q. QED BY <1>5, <2>1, RowedStep
  <1>12. CASE Rowed(s, r, Filled(s.page.rows, t.items))
    <2>1. FilledBy
      BY <1>3, <1>11, <1>12 DEF FilledBy
    <2>q. QED BY <1>6, <1>11, <1>12, <2>1 DEF PageStep, RowsStep
  <1>13. CASE t.phase = "answered" /\ t.kind = "open" /\ Loads(s, t, r)
    <2>1. page'.rows = RowsFor(t.list, t.items) /\ t \notin tasks'
      BY <1>3, <1>11, <1>13 DEF Loads
    <2>2. [list |-> t.list, items |-> t.items] \in Brought(tasks, cache)
      BY <1>13 DEF Brought
    <2>3. \E x \in Brought(tasks, cache) : page'.rows = RowsFor(x.list, x.items)
      <3>1. PICK x : x = [list |-> t.list, items |-> t.items]
        OBVIOUS
      <3>2. x.list = t.list /\ x.items = t.items
        BY <3>1
      <3>q. QED BY <2>1, <2>2, <3>1, <3>2
    <2>4. LoadedFrom
      BY <1>13, <2>1, <2>3 DEF LoadedFrom
    <2>q. QED BY <1>6, <1>11, <1>13, <2>4 DEF PageStep, RowsStep, Loads
  <1>14. CASE t.phase = "answered" /\ t.kind = "send" /\ Places(s, t, r)
    <2>1. PICK m \in Msgs : /\ t.ids = {m} /\ ~HasRow(page.rows, m)
                            /\ Rowed(s, r, Append(page.rows, [id |-> m, ver |-> t.items[m]]))
                            /\ r.tasks = tasks \ {t}
      BY <1>3, <1>14 DEF Places
    <2>2. \A u \in tasks' : u.kind # "send"
      <3>1. SendTrue(page, Sends(tasks))
        BY NowFields DEF MarksInv, Settled, Good, Marks
      <3>2. \A u \in tasks : u.kind = "send" => u = t
        BY <1>14, <3>1 DEF SendTrue, Sends
      <3>q. QED BY <1>11, <2>1, <3>2
    <2>3. SentIn
      BY <1>11, <1>14, <2>1, <2>2 DEF SentIn
    <2>q. QED BY <1>6, <1>11, <2>1, <2>3 DEF PageStep, RowsStep
  <1>15. CASE t.phase = "answered" /\ t.kind = "remove" /\ Drops(s, t, r)
    <2>1. DroppedBy
      BY <1>3, <1>11, <1>15 DEF Drops, DroppedBy
    <2>q. QED BY <1>6, <1>11, <1>15, <2>1 DEF PageStep, RowsStep, Drops
  <1>16. CASE t.phase = "answered" /\ t.kind = "sync" /\ t.fresh /\ Syncs(s, t.list, r) /\ NoneLate(r.tasks)
    <2>1. SyncedBy
      BY <1>3, <1>11, <1>16 DEF Syncs, SyncedBy
    <2>q. QED BY <1>6, <1>11, <1>16, <2>1 DEF PageStep, RowsStep, Syncs
  <1>17. CASE Reloaded(s, r)
    <2>1. /\ s.page.rows = page.rows /\ Handed(tasks, s.tasks) /\ s.cache \subseteq Brought(tasks, cache)
          /\ s.cache = cache
      BY <1>3, HandedSame DEF Brought
    <2>q. QED BY <1>5, <1>6, <1>7, <1>17, <2>1, ReloadedStep
  <1>q. QED BY <1>9, <1>10, <1>12, <1>13, <1>14, <1>15, <1>16, <1>17 DEF LandsAs

EventsTyped == events \in Seq([kind : {"list", "changed", "state", "lost"}, msg : Msgs])

LEMMA EventStep == ASSUME NowTyped, EventsTyped, HandleEvent PROVE PageStep
  <1>1. UNCHANGED <<list, ver, moved>>
    BY DEF HandleEvent
  <1>2. Typed(Now)
    BY DEF NowTyped
  <1>3. PICK m \in Msgs : m = Head(events).msg
    <2>1. PICK E : E = [kind : {"list", "changed", "state", "lost"}, msg : Msgs]
      OBVIOUS
    <2>2. events \in Seq(E)
      BY <2>1 DEF EventsTyped
    <2>3. events # <<>>
      BY DEF HandleEvent
    <2>4. Head(events) \in E
      BY <2>2, <2>3
    <2>q. QED BY <2>1, <2>4
  <1>4. PICK r : /\ Becomes(r)
                 /\ \/ r = Now \/ r = SyncRows(Now) \/ r = RefreshOne(SyncRows(Now), m)
                    \/ r = RefreshOne(Now, m) \/ r = Reload(Now)
    <2>1. CASE ~open
      BY <2>1 DEF HandleEvent
    <2>2. CASE open
      <3>1. Head(events).kind \in {"list", "changed", "state"} \/ Head(events).kind \notin {"list", "changed", "state"}
        OBVIOUS
      <3>q. QED BY <1>3, <2>2, <3>1 DEF HandleEvent
    <2>q. QED BY <2>1, <2>2
  <1>5. CASE r # Reload(Now)
    <2>1. Quiet(Now, Now) /\ Quiet(Now, SyncRows(Now)) /\ Quiet(Now, RefreshOne(Now, m))
      BY <1>2, QuietSelf, SyncRowsQuiet, RefreshOneQuiet
    <2>2. Quiet(SyncRows(Now), RefreshOne(SyncRows(Now), m))
      BY <2>1, RefreshOneQuiet DEF Quiet
    <2>3. Quiet(Now, RefreshOne(SyncRows(Now), m))
      BY <1>2, <2>1, <2>2, QuietOn
    <2>4. Quiet(Now, r)
      BY <1>4, <1>5, <2>1, <2>3
    <2>q. QED BY <1>1, <1>4, <2>4, QuietStep
  <1>6. CASE r = Reload(Now)
    <2>1. Reloaded(Now, r)
      BY <1>2, <1>6, ReloadIs
    <2>2. /\ Now.page.rows = page.rows /\ Handed(tasks, Now.tasks) /\ Now.cache \subseteq Brought(tasks, cache)
          /\ Now.cache = cache
      BY NowFields, HandedSame DEF Brought
    <2>q. QED BY <1>1, <1>2, <1>4, <2>1, <2>2, ReloadedStep
  <1>q. QED BY <1>5, <1>6

LEMMA AskStep == ASSUME NowTyped, NEW i, Ask(i) PROVE PageStep
  <1>1. PICK wanted : wanted = Wanted(i)
    OBVIOUS
  <1>2. Typed(Now) /\ page.rows \in Seq(Row)
    BY NowFields DEF NowTyped, Typed, TypedPage, PageFields
  <1>3. wanted \in SUBSET Msgs
    <2>1. \A k \in DOMAIN page.rows : page.rows[k].id \in Msgs
      BY <1>2, RowIdsAre
    <2>2. PICK J : J \subseteq DOMAIN page.rows /\ wanted = {page.rows[j].id : j \in J}
      <3>1. PICK blank : blank = {j \in DOMAIN page.rows :
                                   /\ i - MARGIN <= j /\ j <= i + MARGIN
                                   /\ page.rows[j].ver = 0 /\ page.rows[j].id \notin page.pending}
        OBVIOUS
      <3>2. \E J : J \subseteq blank /\ wanted = {page.rows[j].id : j \in J}
        BY <1>1, <3>1 DEF Wanted
      <3>q. QED BY <3>1, <3>2
    <2>q. QED BY <2>1, <2>2
  <1>4. PICK p \in PageFields : p = page
    BY <1>2, NowFields DEF Typed, TypedPage
  <1>5. PICK r : r = [Now EXCEPT !.page.pending = @ \cup wanted, !.page.fetches = @ + 1]
    OBVIOUS
  <1>k. PICK k \in Int : k = p.fetches + 1
    BY <1>4 DEF PageFields
  <1>6. PICK q, o : q = [p EXCEPT !.pending = @ \cup wanted] /\ o = [q EXCEPT !.fetches = k]
    OBVIOUS
  <1>7. q \in PageFields /\ q.rows = p.rows /\ q.fetches = p.fetches
    BY <1>3, <1>4, <1>6 DEF PageFields
  <1>8. o \in PageFields /\ o.rows = p.rows
    BY <1>6, <1>7 DEF PageFields
  <1>9. r.page = o /\ IsState(r) /\ r.tasks = tasks /\ r.cache = cache
    <2>1. /\ r.page = [p EXCEPT !.pending = @ \cup wanted, !.fetches = @ + 1]
          /\ IsState(r) /\ r.tasks = tasks /\ r.cache = cache
      BY <1>4, <1>5 DEF Now, IsState
    <2>2. [p EXCEPT !.pending = @ \cup wanted, !.fetches = @ + 1] = o
      BY <1>k, <1>6, <1>7
    <2>q. QED BY <2>1, <2>2
  <1>10. Quiet(Now, r)
    BY <1>2, <1>4, <1>8, <1>9, NowFields, FieldsQuiet
  <1>11. Asked(NewTask("fill", wanted))
    BY <1>3, NewAsked DEF TaskKinds
  <1>12. Quiet(r, Started(r, NewTask("fill", wanted)))
    BY <1>10, <1>11, StartQuiet DEF Quiet
  <1>13. Quiet(Now, Started(r, NewTask("fill", wanted)))
    BY <1>2, <1>10, <1>12, QuietOn
  <1>14. Becomes(Started(r, NewTask("fill", wanted))) /\ UNCHANGED <<list, ver, moved>>
    BY <1>1, <1>5 DEF Ask, coreVars
  <1>q. QED BY <1>13, <1>14, QuietStep

LEMMA SendStep == ASSUME NowTyped, Send PROVE PageStep
  <1>1. PICK r : r = [Now EXCEPT !.page.sending = TRUE]
    OBVIOUS
  <1>2. Typed(Now) /\ Quiet(Now, r)
    BY <1>1, AgainQuiet DEF NowTyped
  <1>3. Asked(NewTask("send", {}))
    BY NewAsked DEF TaskKinds
  <1>4. Quiet(r, Started(r, NewTask("send", {})))
    BY <1>2, <1>3, StartQuiet DEF Quiet
  <1>5. Quiet(Now, Started(r, NewTask("send", {})))
    BY <1>2, <1>4, QuietOn
  <1>6. Becomes(Started(r, NewTask("send", {}))) /\ UNCHANGED <<list, ver, moved>>
    BY <1>1 DEF Send, coreVars
  <1>q. QED BY <1>5, <1>6, QuietStep

LEMMA ReaderStep == ASSUME NowTyped, NEW m \in Msgs, RemoveMessage(m) \/ Act(m) PROVE PageStep
  <1>1. PICK kind_ \in {"remove", "act"} :
           /\ Becomes(Started(Now, NewTask(kind_, {m}))) /\ HasRow(page.rows, m)
           /\ UNCHANGED <<list, ver, moved>>
    BY DEF RemoveMessage, Act, coreVars
  <1>2. Typed(Now) /\ page.rows \in Seq(Row)
    BY NowFields DEF NowTyped, Typed, TypedPage, PageFields
  <1>3. m \in ToSet(RowIds(page.rows))
    BY <1>1, <1>2, RowIdsAre
  <1>4. Asked(NewTask(kind_, {m}))
    BY <1>3, NewAsked DEF TaskKinds
  <1>5. Quiet(Now, Started(Now, NewTask(kind_, {m})))
    BY <1>2, <1>4, StartQuiet
  <1>q. QED BY <1>1, <1>5, QuietStep

\* The page is made.
LEMMA OpenedStep ==
    ASSUME NowTyped, MarksInv, ~open, NEW s, s = [page |-> page, tasks |-> s.tasks, cache |-> s.cache],
           s.tasks \subseteq tasks, TypedCache(s.cache), s.cache \subseteq Brought(tasks, cache),
           Opened(s), UNCHANGED <<list, ver, moved>>
    PROVE  PageStep
  <1>1. page = NewPage
    BY DEF MarksInv, Unopened
  <1>2. PICK o : o = [s EXCEPT !.page = NewPage]
    OBVIOUS
  <1>3. IsState(o) /\ o.page = page /\ o.tasks = s.tasks /\ o.cache = s.cache
    BY <1>1, <1>2 DEF IsState
  <1>4. Typed(o)
    BY <1>3, NowFields DEF NowTyped, Typed
  <1>5. Reloaded(o, Reload(o)) /\ Becomes(Reload(o))
    BY <1>2, <1>4, ReloadIs DEF Opened
  <1>6. page.rows = <<>>
    BY <1>1 DEF NewPage
  <1>q. QED BY <1>3, <1>4, <1>5, <1>6, HandedSame, ReloadedStep

LEMMA OpensStep ==
    ASSUME NowTyped, MarksInv,
           Tap \/ OpenPage \/ \E t \in tasks, listActive \in BOOLEAN : PrefetchLands(t, listActive)
    PROVE  PageStep
  <1>1. Typed(Now) /\ (\A t \in tasks : TypedTask(t)) /\ TypedCache(cache)
    BY NowFields DEF NowTyped, Typed
  <1>2. CASE Tap
    <2>1. /\ tasks' = {[t EXCEPT !.fresh = FALSE] : t \in tasks} \cup {NewTask("prefetch", {})}
          /\ UNCHANGED <<list, ver, moved, page, cache>>
      BY <1>2 DEF Tap, coreVars
    <2>2. Asked(NewTask("prefetch", {}))
      BY NewAsked DEF TaskKinds
    <2>3. Handed(tasks, tasks')
      BY <2>1, <2>2 DEF Handed, Aged
    <2>4. \A u \in tasks' : TypedTask(u)
      BY <1>1, <2>3, HandedTyped
    <2>5. PICK r : r = [page |-> page, tasks |-> tasks', cache |-> cache]
      OBVIOUS
    <2>6. Quiet(Now, r) /\ Becomes(r)
      BY <1>1, <2>1, <2>3, <2>4, <2>5, NowFields DEF Quiet, Becomes, Typed, IsState
    <2>q. QED BY <2>1, <2>6, QuietStep
  <1>3. CASE OpenPage
    <2>1. Opened(Now) /\ ~open /\ UNCHANGED <<list, ver, moved>>
      BY <1>3 DEF OpenPage, coreVars
    <2>2. Now = [page |-> page, tasks |-> Now.tasks, cache |-> Now.cache]
      BY DEF Now
    <2>3. Now.cache \subseteq Brought(tasks, cache)
      BY NowFields DEF Brought
    <2>q. QED BY <1>1, <2>1, <2>2, <2>3, NowFields, OpenedStep
  <1>4. ASSUME NEW t \in tasks, NEW listActive \in BOOLEAN, PrefetchLands(t, listActive) PROVE PageStep
    <2>1. PICK x : x = [list |-> t.list, items |-> t.items]
      OBVIOUS
    <2>2. PICK held, s : /\ held = IF t.phase = "failed" THEN cache ELSE {x}
                         /\ s = [page |-> page, tasks |-> tasks \ {t},
                                 cache |-> IF t.fresh THEN held ELSE cache]
      OBVIOUS
    <2>3. /\ t.kind = "prefetch" /\ t.phase \in {"answered", "failed"} /\ (listActive => ~open)
          /\ IF t.fresh /\ listActive THEN Opened(s) ELSE Becomes(s) /\ UNCHANGED open
          /\ UNCHANGED <<list, ver, moved>>
      BY <1>4, <2>1, <2>2 DEF PrefetchLands, coreVars
    <2>4. TypedCache({x})
      <3>1. t.list \in Seq(Msgs) /\ IsInjective(t.list) /\ t.items \in [Msgs -> Nat]
        BY <1>1 DEF TypedTask, Task
      <3>q. QED BY <2>1, <3>1 DEF TypedCache, Cached
    <2>5. t.phase = "answered" => x \in Brought(tasks, cache)
      BY <2>1, <2>3 DEF Brought
    <2>6. TypedCache(s.cache) /\ s.cache \subseteq Brought(tasks, cache)
      <3>1. cache \subseteq Brought(tasks, cache)
        BY DEF Brought
      <3>q. QED BY <1>1, <2>2, <2>3, <2>4, <2>5, <3>1
    <2>7. s.page = page /\ s.tasks = tasks \ {t} /\ IsState(s) /\ s = [page |-> page, tasks |-> s.tasks, cache |-> s.cache]
      BY <2>2 DEF IsState
    <2>8. CASE t.fresh /\ listActive
      <3>1. ~open /\ Opened(s)
        BY <2>3, <2>8
      <3>q. QED BY <2>3, <2>6, <2>7, <3>1, OpenedStep
    <2>9. CASE ~(t.fresh /\ listActive)
      <3>1. Typed(s)
        BY <1>1, <2>6, <2>7, NowFields DEF Typed
      <3>2. Becomes(s)
        BY <2>3, <2>9
      <3>3. Typed(Now)' /\ page' = s.page /\ tasks' = s.tasks /\ cache' = s.cache
        BY <3>1, <3>2, BecomesTyped
      <3>4. Handed(tasks, tasks') /\ Kept
        BY <2>7, <3>3, HandedSame DEF Kept
      <3>q. QED BY <2>3, <2>6, <3>3, <3>4 DEF PageStep, RowsStep
    <2>q. QED BY <2>8, <2>9
  <1>q. QED BY <1>2, <1>3, <1>4

-----------------------------------------------------------------------------
(* Types, whatever the core answers *)

EventKinds == {"list", "changed", "state", "lost"}

EventsOn ==
    \/ UNCHANGED events
    \/ events # <<>> /\ events' = Tail(events)
    \/ \E kind_ \in EventKinds, m \in Msgs : Tell(kind_, m)
    \/ \E m \in Msgs : events' = <<[kind |-> "lost", msg |-> m]>>
BudgetOn == UNCHANGED budget \/ \E kind_ \in BudgetKinds : Spend(kind_)

\* What is neither the chat nor the page.
RestTyped ==
    /\ EventsTyped /\ budget \in [BudgetKinds -> Nat] /\ open \in BOOLEAN
    /\ behind \in BOOLEAN /\ crossed \subseteq Msgs /\ moved \in BOOLEAN
RestOn == EventsOn /\ BudgetOn /\ (UNCHANGED open \/ open' = TRUE) /\ moved' \in BOOLEAN /\ History

LEMMA EventsStay == ASSUME EventsTyped, EventsOn PROVE EventsTyped'
  <1>1. PICK E : E = [kind : EventKinds, msg : Msgs]
    OBVIOUS
  <1>2. events \in Seq(E)
    BY <1>1 DEF EventsTyped, EventKinds
  <1>3. \A kind_ \in EventKinds, m \in Msgs : [kind |-> kind_, msg |-> m] \in E
    BY <1>1
  <1>4. events' \in Seq(E)
    <2>1. CASE UNCHANGED events
      BY <1>2, <2>1
    <2>2. CASE events # <<>> /\ events' = Tail(events)
      BY <1>2, <2>2
    <2>3. ASSUME NEW kind_ \in EventKinds, NEW m \in Msgs, Tell(kind_, m) PROVE events' \in Seq(E)
      <3>1. PICK e \in E : e = [kind |-> kind_, msg |-> m]
        BY <1>3
      <3>2. events' = Append(events, e)
        BY <2>3, <3>1 DEF Tell
      <3>q. QED BY <1>2, <3>2
    <2>4. ASSUME NEW m \in Msgs, events' = <<[kind |-> "lost", msg |-> m]>> PROVE events' \in Seq(E)
      <3>1. PICK e \in E : e = [kind |-> "lost", msg |-> m]
        BY <1>3 DEF EventKinds
      <3>2. <<e>> \in Seq(E)
        OBVIOUS
      <3>q. QED BY <2>4, <3>1, <3>2
    <2>q. QED BY <2>1, <2>2, <2>3, <2>4 DEF EventsOn
  <1>q. QED BY <1>1, <1>4 DEF EventsTyped, EventKinds

LEMMA BudgetStays == ASSUME budget \in [BudgetKinds -> Nat], BudgetOn PROVE budget' \in [BudgetKinds -> Nat]
  <1>1. ASSUME NEW kind_ \in BudgetKinds, Spend(kind_) PROVE budget' \in [BudgetKinds -> Nat]
    <2>1. PICK n \in Nat : n = budget[kind_]
      OBVIOUS
    <2>2. n > 0 /\ budget' = [budget EXCEPT ![kind_] = n - 1]
      BY <1>1, <2>1 DEF Spend
    <2>3. PICK k \in Nat : k = n - 1
      BY <2>2
    <2>q. QED BY <2>2, <2>3
  <1>q. QED BY <1>1 DEF BudgetOn

LEMMA HistoryTyped ==
    ASSUME \A t \in tasks : TypedTask(t), crossed \subseteq Msgs, list' \in Seq(Msgs), History
    PROVE  behind' \in BOOLEAN /\ crossed' \subseteq Msgs
  <1>1. Ids' \subseteq Msgs
    BY DEF Ids, ToSet
  <1>2. \A t \in Failed("one") : t.ids \subseteq Msgs
    BY DEF Failed, TypedTask, Task
  <1>4. crossed' \subseteq Msgs
    <2>1. PICK caches : caches = cache \cup cache'
      OBVIOUS
    <2>2. PICK X : X = IF Failed("open") # {} THEN Msgs ELSE {}
      OBVIOUS
    <2>3. PICK C : C = {m \in Ids' : /\ ~LostTold' /\ ~ToldOf(m)'
                                     /\ OldVersion(m)' \/ \E c \in caches : Old(c.items, m)'}
      OBVIOUS
    <2>4. crossed' = crossed \cup X \cup (UNION {t.ids : t \in Failed("one")}) \cup C
      BY <2>1, <2>2, <2>3, Zenon DEF History
    <2>5. X \subseteq Msgs /\ C \subseteq Msgs
      BY <1>1, <2>2, <2>3
    <2>q. QED BY <1>2, <2>4, <2>5
  <1>5. behind' \in BOOLEAN
    <2>1. PICK caches : caches = cache \cup cache'
      OBVIOUS
    <2>2. behind' = (\/ behind /\ ~Healed
                     \/ Failed("open") \cup Failed("sync") # {}
                     \/ ~ListTold' /\ (OldList' \/ \E c \in caches : c.list # list'))
      BY <2>1, Zenon DEF History
    <2>q. QED BY <2>2
  <1>q. QED BY <1>4, <1>5

LEMMA RestStays ==
    ASSUME NowTyped, RestTyped, RestOn, list' \in Seq(Msgs)
    PROVE  RestTyped'
  <1>1. EventsTyped' /\ budget' \in [BudgetKinds -> Nat]
    BY EventsStay, BudgetStays DEF RestTyped, RestOn
  <1>2. behind' \in BOOLEAN /\ crossed' \subseteq Msgs
    BY NowFields, HistoryTyped DEF NowTyped, Typed, RestTyped, RestOn
  <1>3. open' \in BOOLEAN /\ moved' \in BOOLEAN
    BY DEF RestTyped, RestOn
  <1>q. QED BY <1>1, <1>2, <1>3 DEF RestTyped

\* The next id is one not used yet, below all others not used.
LEMMA NextIs ==
    ASSUME ver \in [Msgs -> Nat], Unused # {}
    PROVE  NextId \in Unused /\ \A k \in Unused : NextId <= k
  <1>1. Unused \in SUBSET Nat
    BY ConversationAssumption DEF Unused
  <1>2. \E x \in Unused : \A k \in Unused : x <= k
    BY <1>1, Least
  <1>q. QED BY <1>2 DEF NextId

LEMMA RestCore ==
    ASSUME NowTyped, RestTyped,
           \/ \E at : CoreArrives(at)
           \/ \E m \in Msgs, kind_ \in {"changed", "state"} : CoreChanges(m, kind_)
           \/ \E m \in Msgs : CoreDeletes(m)
           \/ CoreMoves
           \/ \E restart \in BOOLEAN : CoreLosesEvents(restart)
    PROVE  RestOn
  <1>u. open \in BOOLEAN /\ moved \in BOOLEAN
    BY DEF RestTyped
  <1>1. ASSUME NEW at, CoreArrives(at) PROVE RestOn
    <2>1. NextId \in Msgs
      BY <1>1, NextIs DEF CoreArrives, NowTyped, Unused
    <2>2. EventsOn
      BY <1>1, <2>1 DEF CoreArrives, EventsOn, EventKinds
    <2>q. QED BY <1>1, <1>u, <2>2 DEF CoreArrives, RestOn, BudgetOn, BudgetKinds, pageVars
  <1>2. ASSUME NEW m \in Msgs, NEW kind_ \in {"changed", "state"}, CoreChanges(m, kind_) PROVE RestOn
    <2>2. EventsOn
      BY <1>2 DEF CoreChanges, EventsOn, EventKinds
    <2>q. QED BY <1>2, <1>u, <2>2 DEF CoreChanges, RestOn, BudgetOn, BudgetKinds, pageVars
  <1>3. ASSUME NEW m \in Msgs, CoreDeletes(m) PROVE RestOn
    <2>2. EventsOn
      BY <1>3 DEF CoreDeletes, EventsOn, EventKinds
    <2>3. moved' \in BOOLEAN
      BY <1>3 DEF CoreDeletes
    <2>q. QED BY <1>3, <1>u, <2>2, <2>3 DEF CoreDeletes, RestOn, BudgetOn, BudgetKinds, pageVars
  <1>4. CASE CoreMoves
    <2>1. list[Len(list)] \in Msgs
      BY <1>4 DEF NowTyped, CoreMoves
    <2>2. EventsOn
      BY <1>4, <2>1 DEF CoreMoves, EventsOn, EventKinds
    <2>q. QED BY <1>4, <1>u, <2>2 DEF CoreMoves, RestOn, BudgetOn, BudgetKinds, pageVars
  <1>5. ASSUME NEW restart \in BOOLEAN, CoreLosesEvents(restart) PROVE RestOn
    <2>1. PICK m \in Msgs : m = CHOOSE k \in Msgs : TRUE
      BY ConversationAssumption
    <2>2. EventsOn
      BY <1>5, <2>1 DEF CoreLosesEvents, EventsOn
    <2>q. QED BY <1>5, <1>u, <2>2 DEF CoreLosesEvents, RestOn, BudgetOn, BudgetKinds
  <1>q. QED BY <1>1, <1>2, <1>3, <1>4, <1>5

LEMMA RestAnswers ==
    ASSUME NowTyped, RestTyped, NEW t \in tasks,
           \/ CoreLists(t) \/ CoreReads(t) \/ CoreRemoves(t) \/ CoreActs(t) \/ CoreFails(t)
           \/ \E phase \in {"made", "answered"} : CoreSends(t, phase)
    PROVE  RestOn
  <1>u. open \in BOOLEAN /\ moved \in BOOLEAN
    BY DEF RestTyped
  <1>t. TypedTask(t)
    BY NowFields DEF NowTyped, Typed
  <1>o. t.kind \in {"remove", "act"} => (CHOOSE m \in t.ids : TRUE) \in Msgs
    BY <1>t DEF TypedTask
  <1>1. CASE CoreLists(t)
    BY <1>1, <1>u DEF CoreLists, RestOn, EventsOn, BudgetOn, coreVars
  <1>2. CASE CoreReads(t)
    BY <1>2, <1>u DEF CoreReads, RestOn, EventsOn, BudgetOn, coreVars
  <1>3. CASE CoreRemoves(t)
    <2>1. EventsOn
      BY <1>3, <1>o DEF CoreRemoves, EventsOn, EventKinds
    <2>2. moved' \in BOOLEAN
      BY <1>3 DEF CoreRemoves
    <2>q. QED BY <1>3, <1>u, <2>1, <2>2 DEF CoreRemoves, RestOn, BudgetOn
  <1>4. CASE CoreActs(t)
    <2>1. EventsOn
      BY <1>4, <1>o DEF CoreActs, EventsOn, EventKinds
    <2>q. QED BY <1>4, <1>u, <2>1 DEF CoreActs, RestOn, BudgetOn
  <1>5. CASE CoreFails(t)
    BY <1>5, <1>u DEF CoreFails, RestOn, EventsOn, BudgetOn, BudgetKinds, coreVars
  <1>6. ASSUME NEW phase, CoreSends(t, phase) PROVE RestOn
    <2>1. NextId \in Msgs
      BY <1>6, NextIs DEF CoreSends, NowTyped, Unused
    <2>2. EventsOn
      BY <1>6, <2>1 DEF CoreSends, EventsOn, EventKinds
    <2>q. QED BY <1>6, <1>u, <2>2 DEF CoreSends, RestOn, BudgetOn
  <1>q. QED BY <1>1, <1>2, <1>3, <1>4, <1>5, <1>6

LEMMA RestOpens ==
    ASSUME RestTyped,
           \/ Tap \/ OpenPage
           \/ \E t \in tasks, listActive \in BOOLEAN : PrefetchLands(t, listActive)
    PROVE  RestOn
  <1>u. open \in BOOLEAN /\ moved \in BOOLEAN
    BY DEF RestTyped
  <1>1. CASE Tap
    BY <1>1, <1>u DEF Tap, RestOn, EventsOn, BudgetOn, BudgetKinds, coreVars
  <1>2. CASE OpenPage
    BY <1>2, <1>u DEF OpenPage, Opened, RestOn, EventsOn, BudgetOn, BudgetKinds, coreVars
  <1>3. ASSUME NEW t \in tasks, NEW listActive \in BOOLEAN, PrefetchLands(t, listActive) PROVE RestOn
    <2>1. UNCHANGED <<events, budget, moved>> /\ History
      BY <1>3 DEF PrefetchLands, coreVars
    <2>2. UNCHANGED open \/ open' = TRUE
      BY <1>3 DEF PrefetchLands, Opened
    <2>q. QED BY <1>u, <2>1, <2>2 DEF RestOn, EventsOn, BudgetOn
  <1>q. QED BY <1>1, <1>2, <1>3

LEMMA RestPage ==
    ASSUME RestTyped,
           \/ HandleEvent \/ Hydrate \/ Send
           \/ \E i \in DOMAIN page.rows : Scroll(i)
           \/ \E m \in Msgs : RemoveMessage(m) \/ Act(m)
           \/ \E t \in tasks : Lands(t)
    PROVE  RestOn
  <1>u. open \in BOOLEAN /\ moved \in BOOLEAN
    BY DEF RestTyped
  <1>1. CASE HandleEvent
    BY <1>1, <1>u DEF HandleEvent, RestOn, EventsOn, BudgetOn
  <1>2. CASE Hydrate
    BY <1>2, <1>u DEF Hydrate, Ask, RestOn, EventsOn, BudgetOn, coreVars
  <1>3. CASE Send
    BY <1>3, <1>u DEF Send, RestOn, EventsOn, BudgetOn, BudgetKinds, coreVars
  <1>4. ASSUME NEW i, Scroll(i) PROVE RestOn
    BY <1>4, <1>u DEF Scroll, Ask, RestOn, EventsOn, BudgetOn, BudgetKinds, coreVars
  <1>5. ASSUME NEW m, RemoveMessage(m) PROVE RestOn
    BY <1>5, <1>u DEF RemoveMessage, RestOn, EventsOn, BudgetOn, BudgetKinds, coreVars
  <1>6. ASSUME NEW m, Act(m) PROVE RestOn
    BY <1>6, <1>u DEF Act, RestOn, EventsOn, BudgetOn, BudgetKinds, coreVars
  <1>7. ASSUME NEW t, Lands(t) PROVE RestOn
    <2>1. UNCHANGED <<events, open, budget, moved>> /\ History
      BY <1>7 DEF Lands, coreVars
    <2>q. QED BY <1>u, <2>1 DEF RestOn, EventsOn, BudgetOn
  <1>q. QED BY <1>1, <1>2, <1>3, <1>4, <1>5, <1>6, <1>7

LEMMA AnswerTyped ==
    ASSUME NowTyped, NEW t, NEW u, TypedTask(u), Answer(t, u), UNCHANGED <<page, cache>>
    PROVE  Typed(Now)'
  <1>1. \A v \in tasks' : TypedTask(v)
    BY NowFields DEF Answer, NowTyped, Typed
  <1>2. IsState(Now)' /\ Now'.page = page' /\ Now'.tasks = tasks' /\ Now'.cache = cache'
    BY DEF IsState, Now
  <1>q. QED BY <1>1, <1>2, NowFields DEF NowTyped, Typed

LEMMA SameTyped == ASSUME NowTyped, UNCHANGED <<page, tasks, cache>> PROVE Typed(Now)'
  <1>1. IsState(Now)' /\ Now'.page = page' /\ Now'.tasks = tasks' /\ Now'.cache = cache'
    BY DEF IsState, Now
  <1>q. QED BY <1>1, NowFields DEF NowTyped, Typed

\* A task goes on: of its phase, the list or the items it brings, and its ids.
LEMMA PhaseTyped ==
    ASSUME NEW t, TypedTask(t), NEW phase \in {"answered", "failed"},
           phase = "answered" => t.kind # "send"
    PROVE  TypedTask([t EXCEPT !.phase = phase])
  <1>1. PICK u : u = [t EXCEPT !.phase = phase]
    OBVIOUS
  <1>2. /\ u \in Task /\ u.kind = t.kind /\ u.phase = phase /\ u.ids = t.ids /\ u.list = t.list
    BY <1>1 DEF TypedTask, Task
  <1>q. QED BY <1>1, <1>2 DEF TypedTask

LEMMA ListsTyped ==
    ASSUME NowTyped, NEW t \in tasks, CoreLists(t)
    PROVE  \E u : /\ Answer(t, u) /\ TypedTask(u) /\ u.list = list /\ u.kind = t.kind
                  /\ u.kind \in {"open", "prefetch", "sync"} /\ u.fresh = t.fresh
  <1>1. PICK first : first = IF Len(list) > OPENING THEN Len(list) - OPENING + 1 ELSE 1
    OBVIOUS
  <1>2. PICK opening : opening = ToSet(SubSeq(list, first, Len(list)))
    OBVIOUS
  <1>3. PICK ids, phase : /\ ids = IF t.kind = "sync" THEN {} ELSE opening
                          /\ phase = IF t.kind = "sync" \/ opening = {} THEN "answered" ELSE "listed"
    OBVIOUS
  <1>4. PICK u : u = [t EXCEPT !.list = list, !.ids = ids, !.phase = phase]
    OBVIOUS
  <1>5. Answer(t, u) /\ t.kind \in {"open", "prefetch", "sync"}
    BY <1>1, <1>2, <1>3, <1>4 DEF CoreLists
  <1>6. TypedTask(t) /\ list \in Seq(Msgs) /\ IsInjective(list)
    BY NowFields DEF NowTyped, Typed
  <1>7. opening \subseteq Msgs
    <2>1. first \in Nat /\ first >= 1 /\ Len(list) \in Nat
      BY <1>1, <1>6, ConversationAssumption
    <2>2. PICK Z : Z = SubSeq(list, first, Len(list))
      OBVIOUS
    <2>3. Z \in Seq(Msgs)
      BY <1>6, <2>1, <2>2
    <2>4. \A i \in DOMAIN Z : Z[i] \in Msgs
      BY <2>3
    <2>5. opening = ToSet(Z)
      BY <1>2, <2>2
    <2>q. QED BY <2>4, <2>5 DEF ToSet
  <1>8. /\ u \in Task /\ u.kind = t.kind /\ u.list = list /\ u.fresh = t.fresh /\ u.phase = phase
    BY <1>3, <1>4, <1>6, <1>7 DEF TypedTask, Task
  <1>9. TypedTask(u)
    BY <1>3, <1>5, <1>6, <1>8 DEF TypedTask
  <1>q. QED BY <1>5, <1>8, <1>9

LEMMA ReadsTyped ==
    ASSUME NowTyped, NEW t \in tasks, CoreReads(t)
    PROVE  \E u : /\ Answer(t, u) /\ TypedTask(u) /\ u.list = t.list /\ u.kind = t.kind
                  /\ u.fresh = t.fresh /\ u.ids = t.ids /\ u.kind \notin {"sync", "remove"}
                  /\ (u.kind = "send" /\ u.phase = "answered") => (u.ids \subseteq Ids /\ t.phase = "made")
                  /\ u.phase \in {"answered", "failed"}
  <1>1. PICK items, phase : /\ items = Items(t.ids)
                            /\ phase = IF t.kind = "send" /\ t.ids \cap Ids = {} THEN "failed"
                                       ELSE "answered"
    OBVIOUS
  <1>2. PICK u : u = [t EXCEPT !.items = items, !.phase = phase]
    OBVIOUS
  <1>3. Answer(t, u)
    BY <1>1, <1>2 DEF CoreReads
  <1>4. TypedTask(t) /\ ver \in [Msgs -> Nat]
    BY NowFields DEF NowTyped, Typed
  <1>5. items \in [Msgs -> Nat]
    BY <1>1, <1>4 DEF Items
  <1>6. /\ u \in Task /\ u.kind = t.kind /\ u.list = t.list /\ u.fresh = t.fresh /\ u.ids = t.ids
        /\ u.phase = phase
    BY <1>1, <1>2, <1>4, <1>5 DEF TypedTask, Task
  <1>7. t.phase = "asked" => t.kind \in {"fill", "absorb", "one"}
    BY DEF CoreReads
  <1>8. t.phase \in {"asked", "listed", "made"}
    BY DEF CoreReads
  <1>9. TypedTask(u) /\ u.kind \notin {"sync", "remove"}
    BY <1>1, <1>4, <1>6, <1>7, <1>8 DEF TypedTask
  <1>10. (u.kind = "send" /\ u.phase = "answered") => (u.ids \subseteq Ids /\ t.phase = "made")
    BY <1>1, <1>4, <1>6, <1>7, <1>8 DEF TypedTask
  <1>q. QED BY <1>1, <1>3, <1>6, <1>9, <1>10

LEMMA SendsTyped ==
    ASSUME NowTyped, NEW t \in tasks, NEW phase \in {"made", "answered"}, CoreSends(t, phase)
    PROVE  \E u : /\ Answer(t, u) /\ TypedTask(u) /\ u.list = t.list /\ u.kind = "send"
                  /\ u.ids = {NextId}
  <1>1. PICK n \in Msgs : n = NextId
    BY NextIs DEF CoreSends, NowTyped, Unused
  <1>2. TypedTask(t) /\ t.kind = "send"
    BY NowFields DEF NowTyped, Typed, CoreSends
  <1>3. PICK items : items = IF phase = "made" THEN t.items ELSE [t.items EXCEPT ![n] = 1]
    OBVIOUS
  <1>4. PICK u : u = [t EXCEPT !.ids = {n}, !.phase = phase, !.items = items]
    OBVIOUS
  <1>5. Answer(t, u)
    <2>1. [t EXCEPT !.ids = {n}, !.phase = phase,
                    !.items = IF phase = "made" THEN @ ELSE [@ EXCEPT ![n] = 1]] = u
      BY <1>3, <1>4
    <2>q. QED BY <1>1, <2>1 DEF CoreSends
  <1>6. items \in [Msgs -> Nat]
    BY <1>2, <1>3 DEF TypedTask, Task
  <1>7. u \in Task /\ u.kind = "send" /\ u.phase = phase /\ u.ids = {n} /\ u.list = t.list
    BY <1>2, <1>4, <1>6 DEF TypedTask, Task
  <1>8. TypedTask(u)
    BY <1>2, <1>7 DEF TypedTask
  <1>q. QED BY <1>1, <1>5, <1>7, <1>8

-----------------------------------------------------------------------------
(* The chat, its lists on their way and the rows *)

Used  == {m \in Msgs : ver[m] # 0}
Lists == {list} \cup {t.list : t \in tasks} \cup {c.list : c \in cache}
Shown == ToSet(RowIds(page.rows))

IsMade(t) == t.kind = "send" /\ t.phase \in {"made", "answered"}
IsSent(t) == t.kind = "send" /\ t.phase = "answered"
IsGone(t) == t.kind = "remove" /\ t.phase = "answered"
IsLate(t) == t.kind = "sync" /\ t.fresh /\ t.phase = "answered"

Made      == {m \in Msgs : \E t \in tasks : IsMade(t) /\ m \in t.ids}
Sent      == {m \in Msgs : \E t \in tasks : IsSent(t) /\ m \in t.ids}
Removed   == {m \in Msgs : \E t \in tasks : t.kind = "remove" /\ m \in t.ids}
Gone      == {m \in Msgs : \E t \in tasks : IsGone(t) /\ m \in t.ids}
LateLists == {t.list : t \in {u \in tasks : IsLate(u)}}

Agree(X, Y) == \A a, b \in ToSet(X) \cap ToSet(Y) : Before(X, a, b) => Before(Y, a, b)

\* Ids are given out counting up, and everything holds each once and only such.
Numbered ==
    /\ \A X \in Lists : X \in Seq(Msgs) /\ IsInjective(X) /\ ToSet(X) \subseteq Used
    /\ Shown \subseteq Used
    /\ \A m \in Used, k \in Msgs \ Used : m < k
    /\ Made \subseteq Used /\ Removed \subseteq Used /\ Gone \cap Ids = {}

\* A list lacks only what is newer than all it has, of what the chat still has.
Newer == \A X \in Lists : \A c \in ToSet(X), m \in Ids : m < c => m \in ToSet(X)

\* No row is newer than a message of one's own whose row is yet to come.
SentShown == \A m \in Made \cap Ids, a \in Shown : a > m => m \in Shown

\* Lists, however old, agree on the order.
ListsAgree == ~moved => \A X, Y \in Lists : Agree(X, Y)

\* A message of one's own comes after all that was there.
SentLast ==
    ~moved => \A m \in Made \cap Ids, X \in Lists :
                 m \in ToSet(X) => \A a \in ToSet(X) : a < m => Before(X, a, m)

SentThere == ~moved => Sent \subseteq Ids

\* The rows are in the chat's order.
RowsAgree == ~moved => Agree(RowIds(page.rows), list)

\* What has no row yet came before every newer row.
LackedBefore ==
    ~moved => \A a \in Ids \ Shown, b \in Ids \cap Shown : a < b => Before(list, a, b)

\* A list that lands finds rows newer than it after those it has, if it brings any.
LateOnesLast ==
    ~moved => \A L \in LateLists : \A b \in Ids \cap Shown, a \in (Ids \cap ToSet(L)) \ Shown :
                 NewerThan(b, L) => \A c \in Shown \cap ToSet(L) : Before(RowIds(page.rows), c, b)

\* And in its own order.
LateAgree == ~moved => \A L \in LateLists : Agree(RowIds(page.rows), L)

RowsInv ==
    /\ Numbered /\ Newer /\ SentShown /\ ListsAgree /\ SentLast /\ SentThere
    /\ RowsAgree /\ LackedBefore /\ LateOnesLast /\ LateAgree

-----------------------------------------------------------------------------
(* What a step makes of lists and sends *)

\* Of a task after a step that leaves the chat.
Calm(u) ==
    /\ u.list = <<>> \/ u.list \in Lists
    /\ IsLate(u) => u.list \in LateLists \cup {list}
    /\ IsMade(u) => u.ids \subseteq Made
    /\ IsSent(u) => u.ids \subseteq Sent \cup Ids
    /\ u.kind = "remove" => u.ids \subseteq Removed \cup Shown
    /\ IsGone(u) => u.ids \subseteq Gone

CalmStep ==
    /\ UNCHANGED <<list, moved>> /\ Used' = Used
    /\ (\A u \in tasks' : Calm(u)) /\ cache' \subseteq Brought(tasks, cache)
    /\ RowsStep

\* A message comes, or is sent.
GrownStep ==
    /\ UNCHANGED <<page, cache, moved>>
    /\ \E n \in Msgs \ Used, at \in 1..Len(list) + 1 :
          /\ \A k \in Msgs \ Used : n <= k
          /\ Used' = Used \cup {n}
          /\ list' \in Seq(Msgs) /\ Inserted(list, at, n, list')
          /\ \A u \in tasks' : \/ u \in tasks
                               \/ /\ at = Len(list) + 1 /\ u.kind = "send" /\ u.ids = {n}
                                  /\ u.list \in Lists

\* Messages are taken away.
ThinnedStep ==
    /\ UNCHANGED <<page, cache>> /\ Used' = Used
    /\ \E S \in SUBSET Msgs :
          /\ list' = Only(list, Ids \ S) /\ moved' = (moved \/ JustSent(S))
          /\ \A u \in tasks' : \/ u \in tasks
                               \/ /\ u.kind = "remove" /\ u.ids = S /\ S \subseteq Removed
                                  /\ u.list \in Lists

\* Messages change places.
MovedStep ==
    /\ UNCHANGED <<page, tasks, cache>> /\ Used' = Used
    /\ list' \in Seq(Msgs) /\ IsInjective(list') /\ ToSet(list') = Ids /\ moved' = TRUE

RowsOn == CalmStep \/ GrownStep \/ ThinnedStep \/ MovedStep

LEMMA TaskLists == \A t \in tasks : t.list \in Lists
  BY DEF Lists

LEMMA OfTasks ==
    ASSUME NEW t \in tasks, TypedTask(t)
    PROVE  /\ Calm(t)
           /\ IsLate(t) => t.list \in LateLists
           /\ IsMade(t) => t.ids \subseteq Made
           /\ IsSent(t) => t.ids \subseteq Sent
           /\ t.kind = "remove" => t.ids \subseteq Removed
           /\ IsGone(t) => t.ids \subseteq Gone
  <1>1. t.ids \subseteq Msgs
    BY DEF TypedTask, Task
  <1>2. /\ IsLate(t) => t.list \in LateLists
        /\ IsMade(t) => t.ids \subseteq Made
        /\ IsSent(t) => t.ids \subseteq Sent
        /\ t.kind = "remove" => t.ids \subseteq Removed
        /\ IsGone(t) => t.ids \subseteq Gone
    BY <1>1 DEF LateLists, Made, Sent, Removed, Gone
  <1>q. QED BY <1>2, TaskLists DEF Calm

\* t goes on as u.
LEMMA GoesOn ==
    ASSUME NEW t \in tasks, TypedTask(t), NEW u, u.kind = t.kind, u.ids = t.ids,
           u.list = t.list \/ u.list = list,
           IsLate(u) => u.list = list \/ IsLate(t),
           IsLate(u) => u.list = list \/ u.list = t.list,
           IsMade(u) => IsMade(t), IsSent(u) => (IsSent(t) \/ u.ids \subseteq Ids), IsGone(u) => IsGone(t)
    PROVE  Calm(u)
  <1>1. u.list \in Lists
    BY DEF Lists
  <1>2. IsLate(u) => u.list \in LateLists \cup {list}
    BY OfTasks
  <1>3. /\ IsMade(u) => u.ids \subseteq Made
        /\ IsSent(u) => u.ids \subseteq Sent \cup Ids
        /\ u.kind = "remove" => u.ids \subseteq Removed
        /\ IsGone(u) => u.ids \subseteq Gone
    BY OfTasks
  <1>q. QED BY <1>1, <1>2, <1>3 DEF Calm

LEMMA PageCalm == ASSUME NowTyped, PageStep PROVE CalmStep
  <1>1. Used' = Used
    BY DEF PageStep, Used
  <1>2. ASSUME NEW u \in tasks' PROVE Calm(u)
    <2>1. CASE Asked(u)
      <3>1. /\ u.phase = "asked" /\ u.list = <<>>
            /\ u.kind = "remove" => u.ids \subseteq Shown
        BY <2>1 DEF Asked, Shown
      <3>2. ~IsLate(u) /\ ~IsMade(u) /\ ~IsSent(u) /\ ~IsGone(u)
        BY <3>1 DEF IsLate, IsMade, IsSent, IsGone
      <3>q. QED BY <3>1, <3>2 DEF Calm
    <2>2. ASSUME NEW t \in tasks, u = t \/ u = [t EXCEPT !.fresh = FALSE] PROVE Calm(u)
      <3>1. TypedTask(t)
        BY NowFields DEF NowTyped, Typed
      <3>2. CASE u = t
        BY <3>1, <3>2, OfTasks
      <3>3. CASE u = [t EXCEPT !.fresh = FALSE]
        <4>1. u.kind = t.kind /\ u.ids = t.ids /\ u.list = t.list /\ u.phase = t.phase /\ ~u.fresh
          BY <3>1, <3>3 DEF TypedTask, Task
        <4>2. /\ ~IsLate(u) /\ (IsMade(u) => IsMade(t)) /\ (IsSent(u) => IsSent(t))
              /\ (IsGone(u) => IsGone(t))
          BY <4>1 DEF IsLate, IsMade, IsSent, IsGone
        <4>q. QED BY <3>1, <4>1, <4>2, GoesOn
      <3>q. QED BY <2>2, <3>2, <3>3
    <2>q. QED BY <2>1, <2>2 DEF PageStep, Handed, Aged
  <1>q. QED BY <1>1, <1>2 DEF PageStep, CalmStep

LEMMA KeptCalm ==
    ASSUME UNCHANGED <<list, page, cache, moved>>, Used' = Used, \A u \in tasks' : Calm(u)
    PROVE  CalmStep
  BY DEF CalmStep, RowsStep, Kept, Brought

\* Y is X with x put in.
Joined(X, at, x, Y) ==
    /\ IsInjective(Y) /\ ToSet(Y) = ToSet(X) \cup {x}
    /\ \A a, b \in ToSet(X) : Before(Y, a, b) <=> Before(X, a, b)
    /\ at = Len(X) + 1 => \A a \in ToSet(X) : Before(Y, a, x)

LEMMA JoinedOrder ==
    ASSUME NEW X \in Seq(Msgs), IsInjective(X), NEW at, NEW x, x \notin ToSet(X),
           NEW Y \in Seq(Msgs), Inserted(X, at, x, Y)
    PROVE  Joined(X, at, x, Y)
  <1>1. IsInjective(Y)
    BY InsertedOrder
  <1>a. ToSet(Y) = ToSet(X) \cup {x}
    BY InsertedOrder
  <1>b. \A a, b \in ToSet(X) : Before(Y, a, b) <=> Before(X, a, b)
    BY InsertedOrder
  <1>c. \A i \in DOMAIN X : i < at => Before(Y, X[i], x)
    BY InsertedOrder
  <1>2. ASSUME at = Len(X) + 1, NEW a \in ToSet(X) PROVE Before(Y, a, x)
    <2>1. PICK i \in DOMAIN X : a = X[i]
      BY DEF ToSet
    <2>2. i \in 1..Len(X) /\ Len(X) \in Nat
      OBVIOUS
    <2>q. QED BY <1>c, <1>2, <2>1, <2>2
  <1>q. QED BY <1>1, <1>a, <1>b, <1>2 DEF Joined

\* The next id joins the chat.
LEMMA Joins ==
    ASSUME NowTyped, Unused # {}, NEW n, n = NextId, NEW at, list' \in Seq(Msgs),
           Inserted(list, at, n, list'), ver' = [ver EXCEPT ![n] = 1]
    PROVE  /\ IsInjective(list') /\ ver' \in [Msgs -> Nat] /\ \A m \in Ids' : ver'[m] # 0
           /\ n \in Msgs \ Used /\ (\A k \in Msgs \ Used : n <= k) /\ Used' = Used \cup {n}
  <1>1. ver \in [Msgs -> Nat] /\ list \in Seq(Msgs) /\ IsInjective(list) /\ \A m \in Ids : ver[m] # 0
    BY DEF NowTyped
  <1>2. Unused = Msgs \ Used
    BY <1>1 DEF Unused, Used
  <1>3. n \in Msgs \ Used /\ \A k \in Msgs \ Used : n <= k
    BY <1>1, <1>2, NextIs
  <1>4. ver' \in [Msgs -> Nat] /\ ver'[n] = 1 /\ \A m \in Msgs \ {n} : ver'[m] = ver[m]
    BY <1>1, <1>3
  <1>5. Used' = Used \cup {n}
    BY <1>3, <1>4 DEF Used
  <1>6. n \notin ToSet(list)
    BY <1>1, <1>3 DEF Used, Ids, ToSet
  <1>7. IsInjective(list') /\ ToSet(list') = ToSet(list) \cup {n}
    <2>1. PICK X \in Seq(Msgs), Y \in Seq(Msgs) : X = list /\ Y = list'
      BY <1>1
    <2>2. IsInjective(X) /\ n \notin ToSet(X) /\ Inserted(X, at, n, Y)
      BY <1>1, <1>6, <2>1
    <2>3. IsInjective(Y) /\ ToSet(Y) = ToSet(X) \cup {n}
      <3>1. Joined(X, at, n, Y)
        BY <2>2, JoinedOrder
      <3>q. QED BY <3>1 DEF Joined
    <2>q. QED BY <2>1, <2>3
  <1>8. \A m \in Ids' : ver'[m] # 0
    <2>1. Ids' = ToSet(list') /\ ToSet(list) = Ids
      BY DEF Ids
    <2>2. Ids \subseteq Msgs
      BY <1>1 DEF Ids, ToSet
    <2>q. QED BY <1>1, <1>4, <1>7, <2>1, <2>2
  <1>q. QED BY <1>3, <1>4, <1>5, <1>7, <1>8

LEMMA ArrivesOn ==
    ASSUME NowTyped, NEW at \in 1..(Len(list) + 1), CoreArrives(at)
    PROVE  NowTyped' /\ GrownStep
  <1>1. PICK n : n = NextId
    OBVIOUS
  <1>2. /\ Unused # {} /\ list' = InsertAt(list, at, n) /\ ver' = [ver EXCEPT ![n] = 1]
        /\ UNCHANGED <<open, page, tasks, cache, moved>>
    BY <1>1 DEF CoreArrives, pageVars
  <1>3. n \in Msgs /\ list \in Seq(Msgs)
    BY <1>1, <1>2, NextIs DEF NowTyped, Unused
  <1>4. list' \in Seq(Msgs) /\ Inserted(list, at, n, list')
    BY <1>2, <1>3, InsertAtInserts
  <1>5. /\ IsInjective(list') /\ ver' \in [Msgs -> Nat] /\ \A m \in Ids' : ver'[m] # 0
        /\ n \in Msgs \ Used /\ (\A k \in Msgs \ Used : n <= k) /\ Used' = Used \cup {n}
    BY <1>1, <1>2, <1>4, Joins
  <1>6. Typed(Now)'
    BY <1>2, SameTyped
  <1>7. GrownStep
    BY <1>2, <1>4, <1>5 DEF GrownStep
  <1>q. QED BY <1>4, <1>5, <1>6, <1>7 DEF NowTyped

LEMMA SendsOn ==
    ASSUME NowTyped, NEW t \in tasks, NEW phase \in {"made", "answered"}, CoreSends(t, phase)
    PROVE  NowTyped' /\ GrownStep
  <1>1. PICK n : n = NextId
    OBVIOUS
  <1>2. /\ Unused # {} /\ list' = Append(list, n) /\ ver' = [ver EXCEPT ![n] = 1]
        /\ UNCHANGED <<page, cache, moved>>
    BY <1>1 DEF CoreSends
  <1>3. n \in Msgs /\ list \in Seq(Msgs)
    BY <1>1, <1>2, NextIs DEF NowTyped, Unused
  <1>4. list' \in Seq(Msgs) /\ Inserted(list, Len(list) + 1, n, list')
    BY <1>2, <1>3, AppendInserts
  <1>5. /\ IsInjective(list') /\ ver' \in [Msgs -> Nat] /\ \A m \in Ids' : ver'[m] # 0
        /\ n \in Msgs \ Used /\ (\A k \in Msgs \ Used : n <= k) /\ Used' = Used \cup {n}
    BY <1>1, <1>2, <1>4, Joins
  <1>6. PICK u : Answer(t, u) /\ TypedTask(u) /\ u.list = t.list /\ u.kind = "send" /\ u.ids = {n}
    BY <1>1, SendsTyped
  <1>7. Typed(Now)'
    BY <1>2, <1>6, AnswerTyped
  <1>8. \A v \in tasks' : v \in tasks \/ (v.kind = "send" /\ v.ids = {n} /\ v.list \in Lists)
    BY <1>6, TaskLists DEF Answer
  <1>9. Len(list) + 1 \in 1..Len(list) + 1
    BY <1>3
  <1>10. PICK at \in 1..Len(list) + 1 : at = Len(list) + 1
    BY <1>9
  <1>11. GrownStep
    BY <1>2, <1>4, <1>5, <1>8, <1>10 DEF GrownStep
  <1>q. QED BY <1>4, <1>5, <1>7, <1>11 DEF NowTyped

\* Messages S leave the chat.
LEMMA Leaves ==
    ASSUME NowTyped, NEW S, list' = Only(list, Ids \ S), UNCHANGED ver
    PROVE  /\ list' \in Seq(Msgs) /\ IsInjective(list') /\ ver' \in [Msgs -> Nat]
           /\ (\A m \in Ids' : ver'[m] # 0) /\ Used' = Used
  <1>1. list \in Seq(Msgs) /\ IsInjective(list)
    BY DEF NowTyped
  <1>2. list' \in Seq(Msgs) /\ IsInjective(list') /\ ToSet(list') = ToSet(list) \cap (Ids \ S)
    BY <1>1, OnlyOrder
  <1>3. Used' = Used
    BY DEF Used
  <1>q. QED BY <1>2, <1>3 DEF NowTyped, Ids

LEMMA DeletesOn == ASSUME NowTyped, NEW m \in Msgs, CoreDeletes(m) PROVE NowTyped' /\ ThinnedStep
  <1>1. /\ list' = Only(list, Ids \ {m}) /\ moved' = (moved \/ JustSent({m}))
        /\ UNCHANGED <<ver, page, tasks, cache>>
    BY DEF CoreDeletes, pageVars
  <1>2. /\ list' \in Seq(Msgs) /\ IsInjective(list') /\ ver' \in [Msgs -> Nat]
        /\ (\A k \in Ids' : ver'[k] # 0) /\ Used' = Used
    BY <1>1, Leaves
  <1>3. Typed(Now)'
    BY <1>1, SameTyped
  <1>4. PICK S \in SUBSET Msgs : S = {m}
    OBVIOUS
  <1>5. list' = Only(list, Ids \ S) /\ moved' = (moved \/ JustSent(S))
    BY <1>1, <1>4
  <1>6. ThinnedStep
    BY <1>1, <1>2, <1>5 DEF ThinnedStep
  <1>q. QED BY <1>2, <1>3, <1>6 DEF NowTyped

LEMMA RemovesOn == ASSUME NowTyped, NEW t \in tasks, CoreRemoves(t) PROVE NowTyped' /\ ThinnedStep
  <1>1. /\ list' = Only(list, Ids \ t.ids) /\ moved' = (moved \/ JustSent(t.ids))
        /\ UNCHANGED <<ver, page, cache>> /\ t.kind = "remove"
        /\ Answer(t, [t EXCEPT !.phase = "answered"])
    BY DEF CoreRemoves
  <1>2. /\ list' \in Seq(Msgs) /\ IsInjective(list') /\ ver' \in [Msgs -> Nat]
        /\ (\A k \in Ids' : ver'[k] # 0) /\ Used' = Used
    BY <1>1, Leaves
  <1>3. PICK u : u = [t EXCEPT !.phase = "answered"]
    OBVIOUS
  <1>4. TypedTask(t)
    BY NowFields DEF NowTyped, Typed
  <1>5. TypedTask(u) /\ u.kind = "remove" /\ u.ids = t.ids /\ u.list = t.list
    BY <1>1, <1>3, <1>4, PhaseTyped DEF TypedTask, Task
  <1>6. Typed(Now)'
    BY <1>1, <1>3, <1>5, AnswerTyped
  <1>7. t.ids \in SUBSET Msgs /\ t.ids \subseteq Removed
    BY <1>1, <1>4, OfTasks DEF TypedTask, Task
  <1>8. \A v \in tasks' : \/ v \in tasks
                          \/ v.kind = "remove" /\ v.ids = t.ids /\ t.ids \subseteq Removed /\ v.list \in Lists
    BY <1>1, <1>3, <1>5, <1>7, TaskLists DEF Answer
  <1>9. ThinnedStep
    BY <1>1, <1>2, <1>7, <1>8 DEF ThinnedStep
  <1>q. QED BY <1>2, <1>6, <1>9 DEF NowTyped

LEMMA MovesOn == ASSUME NowTyped, CoreMoves PROVE NowTyped' /\ MovedStep
  <1>1. /\ Len(list) > 1 /\ moved' = TRUE /\ UNCHANGED <<ver, page, tasks, cache>>
        /\ list' = [list EXCEPT ![Len(list)] = list[Len(list) - 1], ![Len(list) - 1] = list[Len(list)]]
    BY DEF CoreMoves, pageVars
  <1>2. list \in Seq(Msgs) /\ IsInjective(list)
    BY DEF NowTyped
  <1>3. PICK n \in Nat : n = Len(list) /\ DOMAIN list = 1..n /\ n - 1 \in 1..n /\ n \in 1..n
    BY <1>1, <1>2
  <1>4. /\ DOMAIN list' = 1..n /\ list'[n] = list[n - 1] /\ list'[n - 1] = list[n]
        /\ \A i \in 1..n : i # n /\ i # n - 1 => list'[i] = list[i]
    BY <1>1, <1>3
  <1>5. list' \in Seq(Msgs)
    <2>1. \A i \in 1..n : list[i] \in Msgs
      BY <1>2, <1>3
    <2>2. list' \in [1..n -> Msgs]
      BY <1>1, <1>3, <2>1
    <2>q. QED BY <2>2
  <1>6. IsInjective(list')
    <2>1. ASSUME NEW i \in 1..n, NEW j \in 1..n, list'[i] = list'[j] PROVE i = j
      BY <1>2, <1>3, <1>4, <2>1 DEF IsInjective
    <2>q. QED BY <1>4, <2>1 DEF IsInjective
  <1>7. ToSet(list') = Ids
    BY <1>3, <1>4 DEF ToSet, Ids
  <1>8. Typed(Now)' /\ Used' = Used
    BY <1>1, SameTyped DEF Used
  <1>9. MovedStep
    BY <1>1, <1>5, <1>6, <1>7, <1>8 DEF MovedStep
  <1>q. QED BY <1>1, <1>5, <1>6, <1>7, <1>8, <1>9 DEF NowTyped, Ids

\* A message changes.
LEMMA ChangedUsed ==
    ASSUME NowTyped, NEW C \in SUBSET Ids, ver' = [m \in Msgs |-> IF m \in C THEN ver[m] + 1 ELSE ver[m]]
    PROVE  ver' \in [Msgs -> Nat] /\ (\A m \in Ids : ver'[m] # 0) /\ Used' = Used
  <1>1. ver \in [Msgs -> Nat] /\ Ids \subseteq Msgs /\ \A m \in Ids : ver[m] # 0
    BY DEF NowTyped, Ids, ToSet
  <1>2. \A m \in Msgs : ver'[m] \in Nat /\ (ver'[m] # 0 <=> ver[m] # 0)
    BY <1>1
  <1>3. ver' \in [Msgs -> Nat]
    BY <1>2
  <1>4. Used' = Used
    BY <1>2 DEF Used
  <1>q. QED BY <1>1, <1>2, <1>3, <1>4

LEMMA ChangesOn ==
    ASSUME NowTyped, NEW m \in Msgs, NEW kind_, CoreChanges(m, kind_)
    PROVE  NowTyped' /\ CalmStep
  <1>1. /\ m \in Ids /\ ver' = [ver EXCEPT ![m] = @ + 1] /\ UNCHANGED <<list, page, tasks, cache, moved>>
    BY DEF CoreChanges, pageVars
  <1>2. ver' = [k \in Msgs |-> IF k \in {m} THEN ver[k] + 1 ELSE ver[k]]
    BY <1>1 DEF NowTyped
  <1>3. ver' \in [Msgs -> Nat] /\ (\A k \in Ids : ver'[k] # 0) /\ Used' = Used
    BY <1>1, <1>2, ChangedUsed
  <1>4. \A u \in tasks' : Calm(u)
    BY <1>1, OfTasks, NowFields DEF NowTyped, Typed
  <1>5. CalmStep
    BY <1>1, <1>3, <1>4, KeptCalm
  <1>6. Typed(Now)' /\ Ids' = Ids
    BY <1>1, SameTyped DEF Ids
  <1>q. QED BY <1>1, <1>3, <1>5, <1>6 DEF NowTyped

LEMMA AnswerCalm ==
    ASSUME NowTyped, NEW t \in tasks, NEW u, Answer(t, u), TypedTask(u), Calm(u),
           UNCHANGED <<list, page, cache, moved>>, ver' \in [Msgs -> Nat],
           \A m \in Ids : ver'[m] # 0, Used' = Used
    PROVE  NowTyped' /\ CalmStep
  <1>1. \A v \in tasks' : Calm(v)
    BY OfTasks, NowFields DEF NowTyped, Typed, Answer
  <1>2. Typed(Now)' /\ Ids' = Ids
    BY AnswerTyped DEF Ids
  <1>q. QED BY <1>1, <1>2, KeptCalm DEF NowTyped

LEMMA SameUsed ==
    ASSUME NowTyped, UNCHANGED ver
    PROVE  ver' \in [Msgs -> Nat] /\ (\A m \in Ids : ver'[m] # 0) /\ Used' = Used
  BY DEF NowTyped, Used

LEMMA ListsOn == ASSUME NowTyped, NEW t \in tasks, CoreLists(t) PROVE NowTyped' /\ CalmStep
  <1>1. PICK u : /\ Answer(t, u) /\ TypedTask(u) /\ u.list = list /\ u.kind = t.kind
                 /\ u.kind \in {"open", "prefetch", "sync"} /\ u.fresh = t.fresh
    BY ListsTyped
  <1>2. Calm(u)
    BY <1>1 DEF Calm, Lists, IsMade, IsSent, IsGone
  <1>3. UNCHANGED <<list, ver, page, cache, moved>>
    BY DEF CoreLists, coreVars
  <1>q. QED BY <1>1, <1>2, <1>3, SameUsed, AnswerCalm

LEMMA ReadsOn == ASSUME NowTyped, NEW t \in tasks, CoreReads(t) PROVE NowTyped' /\ CalmStep
  <1>1. PICK u : /\ Answer(t, u) /\ TypedTask(u) /\ u.list = t.list /\ u.kind = t.kind
                 /\ u.fresh = t.fresh /\ u.ids = t.ids /\ u.kind \notin {"sync", "remove"}
                 /\ (u.kind = "send" /\ u.phase = "answered") => (u.ids \subseteq Ids /\ t.phase = "made")
                 /\ u.phase \in {"answered", "failed"}
    BY ReadsTyped
  <1>2. TypedTask(t)
    BY NowFields DEF NowTyped, Typed
  <1>3. /\ ~IsLate(u) /\ ~IsGone(u) /\ (IsMade(u) => IsMade(t)) /\ (IsSent(u) => u.ids \subseteq Ids)
    BY <1>1 DEF IsLate, IsMade, IsSent, IsGone
  <1>4. Calm(u)
    BY <1>1, <1>2, <1>3, GoesOn
  <1>5. UNCHANGED <<list, ver, page, cache, moved>>
    BY DEF CoreReads, coreVars
  <1>q. QED BY <1>1, <1>4, <1>5, SameUsed, AnswerCalm

LEMMA FailedCalm ==
    ASSUME NEW t \in tasks, TypedTask(t)
    PROVE  TypedTask([t EXCEPT !.phase = "failed"]) /\ Calm([t EXCEPT !.phase = "failed"])
  <1>1. PICK u : u = [t EXCEPT !.phase = "failed"]
    OBVIOUS
  <1>2. TypedTask(u)
    BY <1>1, PhaseTyped
  <1>3. u.kind = t.kind /\ u.ids = t.ids /\ u.list = t.list /\ u.phase = "failed"
    BY <1>1 DEF TypedTask, Task
  <1>4. ~IsLate(u) /\ ~IsMade(u) /\ ~IsSent(u) /\ ~IsGone(u)
    BY <1>3 DEF IsLate, IsMade, IsSent, IsGone
  <1>5. Calm(u)
    BY <1>3, <1>4, GoesOn
  <1>q. QED BY <1>1, <1>2, <1>5

LEMMA ActsOn == ASSUME NowTyped, NEW t \in tasks, CoreActs(t) PROVE NowTyped' /\ CalmStep
  <1>1. PICK u : u = [t EXCEPT !.phase = "answered"]
    OBVIOUS
  <1>2. /\ t.kind = "act" /\ t.ids \subseteq Ids /\ Answer(t, u) /\ UNCHANGED <<list, page, cache, moved>>
        /\ ver' = [m \in Msgs |-> IF m \in t.ids THEN ver[m] + 1 ELSE ver[m]]
    BY <1>1 DEF CoreActs
  <1>3. TypedTask(t)
    BY NowFields DEF NowTyped, Typed
  <1>4. TypedTask(u) /\ u.kind = "act" /\ u.ids = t.ids /\ u.list = t.list
    BY <1>1, <1>2, <1>3, PhaseTyped DEF TypedTask, Task
  <1>5. Calm(u)
    BY <1>2, <1>3, <1>4, TaskLists DEF Calm, IsLate, IsMade, IsSent, IsGone
  <1>6. ver' \in [Msgs -> Nat] /\ (\A m \in Ids : ver'[m] # 0) /\ Used' = Used
    BY <1>2, ChangedUsed
  <1>q. QED BY <1>2, <1>4, <1>5, <1>6, AnswerCalm

LEMMA FailsOn == ASSUME NowTyped, NEW t \in tasks, CoreFails(t) PROVE NowTyped' /\ CalmStep
  <1>1. Answer(t, [t EXCEPT !.phase = "failed"]) /\ UNCHANGED <<list, ver, page, cache, moved>>
    BY DEF CoreFails, coreVars
  <1>2. TypedTask(t)
    BY NowFields DEF NowTyped, Typed
  <1>q. QED BY <1>1, <1>2, FailedCalm, SameUsed, AnswerCalm

LEMMA LosesOn ==
    ASSUME NowTyped, NEW restart \in BOOLEAN, CoreLosesEvents(restart)
    PROVE  NowTyped' /\ CalmStep
  <1>1. UNCHANGED <<list, ver, page, cache, moved>>
    BY DEF CoreLosesEvents
  <1>2. \A u \in tasks' : u \in tasks \/ \E t \in tasks : u = [t EXCEPT !.phase = "failed"]
    BY DEF CoreLosesEvents
  <1>3. \A t \in tasks : TypedTask(t)
    BY NowFields DEF NowTyped, Typed
  <1>4. \A u \in tasks' : TypedTask(u) /\ Calm(u)
    BY <1>2, <1>3, FailedCalm, OfTasks
  <1>5. Typed(Now)'
    <2>1. IsState(Now)' /\ Now'.page = page' /\ Now'.tasks = tasks' /\ Now'.cache = cache'
      BY DEF IsState, Now
    <2>q. QED BY <1>1, <1>4, <2>1, NowFields DEF NowTyped, Typed
  <1>6. Ids' = Ids /\ Used' = Used
    BY <1>1 DEF Ids, Used
  <1>q. QED BY <1>1, <1>4, <1>5, <1>6, KeptCalm DEF NowTyped

-----------------------------------------------------------------------------
(* The rows stay in line: a step that leaves the chat *)

\* Ids in an order.
Ordered(X) ==
    /\ X \in Seq(Msgs) /\ IsInjective(X) /\ ToSet(X) \subseteq Msgs
    /\ \A a, b : Before(X, a, b) => (a \in ToSet(X) /\ b \in ToSet(X) /\ a # b /\ ~Before(X, b, a))
    /\ \A a, b \in ToSet(X) : a # b => Before(X, a, b) \/ Before(X, b, a)

LEMMA OrderedIs == ASSUME NEW X \in Seq(Msgs), IsInjective(X) PROVE Ordered(X)
  <1>1. /\ \A a, b : Before(X, a, b) => /\ a \in ToSet(X) /\ b \in ToSet(X) /\ a # b
                                        /\ ~Before(X, b, a)
        /\ \A a, b \in ToSet(X) : a # b => Before(X, a, b) \/ Before(X, b, a)
    BY BeforeTotal
  <1>2. ToSet(X) \subseteq Msgs
    BY DEF ToSet
  <1>q. QED BY <1>1, <1>2 DEF Ordered

LEMMA RowsOrdered == ASSUME NowTyped PROVE Ordered(RowIds(page.rows)) /\ Ordered(list) /\ page.rows \in Seq(Row)
  <1>1. page.rows \in Seq(Row) /\ IsInjective(RowIds(page.rows))
    BY NowFields DEF NowTyped, Typed, TypedPage, PageFields
  <1>2. RowIds(page.rows) \in Seq(Msgs)
    BY <1>1, RowIdsAre
  <1>q. QED BY <1>1, <1>2, OrderedIs DEF NowTyped

LEMMA ListsOrdered == ASSUME Numbered PROVE \A X \in Lists : Ordered(X) /\ ToSet(X) \subseteq Used
  BY OrderedIs DEF Numbered

\* What a step that leaves the chat makes of what is on its way.
SetsOn ==
    /\ Lists' \subseteq Lists \cup {<<>>} /\ LateLists' \subseteq LateLists \cup {list}
    /\ Made' \subseteq Made /\ Sent' \subseteq Sent \cup Ids
    /\ Removed' \subseteq Removed \cup Shown /\ Gone' \subseteq Gone
    /\ UNCHANGED <<list, moved>> /\ Used' = Used /\ Ids' = Ids

LEMMA CalmSets == ASSUME CalmStep PROVE SetsOn
  <1>1. UNCHANGED <<list, moved>> /\ Used' = Used /\ \A u \in tasks' : Calm(u)
    BY DEF CalmStep
  <1>2. \A c \in cache' : c.list \in Lists
    <2>1. ASSUME NEW c \in Brought(tasks, cache) PROVE c.list \in Lists
      <3>1. CASE c \in cache
        BY <3>1 DEF Lists
      <3>2. ASSUME NEW t \in tasks, c = [list |-> t.list, items |-> t.items] PROVE c.list \in Lists
        BY <3>2, TaskLists
      <3>q. QED BY <3>1, <3>2 DEF Brought
    <2>q. QED BY <2>1 DEF CalmStep
  <1>3. Lists' \subseteq Lists \cup {<<>>}
    <2> SUFFICES ASSUME NEW X \in Lists' PROVE X \in Lists \cup {<<>>}
      OBVIOUS
    <2>1. X = list' \/ (\E u \in tasks' : X = u.list) \/ \E c \in cache' : X = c.list
      BY DEF Lists
    <2>2. list \in Lists
      BY DEF Lists
    <2>q. QED BY <1>1, <1>2, <2>1, <2>2 DEF Calm
  <1>4. LateLists' \subseteq LateLists \cup {list}
    <2> SUFFICES ASSUME NEW X \in LateLists' PROVE X \in LateLists \cup {list}
      OBVIOUS
    <2>1. PICK u \in tasks' : IsLate(u) /\ X = u.list
      BY DEF LateLists, IsLate
    <2>q. QED BY <1>1, <2>1 DEF Calm
  <1>5. Made' \subseteq Made
    BY <1>1 DEF Made, Calm, IsMade
  <1>6. Sent' \subseteq Sent \cup Ids
    BY <1>1 DEF Sent, Calm, IsSent
  <1>7. Removed' \subseteq Removed \cup Shown
    BY <1>1 DEF Removed, Calm
  <1>8. Gone' \subseteq Gone
    BY <1>1 DEF Gone, Calm, IsGone
  <1>q. QED BY <1>1, <1>3, <1>4, <1>5, <1>6, <1>7, <1>8 DEF SetsOn, Ids

\* Of the rows.
RowPart == Shown \subseteq Used /\ SentShown /\ RowsAgree /\ LackedBefore /\ LateOnesLast /\ LateAgree

\* The rows keep their ids, or some go that the chat has not.
LEMMA ThinnedRowPart ==
    ASSUME RowsInv, SetsOn, NowTyped, NEW P, P = RowIds(page'.rows),
           NEW G, G \cap Ids = {}, ToSet(P) = Shown \ G,
           \A a, b \in Shown \ G : Before(P, a, b) <=> Before(RowIds(page.rows), a, b),
           Ordered(P)
    PROVE  RowPart'
  <1>1. PICK R : R = RowIds(page.rows)
    OBVIOUS
  <1>2. Shown = ToSet(R) /\ Shown' = ToSet(P)
    BY <1>1 DEF Shown
  <1>3. RowIds(page.rows)' = P
    OBVIOUS
  <1>4. \A a, b : Before(P, a, b) => Before(R, a, b)
    BY <1>1, <1>2 DEF Ordered
  <1>5. Shown' \subseteq Used' /\ SentShown'
    BY <1>2 DEF RowsInv, Numbered, SentShown, SetsOn
  <1>6. RowsAgree'
    BY <1>1, <1>2, <1>3, <1>4 DEF RowsInv, RowsAgree, SetsOn, Agree
  <1>7. LackedBefore'
    BY <1>2 DEF RowsInv, LackedBefore, SetsOn
  <1>8. LateAgree'
    <2> SUFFICES ASSUME ~moved, NEW L \in LateLists' PROVE Agree(P, L)
      BY <1>3 DEF LateAgree, SetsOn
    <2>1. CASE L = list
      BY <1>1, <1>2, <1>4, <2>1 DEF RowsInv, RowsAgree, Agree
    <2>2. CASE L \in LateLists
      BY <1>1, <1>2, <1>4, <2>2 DEF RowsInv, LateAgree, Agree
    <2>q. QED BY <2>1, <2>2 DEF SetsOn
  <1>9. LateOnesLast'
    <2> SUFFICES ASSUME ~moved, NEW L \in LateLists',
                        NEW b \in Ids \cap ToSet(P), NEW a \in (Ids \cap ToSet(L)) \ ToSet(P),
                        NewerThan(b, L), NEW c \in ToSet(P) \cap ToSet(L)
                 PROVE  Before(P, c, b)
      BY <1>2, <1>3 DEF LateOnesLast, SetsOn
    <2>1. CASE L = list
      <3>1. b > b
        BY <2>1 DEF NewerThan, Ids
      <3>2. b \in Msgs
        BY DEF Ordered
      <3>q. QED BY <3>1, <3>2, ConversationAssumption
    <2>2. CASE L \in LateLists
      <3>1. a \in (Ids \cap ToSet(L)) \ Shown /\ b \in Ids \cap Shown /\ c \in Shown \cap ToSet(L)
        BY <1>2
      <3>2. Before(R, c, b)
        BY <1>1, <2>2, <3>1 DEF RowsInv, LateOnesLast
      <3>q. QED BY <1>1, <3>2
    <2>q. QED BY <2>1, <2>2 DEF SetsOn
  <1>q. QED BY <1>5, <1>6, <1>7, <1>8, <1>9 DEF RowPart

LEMMA KeptRowPart ==
    ASSUME RowsInv, SetsOn, NowTyped, RowIds(page'.rows) = RowIds(page.rows)
    PROVE  RowPart'
  <1>1. PICK P : P = RowIds(page'.rows)
    OBVIOUS
  <1>2. Ordered(P) /\ ToSet(P) = Shown
    BY <1>1, RowsOrdered DEF Shown
  <1>3. PICK G : G = {}
    OBVIOUS
  <1>4. G \cap Ids = {} /\ Shown \ G = Shown
    BY <1>3
  <1>q. QED BY <1>1, <1>2, <1>4, ThinnedRowPart

LEMMA DroppedRowPart == ASSUME RowsInv, SetsOn, NowTyped, DroppedBy PROVE RowPart'
  <1>1. PICK t \in tasks :
           /\ IsGone(t)
           /\ page'.rows = Only(page.rows, {row \in ToSet(page.rows) : row.id \notin t.ids})
    BY DEF DroppedBy, IsGone
  <1>2. PICK rows, out, G : rows = page.rows /\ out = page'.rows /\ G = t.ids
    OBVIOUS
  <1>3. TypedTask(t)
    BY NowFields DEF NowTyped, Typed
  <1>4. G \subseteq Gone
    BY <1>1, <1>2, <1>3, OfTasks
  <1>5. G \cap Ids = {}
    BY <1>4 DEF RowsInv, Numbered
  <1>6. rows \in Seq(Row) /\ IsInjective(RowIds(rows)) /\ ToSet(RowIds(rows)) = Shown /\ Shown \subseteq Msgs
    BY <1>2, RowsOrdered DEF Ordered, Shown
  <1>7. OnlyThose(rows, Msgs \ G, out)
    <2>1. \A row \in ToSet(rows) : row.id \in Msgs
      BY <1>6, RowIs DEF ToSet
    <2>2. out = Only(rows, {row \in ToSet(rows) : row.id \notin G})
      BY <1>1, <1>2
    <2>3. {row \in ToSet(rows) : row.id \notin G} = {row \in ToSet(rows) : row.id \in Msgs \ G}
      BY <2>1
    <2>4. out = Only(rows, {row \in ToSet(rows) : row.id \in Msgs \ G})
      BY <2>2, <2>3
    <2>q. QED BY <1>6, <2>4, OnlyRows
  <1>8. PICK P : P = RowIds(page'.rows)
    OBVIOUS
  <1>9. /\ IsInjective(P) /\ ToSet(P) = Shown \ G /\ out \in Seq(Row)
        /\ \A a, b \in Shown \ G : Before(P, a, b) <=> Before(RowIds(page.rows), a, b)
    BY <1>2, <1>6, <1>7, <1>8 DEF OnlyThose
  <1>10. Ordered(P)
    <2>1. P \in Seq(Msgs)
      BY <1>2, <1>8, <1>9, RowIdsAre
    <2>q. QED BY <1>9, <2>1, OrderedIs
  <1>q. QED BY <1>5, <1>8, <1>9, <1>10, ThinnedRowPart

\* The whole chat is loaded.
LEMMA LoadedRowPart ==
    ASSUME RowsInv, SetsOn, NowTyped, NEW P \in Lists, P = RowIds(page'.rows)
    PROVE  RowPart'
  <1>1. Shown' = ToSet(P) /\ RowIds(page.rows)' = P
    BY DEF Shown
  <1>2. Ordered(P) /\ ToSet(P) \subseteq Used /\ Ids \subseteq Msgs
    BY ListsOrdered, RowsOrdered DEF RowsInv, Ordered, Ids
  <1>3. \A m \in Ids, c \in ToSet(P) : m < c => m \in ToSet(P)
    BY DEF RowsInv, Newer
  <1>4. \A m, c \in Msgs : m > c <=> c < m
    BY ConversationAssumption
  <1>5. SentShown'
    BY <1>1, <1>2, <1>3, <1>4 DEF SentShown, SetsOn
  <1>6. RowsAgree'
    <2>1. list \in Lists
      BY DEF Lists
    <2>q. QED BY <1>1, <2>1 DEF RowsInv, ListsAgree, RowsAgree, SetsOn
  <1>7. LackedBefore'
    BY <1>1, <1>3 DEF LackedBefore, SetsOn
  <1>8. LateAgree'
    <2>1. \A L \in LateLists \cup {list} : L \in Lists
      BY DEF LateLists, Lists
    <2>q. QED BY <1>1, <2>1 DEF RowsInv, ListsAgree, LateAgree, SetsOn
  <1>9. LateOnesLast'
    <2> SUFFICES ASSUME NEW L \in LateLists',
                        NEW b \in Ids \cap ToSet(P), NEW a \in (Ids \cap ToSet(L)) \ ToSet(P),
                        NewerThan(b, L)
                 PROVE  FALSE
      BY <1>1 DEF LateOnesLast, SetsOn
    <2>1. b > a
      BY DEF NewerThan
    <2>q. QED BY <1>2, <1>3, <1>4, <2>1
  <1>q. QED BY <1>1, <1>2, <1>5, <1>6, <1>7, <1>8, <1>9 DEF RowPart, SetsOn

\* A message of one's own comes in at the end.
LEMMA SentRowPart == ASSUME RowsInv, SetsOn, NowTyped, SentIn PROVE RowPart'
  <1>1. PICK t \in tasks, m \in Msgs :
           /\ IsSent(t) /\ t.ids = {m} /\ ~HasRow(page.rows, m)
           /\ page'.rows = Append(page.rows, [id |-> m, ver |-> t.items[m]])
           /\ \A u \in tasks' : u.kind # "send"
    BY DEF SentIn, IsSent
  <1>2. PICK R, P, v : R = RowIds(page.rows) /\ P = RowIds(page'.rows) /\ v = t.items[m]
    OBVIOUS
  <1>3. TypedTask(t) /\ v \in Nat
    BY <1>2, NowFields DEF NowTyped, Typed, TypedTask, Task
  <1>4. Ordered(R) /\ page.rows \in Seq(Row) /\ Ordered(list)
    BY <1>2, RowsOrdered
  <1>5. P = Append(R, m) /\ m \notin ToSet(R)
    <2>1. PICK rows, out : rows \in Seq(Row) /\ rows = page.rows /\ out = page'.rows
      BY <1>4
    <2>2. out = Append(rows, [id |-> m, ver |-> v])
      BY <1>1, <1>2, <2>1
    <2>3. RowIds(out) = Append(RowIds(rows), m)
      BY <1>3, <2>1, <2>2, AppendedRows
    <2>4. m \notin ToSet(RowIds(rows))
      BY <1>1, <2>1, RowIdsAre
    <2>q. QED BY <1>2, <2>1, <2>3, <2>4
  <1>6. Joined(R, Len(R) + 1, m, P) /\ P \in Seq(Msgs)
    <2>1. P \in Seq(Msgs) /\ Inserted(R, Len(R) + 1, m, P)
      BY <1>4, <1>5, AppendInserts DEF Ordered
    <2>q. QED BY <1>4, <1>5, <2>1, JoinedOrder DEF Ordered
  <1>7. /\ Ordered(P) /\ ToSet(P) = ToSet(R) \cup {m}
        /\ \A a, b \in ToSet(R) : Before(P, a, b) <=> Before(R, a, b)
        /\ \A a \in ToSet(R) : Before(P, a, m)
    BY <1>6, OrderedIs DEF Joined
  <1>8. Shown = ToSet(R) /\ Shown' = ToSet(P) /\ RowIds(page.rows)' = P
    BY <1>2 DEF Shown
  <1>9. m \in Sent /\ m \in Made
    BY <1>1, <1>3, OfTasks DEF IsSent, IsMade
  <1>10. Made' = {} /\ m \in Used /\ Ids \subseteq Msgs
    BY <1>1, <1>4, <1>9 DEF Made, IsMade, RowsInv, Numbered, Ordered, Ids
  <1>11. SentShown' /\ Shown' \subseteq Used'
    BY <1>7, <1>8, <1>10 DEF SentShown, RowsInv, Numbered, SetsOn
  \* All rows are older, so that every list with m has it last of them.
  <1>12. ASSUME m \in Ids PROVE \A a \in ToSet(R) : a < m
    <2>1. ASSUME NEW a \in ToSet(R), a > m PROVE FALSE
      BY <1>5, <1>8, <1>9, <1>12, <2>1 DEF RowsInv, SentShown
    <2>2. \A a \in ToSet(R) : a \in Nat /\ a # m
      BY <1>4, <1>5, ConversationAssumption DEF Ordered
    <2>3. m \in Nat
      BY ConversationAssumption
    <2>q. QED BY <2>1, <2>2, <2>3
  <1>13. ASSUME ~moved, NEW X \in Lists, m \in ToSet(X), NEW a \in ToSet(X), a < m PROVE Before(X, a, m)
    <2>1. m \in Ids
      BY <1>9, <1>13 DEF RowsInv, SentThere
    <2>q. QED BY <1>9, <1>13, <2>1 DEF RowsInv, SentLast
  <1>14. ~moved => m \in Ids
    BY <1>9 DEF RowsInv, SentThere
  <1>15. list \in Lists /\ \A L \in LateLists : L \in Lists
    BY DEF LateLists, Lists
  <1>16. ASSUME ~moved, NEW X \in Lists, Agree(R, X) PROVE Agree(P, X)
    <2> SUFFICES ASSUME NEW a \in ToSet(P) \cap ToSet(X), NEW b \in ToSet(P) \cap ToSet(X), Before(P, a, b)
                 PROVE  Before(X, a, b)
      BY DEF Agree
    <2>1. CASE a \in ToSet(R) /\ b \in ToSet(R)
      BY <1>7, <1>16, <2>1 DEF Agree
    <2>2. CASE a = m
      BY <1>5, <1>7, <2>2 DEF Ordered
    <2>3. CASE a \in ToSet(R) /\ b = m
      <3>1. a < m
        BY <1>12, <1>14, <1>16, <2>3
      <3>q. QED BY <1>13, <1>16, <2>3, <3>1
    <2>q. QED BY <1>7, <2>1, <2>2, <2>3
  <1>17. RowsAgree'
    BY <1>2, <1>8, <1>15, <1>16 DEF RowsInv, RowsAgree, SetsOn
  <1>18. LateAgree'
    <2> SUFFICES ASSUME ~moved, NEW L \in LateLists' PROVE Agree(P, L)
      BY <1>8 DEF LateAgree, SetsOn
    <2>1. CASE L = list
      BY <1>2, <1>15, <1>16, <2>1 DEF RowsInv, RowsAgree
    <2>2. CASE L \in LateLists
      BY <1>2, <1>15, <1>16, <2>2 DEF RowsInv, LateAgree
    <2>q. QED BY <2>1, <2>2 DEF SetsOn
  <1>19. LackedBefore'
    <2> SUFFICES ASSUME ~moved, NEW a \in Ids \ ToSet(P), NEW b \in Ids \cap ToSet(P), a < b
                 PROVE  Before(list, a, b)
      BY <1>8 DEF LackedBefore, SetsOn
    <2>1. CASE b \in ToSet(R)
      BY <1>7, <1>8, <2>1 DEF RowsInv, LackedBefore
    <2>2. CASE b = m
      BY <1>13, <1>15, <2>2 DEF Ids
    <2>q. QED BY <1>7, <2>1, <2>2
  <1>20. LateOnesLast'
    <2> SUFFICES ASSUME ~moved, NEW L \in LateLists',
                        NEW b \in Ids \cap ToSet(P), NEW a \in (Ids \cap ToSet(L)) \ ToSet(P),
                        NewerThan(b, L), NEW c \in ToSet(P) \cap ToSet(L)
                 PROVE  Before(P, c, b)
      BY <1>8 DEF LateOnesLast, SetsOn
    <2>1. CASE L = list
      <3>1. b > b
        BY <2>1 DEF NewerThan, Ids
      <3>q. QED BY <1>10, <3>1, ConversationAssumption
    <2>2. CASE L \in LateLists
      <3>1. CASE b \in ToSet(R) /\ c \in ToSet(R)
        <4>1. Before(R, c, b)
          BY <1>2, <1>7, <1>8, <2>2, <3>1 DEF RowsInv, LateOnesLast
        <4>q. QED BY <1>7, <3>1, <4>1
      <3>2. CASE b = m /\ c \in ToSet(R)
        BY <1>7, <3>2
      <3>3. CASE c = m
        <4>1. b > m
          BY <3>3 DEF NewerThan
        <4>2. b # m
          BY <1>10, <4>1, ConversationAssumption
        <4>3. b \in ToSet(R)
          BY <1>7, <4>2
        <4>4. b < m
          BY <1>12, <1>14, <4>3
        <4>q. QED BY <1>10, <4>1, <4>4, ConversationAssumption
      <3>q. QED BY <1>7, <3>1, <3>2, <3>3
    <2>q. QED BY <2>1, <2>2 DEF SetsOn
  <1>q. QED BY <1>11, <1>17, <1>18, <1>19, <1>20 DEF RowPart

\* A list lands.
LEMMA SyncedRowPart == ASSUME RowsInv, SetsOn, NowTyped, SyncedBy PROVE RowPart'
  <1>1. PICK t \in tasks :
           /\ IsLate(t) /\ SyncedTo(page.rows, t.list, page'.rows) /\ NoneLate(tasks')
    BY DEF SyncedBy, IsLate
  <1>2. PICK R, P, L : R = RowIds(page.rows) /\ P = RowIds(page'.rows) /\ L = t.list
    OBVIOUS
  <1>3. L \in Lists /\ L \in LateLists
    BY <1>1, <1>2 DEF Lists, LateLists
  <1>4. Ordered(R) /\ Ordered(L) /\ Ordered(list) /\ ToSet(L) \subseteq Used
    BY <1>2, <1>3, RowsOrdered, ListsOrdered DEF RowsInv
  <1>5. /\ ToSet(P) = ToSet(L) \cup {m \in ToSet(R) : NewerThan(m, L)}
        /\ \A a, b \in ToSet(R) \cap ToSet(P) : Before(P, a, b) <=> Before(R, a, b)
        /\ \A a, b : Before(L, a, b) => Before(P, a, b)
        /\ \A b \in ToSet(R) \ ToSet(L) :
              (NewerThan(b, L) /\ \A c \in ToSet(L) \cap ToSet(R) : Before(R, c, b))
              => \A a \in ToSet(L) : Before(P, a, b)
    BY <1>1, <1>2 DEF SyncedTo
  <1>6. Ordered(P)
    <2>1. page'.rows \in Seq(Row) /\ IsInjective(P)
      BY <1>1, <1>2 DEF SyncedTo
    <2>q. QED BY <1>2, <2>1, RowIdsAre, OrderedIs
  <1>7. Shown = ToSet(R) /\ Shown' = ToSet(P) /\ RowIds(page.rows)' = P
    BY <1>2 DEF Shown
  <1>8. LateLists' = {}
    BY <1>1 DEF LateLists, IsLate, NoneLate
  <1>9. ToSet(list) = Ids /\ Ids \subseteq Msgs /\ ToSet(L) \subseteq Msgs /\ ToSet(R) \subseteq Msgs
    BY <1>4 DEF Ordered, Ids
  <1>10. \A a, b \in Msgs : a < b \/ b < a \/ a = b
    BY ConversationAssumption
  <1>11. \A a, b \in Msgs : a < b <=> b > a
    BY ConversationAssumption
  \* What the list lacks of the chat is newer.
  <1>12. \A m \in Ids \ ToSet(L) : NewerThan(m, L)
    BY <1>3, <1>9, <1>10, <1>11 DEF RowsInv, Newer, NewerThan
  <1>13. Ids \cap ToSet(P) = Ids \cap (ToSet(L) \cup ToSet(R))
    BY <1>5, <1>12
  <1>14. Shown' \subseteq Used'
    BY <1>4, <1>5, <1>7 DEF RowsInv, Numbered, SetsOn
  <1>15. SentShown'
    <2> SUFFICES ASSUME NEW m \in Made \cap Ids, NEW a \in ToSet(P), a > m PROVE m \in ToSet(P)
      BY <1>7 DEF SentShown, SetsOn
    <2>1. CASE a \in ToSet(L)
      <3>1. m < a
        BY <1>9, <1>11, <2>1
      <3>2. m \in ToSet(L)
        BY <1>3, <2>1, <3>1 DEF RowsInv, Newer
      <3>q. QED BY <1>5, <3>2
    <2>2. CASE a \in ToSet(R)
      <3>1. m \in ToSet(R)
        BY <1>7, <2>2 DEF RowsInv, SentShown
      <3>q. QED BY <1>13, <3>1
    <2>q. QED BY <1>5, <2>1, <2>2
  <1>16. LackedBefore'
    <2> SUFFICES ASSUME ~moved, NEW a \in Ids \ ToSet(P), NEW b \in Ids \cap ToSet(P), a < b
                 PROVE  Before(list, a, b)
      BY <1>7 DEF LackedBefore, SetsOn
    <2>1. a \in Ids \ ToSet(R)
      BY <1>13
    <2>2. CASE b \in ToSet(L)
      <3>1. a \in ToSet(L)
        BY <1>3, <2>2 DEF RowsInv, Newer
      <3>q. QED BY <1>5, <3>1
    <2>3. CASE b \in ToSet(R)
      BY <1>7, <2>1, <2>3 DEF RowsInv, LackedBefore
    <2>q. QED BY <1>5, <2>2, <2>3
  <1>17. RowsAgree'
    <2> SUFFICES ASSUME ~moved, NEW a \in Ids \cap ToSet(P), NEW b \in Ids \cap ToSet(P), Before(P, a, b)
                 PROVE  Before(list, a, b)
      BY <1>7, <1>9 DEF RowsAgree, Agree, SetsOn
    <2>0. a # b /\ ~Before(P, b, a)
      BY <1>6 DEF Ordered
    <2>1. CASE a \in ToSet(R) /\ b \in ToSet(R)
      <3>1. Before(R, a, b)
        BY <1>5, <2>1
      <3>q. QED BY <1>2, <1>9, <2>1, <3>1 DEF RowsInv, RowsAgree, Agree
    <2>2. CASE a \in ToSet(L) /\ b \in ToSet(L)
      <3>1. Before(L, a, b)
        BY <1>4, <1>5, <2>0, <2>2 DEF Ordered
      <3>2. list \in Lists
        BY DEF Lists
      <3>q. QED BY <1>3, <1>9, <2>2, <3>1, <3>2 DEF RowsInv, ListsAgree, Agree
    <2>3. ASSUME NEW x \in Ids \cap ToSet(L), x \notin ToSet(R), NEW y \in Ids \cap ToSet(R), y \notin ToSet(L)
          PROVE  Before(list, x, y) /\ Before(P, x, y)
      <3>1. NewerThan(y, L)
        BY <1>12, <2>3
      <3>2. x < y
        BY <1>9, <1>11, <3>1 DEF NewerThan
      <3>3. Before(list, x, y)
        BY <1>7, <2>3, <3>2 DEF RowsInv, LackedBefore
      <3>4. \A c \in ToSet(L) \cap ToSet(R) : Before(R, c, y)
        BY <1>2, <1>3, <1>7, <2>3, <3>1 DEF RowsInv, LateOnesLast
      <3>q. QED BY <1>5, <2>3, <3>1, <3>3, <3>4
    <2>4. CASE a \in ToSet(L) /\ a \notin ToSet(R) /\ b \in ToSet(R) /\ b \notin ToSet(L)
      BY <2>3, <2>4
    <2>5. CASE b \in ToSet(L) /\ b \notin ToSet(R) /\ a \in ToSet(R) /\ a \notin ToSet(L)
      BY <2>0, <2>3, <2>5
    <2>6. a \in ToSet(L) \cup ToSet(R) /\ b \in ToSet(L) \cup ToSet(R)
      BY <1>13
    <2>q. QED BY <2>1, <2>2, <2>4, <2>5, <2>6
  <1>18. LateAgree' /\ LateOnesLast'
    BY <1>8 DEF LateAgree, LateOnesLast
  <1>q. QED BY <1>14, <1>15, <1>16, <1>17, <1>18 DEF RowPart

LEMMA RowsCalm == ASSUME RowsInv, NowTyped, CalmStep PROVE RowsInv'
  <1>1. SetsOn
    BY CalmSets
  <1>2. RowPart'
    <2>0. page.rows \in Seq(Row)
      BY RowsOrdered
    <2>1. CASE Kept
      BY <1>1, <2>1, KeptRowPart DEF Kept
    <2>2. CASE FilledBy
      <3>1. PICK t \in tasks : page'.rows = Filled(page.rows, t.items)
        BY <2>2 DEF FilledBy
      <3>2. t.items \in [Msgs -> Nat]
        BY NowFields DEF NowTyped, Typed, TypedTask, Task
      <3>3. RowIds(page'.rows) = RowIds(page.rows)
        BY <2>0, <3>1, <3>2, FilledRows
      <3>q. QED BY <1>1, <3>3, KeptRowPart
    <2>3. CASE LoadedFrom
      <3>1. PICK x \in Brought(tasks, cache) : page'.rows = RowsFor(x.list, x.items)
        BY <2>3 DEF LoadedFrom
      <3>2. x.list \in Lists /\ x.list \in Seq(Msgs) /\ x.items \in [Msgs -> Nat]
        <4>1. CASE x \in cache
          BY <4>1, NowFields DEF NowTyped, Typed, TypedCache, Cached, Lists
        <4>2. ASSUME NEW t \in tasks, x = [list |-> t.list, items |-> t.items]
              PROVE  x.list \in Lists /\ x.list \in Seq(Msgs) /\ x.items \in [Msgs -> Nat]
          <5>1. x.list = t.list /\ x.items = t.items
            BY <4>2
          <5>2. TypedTask(t) /\ t.list \in Lists
            BY TaskLists, NowFields DEF NowTyped, Typed
          <5>q. QED BY <5>1, <5>2 DEF TypedTask, Task
        <4>q. QED BY <4>1, <4>2 DEF Brought
      <3>3. RowIds(page'.rows) = x.list
        BY <3>1, <3>2, LoadedRows
      <3>q. QED BY <1>1, <3>2, <3>3, LoadedRowPart
    <2>4. CASE SentIn
      BY <1>1, <2>4, SentRowPart
    <2>5. CASE DroppedBy
      BY <1>1, <2>5, DroppedRowPart
    <2>6. CASE SyncedBy
      BY <1>1, <2>6, SyncedRowPart
    <2>q. QED BY <2>1, <2>2, <2>3, <2>4, <2>5, <2>6 DEF CalmStep, RowsStep
  <1>3. ToSet(<<>>) = {} /\ <<>> \in Seq(Msgs) /\ IsInjective(<<>>)
    BY DEF ToSet, IsInjective
  <1>4. Numbered'
    <2>1. \A X \in Lists' : X \in Seq(Msgs) /\ IsInjective(X) /\ ToSet(X) \subseteq Used
      BY <1>1, <1>3 DEF SetsOn, RowsInv, Numbered
    <2>2. Shown' \subseteq Used' /\ Used' = Used
      BY <1>1, <1>2 DEF RowPart, SetsOn
    <2>3. Made' \subseteq Used /\ Removed' \subseteq Used /\ Gone' \cap Ids' = {}
      BY <1>1 DEF SetsOn, RowsInv, Numbered
    <2>4. \A m \in Used, k \in Msgs \ Used : m < k
      BY DEF RowsInv, Numbered
    <2>q. QED BY <2>1, <2>2, <2>3, <2>4 DEF Numbered
  <1>5. Newer'
    BY <1>1, <1>3 DEF SetsOn, RowsInv, Newer
  <1>6. ListsAgree'
    <2>1. \A X : Agree(X, <<>>) /\ Agree(<<>>, X)
      BY <1>3 DEF Agree
    <2>q. QED BY <1>1, <2>1 DEF SetsOn, RowsInv, ListsAgree
  <1>7. SentLast'
    BY <1>1, <1>3 DEF SetsOn, RowsInv, SentLast
  <1>8. SentThere'
    BY <1>1 DEF SetsOn, RowsInv, SentThere
  <1>q. QED BY <1>2, <1>4, <1>5, <1>6, <1>7, <1>8 DEF RowsInv, RowPart

-----------------------------------------------------------------------------
(* The rows stay in line: the chat changes *)

\* The page and its lists are what they were; what is new is the chat's list.
LEMMA SamePage ==
    ASSUME UNCHANGED <<page, cache>>, \A u \in tasks' : u.list \in Lists
    PROVE  Shown' = Shown /\ RowIds(page.rows)' = RowIds(page.rows) /\ Lists' \subseteq Lists \cup {list'}
  <1>1. Shown' = Shown /\ RowIds(page.rows)' = RowIds(page.rows)
    BY DEF Shown
  <1>2. ASSUME NEW X \in Lists' PROVE X \in Lists \cup {list'}
    <2>1. X = list' \/ (\E u \in tasks' : X = u.list) \/ \E c \in cache : X = c.list
      BY DEF Lists
    <2>2. \A c \in cache : c.list \in Lists
      BY DEF Lists
    <2>q. QED BY <2>1, <2>2
  <1>q. QED BY <1>1, <1>2

LEMMA RowsGrown == ASSUME RowsInv, NowTyped, GrownStep PROVE RowsInv'
  <1>1. PICK n \in Msgs \ Used, at \in 1..Len(list) + 1 :
          /\ \A k \in Msgs \ Used : n <= k
          /\ Used' = Used \cup {n}
          /\ list' \in Seq(Msgs) /\ Inserted(list, at, n, list')
          /\ \A u \in tasks' : \/ u \in tasks
                               \/ /\ at = Len(list) + 1 /\ u.kind = "send" /\ u.ids = {n}
                                  /\ u.list \in Lists
    BY DEF GrownStep
  <1>2. PICK Y, R : Y = list' /\ R = RowIds(page.rows)
    OBVIOUS
  <1>3. UNCHANGED <<page, cache, moved>>
    BY DEF GrownStep
  <1>4. Ordered(R) /\ Ordered(list) /\ ToSet(list) = Ids /\ \A X \in Lists : Ordered(X) /\ ToSet(X) \subseteq Used
    BY <1>2, RowsOrdered, ListsOrdered DEF RowsInv, Ids
  <1>5. list \in Lists /\ \A t \in tasks : t.list \in Lists
    BY TaskLists DEF Lists
  <1>6. n \notin ToSet(list) /\ Ids \subseteq Used /\ Used \subseteq Msgs /\ n \in Msgs
    BY <1>1, <1>4, <1>5 DEF Used
  <1>7. Joined(list, at, n, Y)
    BY <1>1, <1>2, <1>4, <1>6, JoinedOrder DEF Ordered
  <1>8. /\ Ordered(Y) /\ ToSet(Y) = Ids \cup {n}
        /\ \A a, b \in Ids : Before(Y, a, b) <=> Before(list, a, b)
        /\ at = Len(list) + 1 => \A a \in Ids : Before(Y, a, n)
    BY <1>1, <1>2, <1>4, <1>7, OrderedIs DEF Joined
  <1>9. Ids' = Ids \cup {n}
    BY <1>2, <1>8 DEF Ids
  <1>10. /\ Shown' = Shown /\ Shown = ToSet(R) /\ RowIds(page.rows)' = R
         /\ Lists' \subseteq Lists \cup {Y}
    <2>1. \A u \in tasks' : u.list \in Lists
      BY <1>1, <1>5
    <2>q. QED BY <1>2, <1>3, <2>1, SamePage DEF Shown
  <1>11. /\ Made' \subseteq Made \cup {n} /\ (at # Len(list) + 1 => Made' \subseteq Made)
         /\ Sent' \subseteq Sent \cup {n} /\ Removed' \subseteq Removed /\ Gone' \subseteq Gone
         /\ LateLists' \subseteq LateLists
    <2>1. Made' \subseteq Made \cup {n} /\ (at # Len(list) + 1 => Made' \subseteq Made)
      BY <1>1 DEF Made, IsMade
    <2>2. Sent' \subseteq Sent \cup {n}
      BY <1>1 DEF Sent, IsSent
    <2>3. Removed' \subseteq Removed
      BY <1>1 DEF Removed
    <2>4. Gone' \subseteq Gone
      BY <1>1 DEF Gone, IsGone
    <2>5. LateLists' \subseteq LateLists
      BY <1>1 DEF LateLists, IsLate
    <2>q. QED BY <2>1, <2>2, <2>3, <2>4, <2>5
  <1>12. \A m \in Used : m < n /\ ~(n < m) /\ m # n
    BY <1>1, <1>6, ConversationAssumption DEF RowsInv, Numbered
  <1>13. Shown \subseteq Used /\ Made \subseteq Used /\ Removed \subseteq Used /\ Gone \cap Ids = {} /\ Gone \subseteq Used
    <2>1. Gone \subseteq Removed
      BY DEF Gone, Removed, IsGone
    <2>q. QED BY <2>1 DEF RowsInv, Numbered
  <1>14. Numbered'
    <2>1. \A X \in Lists' : X \in Seq(Msgs) /\ IsInjective(X) /\ ToSet(X) \subseteq Used'
      BY <1>1, <1>4, <1>6, <1>8, <1>10 DEF Ordered
    <2>2. \A m \in Used', k \in Msgs \ Used' : m < k
      <3> SUFFICES ASSUME NEW m \in Used', NEW k \in Msgs \ Used' PROVE m < k
        OBVIOUS
      <3>1. CASE m = n
        BY <1>1, <3>1, ConversationAssumption
      <3>2. CASE m \in Used
        BY <1>1, <3>2 DEF RowsInv, Numbered
      <3>q. QED BY <1>1, <3>1, <3>2
    <2>3. Shown' \subseteq Used' /\ Made' \subseteq Used' /\ Removed' \subseteq Used' /\ Gone' \cap Ids' = {}
      BY <1>1, <1>9, <1>10, <1>11, <1>13
    <2>q. QED BY <2>1, <2>2, <2>3 DEF Numbered
  <1>15. Newer'
    <2> SUFFICES ASSUME NEW X \in Lists', NEW c \in ToSet(X), NEW m \in Ids', m < c PROVE m \in ToSet(X)
      BY DEF Newer
    <2>1. CASE X = Y
      BY <1>8, <1>9, <2>1
    <2>2. CASE X \in Lists /\ m = n
      BY <1>4, <1>12, <2>2
    <2>3. CASE X \in Lists /\ m \in Ids
      BY <2>3 DEF RowsInv, Newer
    <2>q. QED BY <1>9, <1>10, <2>1, <2>2, <2>3
  <1>16. SentShown'
    <2> SUFFICES ASSUME NEW m \in Made' \cap Ids', NEW a \in Shown, a > m PROVE m \in Shown
      BY <1>10 DEF SentShown
    <2>1. a \in Used /\ a \in Nat /\ n \in Nat
      BY <1>6, <1>13, ConversationAssumption
    <2>2. m # n
      BY <1>12, <2>1
    <2>3. m \in Made \cap Ids
      BY <1>9, <1>11, <2>2
    <2>q. QED BY <2>3 DEF RowsInv, SentShown
  <1>17. ListsAgree'
    <2> SUFFICES ASSUME ~moved, NEW X \in Lists', NEW Z \in Lists' PROVE Agree(X, Z)
      BY <1>3 DEF ListsAgree
    <2>1. \A W \in Lists : Agree(W, list) /\ Agree(list, W) /\ ToSet(W) \cap ToSet(Y) \subseteq Ids
      BY <1>1, <1>4, <1>5, <1>8 DEF RowsInv, ListsAgree
    <2>2. \A W \in Lists : Agree(W, Y) /\ Agree(Y, W)
      BY <1>4, <1>8, <2>1 DEF Agree
    <2>3. Agree(Y, Y)
      BY DEF Agree
    <2>q. QED BY <1>10, <2>2, <2>3 DEF RowsInv, ListsAgree
  <1>18. SentLast'
    <2> SUFFICES ASSUME ~moved, NEW m \in Made' \cap Ids', NEW X \in Lists', m \in ToSet(X),
                        NEW a \in ToSet(X), a < m
                 PROVE  Before(X, a, m)
      BY <1>3 DEF SentLast
    <2>1. CASE m = n
      <3>1. at = Len(list) + 1
        BY <1>1, <1>11, <1>13, <2>1
      <3>2. X = Y /\ a \in Ids
        BY <1>1, <1>4, <1>8, <1>10, <2>1, <1>6, ConversationAssumption
      <3>q. QED BY <1>8, <2>1, <3>1, <3>2
    <2>2. CASE m # n
      <3>1. m \in Made \cap Ids
        BY <1>9, <1>11, <2>2
      <3>2. CASE X \in Lists
        BY <3>1, <3>2 DEF RowsInv, SentLast
      <3>3. CASE X = Y
        <4>1. a # n
          BY <1>6, <1>12, <3>1
        <4>2. a \in ToSet(list) /\ m \in ToSet(list)
          BY <1>4, <1>8, <3>1, <3>3, <4>1
        <4>3. Before(list, a, m)
          BY <1>5, <3>1, <4>2 DEF RowsInv, SentLast
        <4>q. QED BY <1>4, <1>8, <3>3, <4>2, <4>3
      <3>q. QED BY <1>10, <3>2, <3>3
    <2>q. QED BY <2>1, <2>2
  <1>19. SentThere'
    BY <1>3, <1>9, <1>11 DEF RowsInv, SentThere
  <1>20. Shown \cap Ids' = Shown \cap Ids
    BY <1>1, <1>9, <1>13
  <1>21. RowsAgree'
    <2>1. list' = Y /\ ToSet(R) \cap ToSet(Y) = ToSet(R) \cap ToSet(list)
      BY <1>2, <1>4, <1>8, <1>9, <1>10, <1>20
    <2>2. Agree(R, list) => Agree(R, Y)
      BY <1>4, <1>8, <2>1 DEF Agree
    <2>q. QED BY <1>2, <1>3, <1>10, <2>1, <2>2 DEF RowsInv, RowsAgree
  <1>22. LackedBefore'
    <2> SUFFICES ASSUME ~moved, NEW a \in Ids' \ Shown, NEW b \in Ids' \cap Shown, a < b
                 PROVE  Before(Y, a, b)
      BY <1>2, <1>3, <1>10 DEF LackedBefore
    <2>1. b \in Ids \cap Shown
      BY <1>20
    <2>2. a # n
      BY <1>6, <1>12, <2>1
    <2>3. a \in Ids \ Shown
      BY <1>9, <2>2
    <2>4. Before(list, a, b)
      BY <2>1, <2>3 DEF RowsInv, LackedBefore
    <2>q. QED BY <1>8, <2>1, <2>3, <2>4
  <1>23. LateAgree'
    BY <1>2, <1>3, <1>10, <1>11 DEF RowsInv, LateAgree
  <1>24. LateOnesLast'
    <2> SUFFICES ASSUME ~moved, NEW L \in LateLists',
                        NEW b \in Ids' \cap Shown, NEW a \in (Ids' \cap ToSet(L)) \ Shown,
                        NewerThan(b, L), NEW c \in Shown \cap ToSet(L)
                 PROVE  Before(R, c, b)
      BY <1>3, <1>10 DEF LateOnesLast
    <2>1. L \in LateLists /\ L \in Lists
      BY <1>11 DEF LateLists, Lists
    <2>2. a \in (Ids \cap ToSet(L)) \ Shown /\ b \in Ids \cap Shown
      BY <1>1, <1>4, <1>9, <1>20, <2>1
    <2>q. QED BY <1>2, <2>1, <2>2 DEF RowsInv, LateOnesLast
  <1>q. QED BY <1>14, <1>15, <1>16, <1>17, <1>18, <1>19, <1>21, <1>22, <1>23, <1>24 DEF RowsInv

LEMMA RowsThinned == ASSUME RowsInv, NowTyped, ThinnedStep PROVE RowsInv'
  <1>1. PICK S \in SUBSET Msgs :
          /\ list' = Only(list, Ids \ S) /\ moved' = (moved \/ JustSent(S))
          /\ \A u \in tasks' : \/ u \in tasks
                               \/ /\ u.kind = "remove" /\ u.ids = S /\ S \subseteq Removed
                                  /\ u.list \in Lists
    BY DEF ThinnedStep
  <1>2. PICK Y, R : Y = list' /\ R = RowIds(page.rows)
    OBVIOUS
  <1>3. UNCHANGED <<page, cache>> /\ Used' = Used
    BY DEF ThinnedStep
  <1>4. Ordered(R) /\ Ordered(list) /\ ToSet(list) = Ids /\ \A X \in Lists : Ordered(X) /\ ToSet(X) \subseteq Used
    BY <1>2, RowsOrdered, ListsOrdered DEF RowsInv, Ids
  <1>5. list \in Lists /\ \A t \in tasks : t.list \in Lists
    BY TaskLists DEF Lists
  <1>6. /\ Ordered(Y) /\ ToSet(Y) = Ids \ S
        /\ \A a, b \in Ids \ S : Before(Y, a, b) <=> Before(list, a, b)
    <2>1. PICK K : K = Ids \ S
      OBVIOUS
    <2>2. Y = Only(list, K) /\ list \in Seq(Msgs) /\ IsInjective(list)
      BY <1>1, <1>2, <1>4, <2>1 DEF Ordered
    <2>3. Y \in Seq(Msgs) /\ IsInjective(Y)
      BY <2>2, OnlyOrder
    <2>4. ToSet(Y) = ToSet(list) \cap K
      BY <2>2, OnlyOrder
    <2>5. \A a, b \in K : Before(Y, a, b) <=> Before(list, a, b)
      BY <2>2, OnlyOrder
    <2>6. ToSet(Y) = Ids \ S
      BY <1>4, <2>1, <2>4
    <2>q. QED BY <2>1, <2>3, <2>5, <2>6, OrderedIs
  <1>7. Ids' = Ids \ S
    BY <1>2, <1>6 DEF Ids
  <1>8. /\ Shown' = Shown /\ Shown = ToSet(R) /\ RowIds(page.rows)' = R
        /\ Lists' \subseteq Lists \cup {Y}
    <2>1. \A u \in tasks' : u.list \in Lists
      BY <1>1, <1>5
    <2>q. QED BY <1>2, <1>3, <2>1, SamePage DEF Shown
  <1>9. /\ Made' \subseteq Made /\ Sent' \subseteq Sent /\ Removed' \subseteq Removed
        /\ Gone' \subseteq Gone \cup S /\ LateLists' \subseteq LateLists
    <2>1. Made' \subseteq Made
      BY <1>1 DEF Made, IsMade
    <2>2. Sent' \subseteq Sent
      BY <1>1 DEF Sent, IsSent
    <2>3. Removed' \subseteq Removed
      BY <1>1 DEF Removed
    <2>4. Gone' \subseteq Gone \cup S
      BY <1>1 DEF Gone, IsGone
    <2>5. LateLists' \subseteq LateLists
      BY <1>1 DEF LateLists, IsLate
    <2>q. QED BY <2>1, <2>2, <2>3, <2>4, <2>5
  <1>10. ~moved' => ~moved
    BY <1>1
  <1>11. Numbered'
    <2>1. \A X \in Lists' : X \in Seq(Msgs) /\ IsInjective(X) /\ ToSet(X) \subseteq Used
      BY <1>4, <1>5, <1>6, <1>8 DEF Ordered
    <2>2. Gone' \cap Ids' = {}
      BY <1>7, <1>9 DEF RowsInv, Numbered
    <2>3. Shown' \subseteq Used /\ Made' \subseteq Used /\ Removed' \subseteq Used
      BY <1>8, <1>9 DEF RowsInv, Numbered
    <2>4. \A m \in Used, k \in Msgs \ Used : m < k
      BY DEF RowsInv, Numbered
    <2>q. QED BY <1>3, <2>1, <2>2, <2>3, <2>4 DEF Numbered
  <1>12. Newer'
    <2> SUFFICES ASSUME NEW X \in Lists', NEW c \in ToSet(X), NEW m \in Ids', m < c PROVE m \in ToSet(X)
      BY DEF Newer
    <2>1. CASE X = Y
      BY <1>6, <1>7, <2>1
    <2>2. CASE X \in Lists
      BY <1>7, <2>2 DEF RowsInv, Newer
    <2>q. QED BY <1>8, <2>1, <2>2
  <1>13. SentShown'
    BY <1>7, <1>8, <1>9 DEF RowsInv, SentShown
  <1>14. ListsAgree'
    <2> SUFFICES ASSUME ~moved, NEW X \in Lists', NEW Z \in Lists' PROVE Agree(X, Z)
      BY <1>10 DEF ListsAgree
    <2>1. \A W \in Lists : Agree(W, list) /\ Agree(list, W)
      BY <1>5 DEF RowsInv, ListsAgree
    <2>2. \A W \in Lists : Agree(W, Y) /\ Agree(Y, W)
      BY <1>4, <1>6, <2>1 DEF Agree
    <2>3. Agree(Y, Y)
      BY DEF Agree
    <2>q. QED BY <1>8, <2>2, <2>3 DEF RowsInv, ListsAgree
  <1>15. SentLast'
    <2> SUFFICES ASSUME ~moved, NEW m \in Made \cap Ids', NEW X \in Lists', m \in ToSet(X),
                        NEW a \in ToSet(X), a < m
                 PROVE  Before(X, a, m)
      BY <1>9, <1>10 DEF SentLast
    <2>1. CASE X \in Lists
      BY <1>7, <2>1 DEF RowsInv, SentLast
    <2>2. CASE X = Y
      <3>1. a \in ToSet(list) /\ m \in ToSet(list) /\ a \in Ids \ S /\ m \in Ids \ S
        BY <1>4, <1>6, <2>2
      <3>2. Before(list, a, m)
        BY <1>5, <3>1 DEF RowsInv, SentLast
      <3>q. QED BY <1>6, <2>2, <3>1, <3>2
    <2>q. QED BY <1>8, <2>1, <2>2
  <1>16. SentThere'
    <2> SUFFICES ASSUME ~moved', NEW m \in Sent' PROVE m \in Ids'
      BY DEF SentThere
    <2>1. m \in Sent /\ m \in Ids
      BY <1>9, <1>10 DEF RowsInv, SentThere
    <2>2. ~JustSent(S)
      BY <1>1
    <2>3. m \notin S
      BY <2>1, <2>2 DEF JustSent, Sent, IsSent
    <2>q. QED BY <1>7, <2>1, <2>3
  <1>17. RowsAgree'
    BY <1>2, <1>4, <1>6, <1>8, <1>10 DEF RowsInv, RowsAgree, Agree
  <1>18. LackedBefore'
    BY <1>2, <1>6, <1>7, <1>8, <1>10 DEF RowsInv, LackedBefore
  <1>19. LateAgree'
    BY <1>2, <1>8, <1>9, <1>10 DEF RowsInv, LateAgree
  <1>20. LateOnesLast'
    BY <1>2, <1>7, <1>8, <1>9, <1>10 DEF RowsInv, LateOnesLast
  <1>q. QED BY <1>11, <1>12, <1>13, <1>14, <1>15, <1>16, <1>17, <1>18, <1>19, <1>20 DEF RowsInv

LEMMA RowsMoved == ASSUME RowsInv, NowTyped, MovedStep PROVE RowsInv'
  <1>1. /\ UNCHANGED <<page, tasks, cache>> /\ Used' = Used /\ moved' = TRUE
        /\ list' \in Seq(Msgs) /\ IsInjective(list') /\ ToSet(list') = Ids
    BY DEF MovedStep
  <1>2. Ids' = Ids
    BY <1>1 DEF Ids
  <1>3. list \in Lists /\ \A t \in tasks' : t.list \in Lists
    BY <1>1, TaskLists DEF Lists
  <1>4. Shown' = Shown /\ Lists' \subseteq Lists \cup {list'}
    BY <1>1, <1>3, SamePage
  <1>5. Made' = Made /\ Removed' = Removed /\ Gone' = Gone
    BY <1>1 DEF Made, Removed, Gone, IsMade, IsGone
  <1>6. Ids \subseteq Used
    BY <1>3 DEF RowsInv, Numbered, Ids
  <1>7. Numbered'
    BY <1>1, <1>2, <1>4, <1>5, <1>6 DEF RowsInv, Numbered
  <1>8. Newer'
    BY <1>1, <1>2, <1>4 DEF RowsInv, Newer
  <1>9. SentShown'
    BY <1>2, <1>4, <1>5 DEF RowsInv, SentShown
  <1>q. QED BY <1>1, <1>7, <1>8, <1>9
          DEF RowsInv, ListsAgree, SentLast, SentThere, RowsAgree, LackedBefore, LateAgree, LateOnesLast

LEMMA RowsOnStay == ASSUME RowsInv, NowTyped, RowsOn PROVE RowsInv'
  BY RowsCalm, RowsGrown, RowsThinned, RowsMoved DEF RowsOn

-----------------------------------------------------------------------------
(* The invariant *)

ConvInv == MarksInv /\ NowTyped /\ RestTyped /\ RowsInv

LEMMA PageOn == ASSUME NowTyped, PageStep PROVE NowTyped' /\ RowsOn
  <1>1. UNCHANGED <<list, ver>> /\ Typed(Now)'
    BY DEF PageStep
  <1>2. Ids' = Ids
    BY <1>1 DEF Ids
  <1>q. QED BY <1>1, <1>2, PageCalm DEF NowTyped, RowsOn

LEMMA CoreOn ==
    ASSUME NowTyped,
           \/ \E at \in 1..(Len(list) + 1) : CoreArrives(at)
           \/ \E m \in Msgs, kind_ \in {"changed", "state"} : CoreChanges(m, kind_)
           \/ \E m \in Msgs : CoreDeletes(m)
           \/ CoreMoves
           \/ \E restart \in BOOLEAN : CoreLosesEvents(restart)
    PROVE  NowTyped' /\ RowsOn
  BY ArrivesOn, ChangesOn, DeletesOn, MovesOn, LosesOn DEF RowsOn

LEMMA AnswersOn ==
    ASSUME NowTyped, NEW t \in tasks,
           \/ CoreLists(t) \/ CoreReads(t) \/ CoreRemoves(t) \/ CoreActs(t) \/ CoreFails(t)
           \/ \E phase \in {"made", "answered"} : CoreSends(t, phase)
    PROVE  NowTyped' /\ RowsOn
  BY ListsOn, ReadsOn, RemovesOn, ActsOn, FailsOn, SendsOn DEF RowsOn

LEMMA PagesOn ==
    ASSUME NowTyped, MarksInv, EventsTyped,
           \/ HandleEvent \/ Hydrate \/ Send
           \/ \E i \in DOMAIN page.rows : Scroll(i)
           \/ \E m \in Msgs : RemoveMessage(m) \/ Act(m)
           \/ \E t \in tasks : Lands(t)
    PROVE  PageStep
  <1>1. Hydrate => \E i : Ask(i)
    BY DEF Hydrate
  <1>2. \A i : Scroll(i) => Ask(i)
    BY DEF Scroll
  <1>q. QED BY <1>1, <1>2, EventStep, AskStep, SendStep, ReaderStep, LandStep

\* One step, as what it makes of the rows and as what it makes of the rest.
LEMMA StepOn == ASSUME ConvInv, Next PROVE NowTyped' /\ RowsOn /\ RestOn
  <1>1. NowTyped /\ MarksInv /\ RestTyped /\ EventsTyped
    BY DEF ConvInv, RestTyped
  <1>2. ASSUME NEW t \in tasks,
               \/ CoreLists(t) \/ CoreReads(t) \/ CoreRemoves(t) \/ CoreActs(t) \/ CoreFails(t)
               \/ \E phase \in {"made", "answered"} : CoreSends(t, phase)
        PROVE  NowTyped' /\ RowsOn /\ RestOn
    BY <1>1, <1>2, AnswersOn, RestAnswers
  <1>3. ASSUME Tap \/ OpenPage \/ \E t \in tasks, listActive \in BOOLEAN : PrefetchLands(t, listActive)
        PROVE  NowTyped' /\ RowsOn /\ RestOn
    <2>1. PageStep
      BY <1>1, <1>3, OpensStep
    <2>2. RestOn
      BY <1>1, <1>3, RestOpens
    <2>q. QED BY <1>1, <2>1, <2>2, PageOn
  <1>4. ASSUME \/ HandleEvent \/ Hydrate \/ Send
               \/ \E i \in DOMAIN page.rows : Scroll(i)
               \/ \E m \in Msgs : RemoveMessage(m) \/ Act(m)
               \/ \E t \in tasks : Lands(t)
        PROVE  NowTyped' /\ RowsOn /\ RestOn
    <2>1. PageStep
      BY <1>1, <1>4, PagesOn
    <2>2. RestOn
      BY <1>1, <1>4, RestPage
    <2>q. QED BY <1>1, <2>1, <2>2, PageOn
  <1>5. ASSUME \/ \E at \in 1..(Len(list) + 1) : CoreArrives(at)
               \/ \E m \in Msgs, kind_ \in {"changed", "state"} : CoreChanges(m, kind_)
               \/ \E m \in Msgs : CoreDeletes(m)
               \/ CoreMoves
               \/ \E restart \in BOOLEAN : CoreLosesEvents(restart)
        PROVE  NowTyped' /\ RowsOn /\ RestOn
    <2>1. RestOn
      BY <1>1, <1>5, RestCore
    <2>q. QED BY <1>1, <1>5, <2>1, CoreOn
  <1>6. CASE System
    BY <1>2, <1>3, <1>4, <1>6 DEF System
  <1>7. CASE Others
    BY <1>3, <1>4, <1>5, <1>7 DEF Others
  <1>q. QED BY <1>6, <1>7 DEF Next

LEMMA ConvStep == ConvInv /\ [Next]_vars => ConvInv'
  <1> SUFFICES ASSUME ConvInv, [Next]_vars PROVE ConvInv'
    OBVIOUS
  <1>1. MarksInv'
    BY MarksStep DEF ConvInv
  <1>2. CASE Next
    <2>1. NowTyped' /\ RowsOn /\ RestOn
      BY <1>2, StepOn
    <2>2. RowsInv'
      BY <2>1, RowsOnStay DEF ConvInv
    <2>3. RestTyped'
      BY <2>1, RestStays DEF ConvInv, NowTyped
    <2>q. QED BY <1>1, <2>1, <2>2, <2>3 DEF ConvInv
  <1>3. CASE UNCHANGED vars
    <2>1. UNCHANGED <<list, ver, events, open, page, tasks, cache, budget, behind, crossed, moved>>
      BY <1>3 DEF vars, coreVars, pageVars, ghostVars
    <2>2. Typed(Now)' /\ Ids' = Ids
      BY <2>1, SameTyped DEF ConvInv, Ids
    <2>3. NowTyped'
      BY <2>1, <2>2 DEF ConvInv, NowTyped
    <2>4. RestTyped'
      BY <2>1 DEF ConvInv, RestTyped, EventsTyped
    <2>5. \A u \in tasks' : Calm(u)
      BY <2>1, OfTasks, NowFields DEF ConvInv, NowTyped, Typed
    <2>6. Used' = Used
      BY <2>1 DEF Used
    <2>7. RowsOn
      BY <2>1, <2>5, <2>6, KeptCalm DEF RowsOn
    <2>8. RowsInv'
      BY <2>7, RowsOnStay DEF ConvInv
    <2>q. QED BY <1>1, <2>3, <2>4, <2>8 DEF ConvInv
  <1>q. QED BY <1>2, <1>3

LEMMA NoRows == /\ NewPage.rows = <<>> /\ NewPage \in PageFields
                /\ RowIds(<<>>) = <<>> /\ TypedPage(NewPage)
  <1>1. RowIds(<<>>) = <<>>
    <2>1. RowIds(<<>>) \in Seq(Msgs) /\ DOMAIN RowIds(<<>>) = {}
      BY RowIdsAre DEF RowIds
    <2>q. QED BY <2>1
  <1>2. NewPage.rows = <<>> /\ NewPage \in PageFields
    BY DEF NewPage, PageFields
  <1>3. IsInjective(<<>>)
    BY DEF IsInjective
  <1>q. QED BY <1>1, <1>2, <1>3 DEF TypedPage

LEMMA RowsStart ==
    ASSUME list \in Seq(Msgs), IsInjective(list), tasks = {}, cache = {}, page.rows = <<>>,
           Used = Ids, \A m \in Ids, k \in Msgs \ Ids : m < k
    PROVE  RowsInv
  <1>1. Lists = {list} /\ Made = {} /\ Sent = {} /\ Removed = {} /\ Gone = {} /\ LateLists = {}
    BY DEF Lists, Made, Sent, Removed, Gone, LateLists
  <1>2. RowIds(page.rows) = <<>> /\ Shown = {}
    <2>1. RowIds(page.rows) = <<>>
      BY NoRows
    <2>q. QED BY <2>1 DEF Shown, ToSet
  <1>3. Numbered /\ Newer
    BY <1>1, <1>2 DEF Numbered, Newer, Ids
  <1>4. SentShown /\ ListsAgree /\ SentLast /\ SentThere
    BY <1>1, <1>2 DEF SentShown, ListsAgree, SentLast, SentThere, Agree
  <1>5. RowsAgree
    BY <1>2 DEF RowsAgree, Agree, Shown
  <1>6. LackedBefore /\ LateOnesLast /\ LateAgree
    BY <1>1, <1>2 DEF LackedBefore, LateOnesLast, LateAgree
  <1>q. QED BY <1>3, <1>4, <1>5, <1>6 DEF RowsInv

LEMMA ConvInit == Init => ConvInv
  <1> SUFFICES ASSUME Init PROVE ConvInv
    OBVIOUS
  <1>1. PICK start \in Starts : list = start.list /\ budget = start.budget
    BY DEF Init
  <1>2. /\ list \in Seq(Msgs) /\ IsInjective(list) /\ budget \in [BudgetKinds -> Nat]
        /\ \A m \in Ids, k \in Msgs \ Ids : m < k
    BY <1>1, ConversationAssumption DEF Ids
  <1>3. /\ ver = [m \in Msgs |-> IF m \in Ids THEN 1 ELSE 0] /\ events = <<>>
        /\ open = FALSE /\ page = NewPage /\ tasks = {} /\ cache = {}
        /\ behind = FALSE /\ crossed = {} /\ moved = FALSE
    BY DEF Init
  <1>4. Ids \subseteq Msgs
    BY <1>2 DEF Ids, ToSet
  <1>5. ver \in [Msgs -> Nat] /\ (\A m \in Ids : ver[m] # 0) /\ Used = Ids
    BY <1>3, <1>4 DEF Used
  <1>6. Typed(Now)
    <2>1. TypedCache(cache)
      BY <1>3 DEF TypedCache
    <2>q. QED BY <1>3, <2>1, NoRows, NowFields DEF Typed
  <1>7. NowTyped
    BY <1>2, <1>5, <1>6 DEF NowTyped
  <1>8. RestTyped
    <2>1. PICK E : E = [kind : {"list", "changed", "state", "lost"}, msg : Msgs]
      OBVIOUS
    <2>2. events \in Seq(E)
      BY <1>3
    <2>3. crossed \subseteq Msgs /\ open \in BOOLEAN /\ behind \in BOOLEAN /\ moved \in BOOLEAN
      BY <1>3
    <2>q. QED BY <1>2, <2>1, <2>2, <2>3 DEF RestTyped, EventsTyped
  <1>9. RowsInv
    BY <1>2, <1>3, <1>5, NoRows, RowsStart
  <1>q. QED BY <1>7, <1>8, <1>9, MarksInit DEF ConvInv

LEMMA ConvAlways == Spec => []ConvInv
  BY ConvInit, ConvStep, PTL DEF Spec

\* Whatever events, answers and reloads cross: the page holds rows, marks, reads and a
\* cache of the right kind, its fills counted right and at most one chat prefetched.
THEOREM ConversationTyped == Spec => []TypeOK
  <1>1. ConvInv => TypeOK
    <2> SUFFICES ASSUME ConvInv PROVE TypeOK
      OBVIOUS
    <2>1. /\ Typed(Now) /\ list \in Seq(Msgs) /\ ver \in [Msgs -> Nat] /\ RestTyped
          /\ TypedPage(page) /\ (\A t \in tasks : TypedTask(t)) /\ TypedCache(cache)
      BY NowFields DEF ConvInv, NowTyped, Typed
    <2>2. page.fetches \in Nat
      <3>1. FillTrue(page, Fresh(tasks, "fill"))
        BY NowFields DEF ConvInv, MarksInv, Settled, Good, Marks
      <3>q. QED BY <3>1, FS_CardinalityType DEF FillTrue
    <2>3. page \in Page
      <3>1. page \in PageFields
        BY <2>1 DEF TypedPage
      <3>q. QED BY <2>2, <3>1 DEF PageFields, Page
    <2>4. tasks \subseteq Task
      BY <2>1 DEF TypedTask
    <2>5. \A c \in cache : c \in [list : Seq(Msgs), items : [Msgs -> Nat]]
      BY <2>1 DEF TypedCache, Cached
    <2>6. Cardinality(cache) <= 1
      <3>1. cache = {} \/ \E c : cache = {c}
        <4>1. \A x, y \in cache : x = y
          BY <2>1 DEF TypedCache
        <4>q. QED BY <4>1
      <3>2. CASE cache = {}
        <4>1. Cardinality({}) = 0
          BY FS_EmptySet
        <4>q. QED BY <3>2, <4>1
      <3>3. ASSUME NEW c, cache = {c} PROVE Cardinality(cache) <= 1
        <4>1. Cardinality({c}) = 1
          BY FS_Singleton
        <4>q. QED BY <3>3, <4>1
      <3>q. QED BY <3>1, <3>2, <3>3
    <2>q. QED BY <2>1, <2>3, <2>4, <2>5, <2>6 DEF TypeOK, RestTyped, EventsTyped
  <1>q. QED BY <1>1, ConvAlways, PTL

\* A list that lands, however old, finds the rows in its order, and no message has two.
THEOREM PlaceKept == Spec => []KeepsPlace
  <1>1. ConvInv => KeepsPlace
    <2> SUFFICES ASSUME ConvInv PROVE KeepsPlace
      OBVIOUS
    <2>1. Ordered(RowIds(page.rows)) /\ RowsInv
      BY RowsOrdered DEF ConvInv
    <2>2. ASSUME ~moved, NEW t \in FreshOf("sync"), t.phase = "answered" PROVE InOrder(page.rows, t.list)
      <3>1. PICK R, L : R = RowIds(page.rows) /\ L = t.list
        OBVIOUS
      <3>2. t \in tasks /\ IsLate(t)
        BY <2>2 DEF FreshOf, IsLate
      <3>3. L \in LateLists
        BY <3>1, <3>2 DEF LateLists
      <3>4. Agree(R, L)
        BY <2>1, <2>2, <3>1, <3>3 DEF RowsInv, LateAgree
      <3>5. \A a, b : Before(R, a, b) => a \in ToSet(R) /\ b \in ToSet(R)
        BY <2>1, <3>1 DEF Ordered
      <3>6. \A a, b \in ToSet(L) : Before(R, a, b) => Before(L, a, b)
        BY <3>4, <3>5 DEF Agree
      <3>q. QED BY <3>1, <3>6 DEF InOrder
    <2>q. QED BY <2>1, <2>2 DEF KeepsPlace, Ordered
  <1>q. QED BY <1>1, ConvAlways, PTL

LEMMA RowShown == ASSUME NEW rows \in Seq(Row), NEW m PROVE HasRow(rows, m) <=> m \in ToSet(RowIds(rows))
  BY RowIdsAre DEF HasRow, ToSet

\* No row goes that the chat has, but by a chat loaded anew.
LEMMA RowsStayOn ==
    ASSUME NowTyped, RowsInv, NowTyped', RowsOn, NEW m \in Ids, HasRow(page.rows, m)
    PROVE  HasRow(page'.rows, m) \/ cache' # cache \/ \E t \in tasks \ tasks' : t.kind = "open"
  <1>1. CASE UNCHANGED page
    BY <1>1
  <1>2. CASE RowsStep
    <2>1. PICK rows, out : rows = page.rows /\ out = page'.rows
      OBVIOUS
    <2>2. rows \in Seq(Row) /\ IsInjective(RowIds(rows)) /\ out \in Seq(Row) /\ HasRow(rows, m)
      <3>1. page'.rows \in Seq(Row)
        BY RowsOrdered, NowFields DEF NowTyped, Typed, TypedPage, PageFields, Now
      <3>q. QED BY <2>1, <3>1, RowsOrdered DEF Ordered
    <2>3. m \in ToSet(RowIds(rows))
      BY <2>2, RowShown
    <2>4. \A t \in tasks : TypedTask(t)
      BY NowFields DEF NowTyped, Typed
    <2>5. CASE Kept
      BY <2>1, <2>2, <2>5 DEF Kept
    <2>6. CASE FilledBy
      <3>1. PICK t \in tasks : out = Filled(rows, t.items)
        BY <2>1, <2>6 DEF FilledBy
      <3>2. t.items \in [Msgs -> Nat]
        BY <2>4, <3>1 DEF TypedTask, Task
      <3>3. RowIds(out) = RowIds(rows)
        BY <2>2, <3>1, <3>2, FilledRows
      <3>q. QED BY <2>1, <2>2, <2>3, <3>3, RowShown
    <2>7. CASE LoadedFrom
      <3>1. rows # <<>>
        BY <2>2 DEF HasRow
      <3>q. QED BY <2>1, <2>7, <3>1 DEF LoadedFrom
    <2>8. CASE SentIn
      <3>1. PICK r : out = Append(rows, r)
        BY <2>1, <2>8 DEF SentIn
      <3>2. PICK i \in DOMAIN rows : rows[i].id = m
        BY <2>2 DEF HasRow
      <3>3. i \in DOMAIN out /\ out[i] = rows[i]
        BY <2>2, <3>1, <3>2
      <3>q. QED BY <2>1, <3>2, <3>3 DEF HasRow
    <2>9. CASE DroppedBy
      <3>1. PICK t \in tasks : IsGone(t) /\ out = Only(rows, {row \in ToSet(rows) : row.id \notin t.ids})
        BY <2>1, <2>9 DEF DroppedBy, IsGone
      <3>2. PICK T : T = {row \in ToSet(rows) : row.id \notin t.ids}
        OBVIOUS
      <3>3. t.ids \subseteq Gone
        BY <2>4, <3>1, OfTasks
      <3>4. m \notin t.ids
        BY <3>3 DEF RowsInv, Numbered
      <3>5. PICK i \in DOMAIN rows : rows[i].id = m
        BY <2>2 DEF HasRow
      <3>6. rows[i] \in T
        BY <3>2, <3>4, <3>5 DEF ToSet
      <3>7. OnlyOf(Row, rows, T, out)
        BY <2>2, <3>1, <3>2, OnlyIs
      <3>8. \E a \in DOMAIN out : out[a] = rows[i]
        BY <3>5, <3>6, <3>7 DEF OnlyOf
      <3>q. QED BY <2>1, <3>5, <3>8 DEF HasRow
    <2>10. CASE SyncedBy
      <3>1. PICK t \in tasks : SyncedTo(rows, t.list, out)
        BY <2>1, <2>10 DEF SyncedBy
      <3>2. PICK L : L = t.list
        OBVIOUS
      <3>3. L \in Lists
        BY <3>1, <3>2 DEF Lists
      <3>4. Ordered(L) /\ Ordered(list)
        BY <3>3, ListsOrdered, RowsOrdered DEF RowsInv
      <3>5. \A c \in ToSet(L) : c \in Nat
        BY <3>4, ConversationAssumption DEF Ordered
      <3>6. m \in Nat
        BY <3>4, ConversationAssumption DEF Ordered, Ids
      <3>7. m \in ToSet(L) \/ NewerThan(m, L)
        <4>1. SUFFICES ASSUME m \notin ToSet(L), NEW c \in ToSet(L) PROVE m > c
          BY DEF NewerThan
        <4>2. ~(m < c)
          BY <3>3, <4>1 DEF RowsInv, Newer
        <4>3. m # c
          BY <4>1
        <4>q. QED BY <3>5, <3>6, <4>1, <4>2, <4>3
      <3>8. ToSet(RowIds(out)) = ToSet(L) \cup {k \in ToSet(RowIds(rows)) : NewerThan(k, L)}
        BY <3>1, <3>2 DEF SyncedTo
      <3>9. m \in ToSet(RowIds(out))
        BY <2>3, <3>7, <3>8
      <3>q. QED BY <2>1, <2>2, <3>9, RowShown
    <2>q. QED BY <1>2, <2>5, <2>6, <2>7, <2>8, <2>9, <2>10 DEF RowsStep
  <1>q. QED BY <1>1, <1>2 DEF RowsOn, CalmStep, GrownStep, ThinnedStep, MovedStep

\* No answer that lands takes out the row of a message the chat has, however old the list
\* it brings: a message sent since it was read is newer than all of that list.
THEOREM NoRowLost == Spec => RowsStay
  <1> DEFINE Stays == \A m \in Ids : (HasRow(page.rows, m) /\ ~HasRow(page'.rows, m)) =>
                         (cache' # cache \/ \E t \in tasks \ tasks' : t.kind = "open")
  <1>1. ConvInv /\ [Next]_vars => [Stays]_vars
    <2> SUFFICES ASSUME ConvInv, Next PROVE Stays
      OBVIOUS
    <2>1. NowTyped /\ RowsInv /\ NowTyped' /\ RowsOn
      BY StepOn DEF ConvInv
    <2>q. QED BY <2>1, RowsStayOn
  <1>2. [][Stays]_vars => RowsStay
    BY DEF RowsStay
  <1>q. QED BY <1>1, <1>2, ConvAlways, PTL DEF Spec

-----------------------------------------------------------------------------
(* What is owed to the rows *)

OpensIn(ts) == \E t \in ts : t.kind = "open"

\* Rows that are the chat's messages in its order, but for newer ones.
Settles(rows) ==
    /\ Ids \subseteq ToSet(RowIds(rows)) /\ InOrder(rows, list)
    /\ \A m \in ToSet(RowIds(rows)) \ Ids : NewerThan(m, list)

\* A row of m says what m says, if it is filled.
Says(rows, m) == \A row \in ToSet(rows) : row.id = m => row.ver \in {0, ver[m]}

\* The chat's list is in the rows or read; one that lands is the chat's, or another follows.
ListDue(s) ==
    /\ s.page.syncing \/ OpensIn(s.tasks) \/ Settles(s.page.rows)
    /\ \A t \in s.tasks : IsLate(t) => (t.list = list \/ s.page.syncAgain)

\* What m says is in its row or read; a read that is older has another follow.
TextDue(s, m) ==
    /\ m \in s.page.refreshing \/ OpensIn(s.tasks) \/ Says(s.page.rows, m)
    /\ \A t \in Fresh(s.tasks, "one") : Old(t.items, m) => m \in s.page.refreshAgain

\* A read of one message brings that one, if the chat has it.
OneRead(t) ==
    /\ t.ids \subseteq Used
    /\ \A m \in Msgs : t.items[m] # 0 => m \in t.ids
    /\ t.phase = "answered" => \A m \in t.ids \cap Ids : t.items[m] # 0

\* The list is due if B, and what messages M say.
Settling(s, B, M) ==
    /\ B => ListDue(s)
    /\ \A m \in M : TextDue(s, m)
    /\ \A t \in Fresh(s.tasks, "one") : OneRead(t)

\* From s to r, no task comes but one just asked for, and the chat is still to be loaded.
OnlyAsks(s, r) ==
    /\ OpensIn(s.tasks) => OpensIn(r.tasks)
    /\ \A u \in r.tasks : \/ u \in s.tasks
                          \/ Asked(u) /\ (u.kind = "one" => u.ids \subseteq Used)

KeepsLists(s, r) ==
    /\ s.page.syncing => r.page.syncing
    /\ s.page.syncAgain => r.page.syncAgain
    /\ Settles(s.page.rows) => Settles(r.page.rows)

KeepsText(s, r, m) ==
    /\ m \in s.page.refreshing => m \in r.page.refreshing
    /\ m \in s.page.refreshAgain => m \in r.page.refreshAgain
    /\ Says(s.page.rows, m) => Says(r.page.rows, m)

LEMMA AskedNotOld ==
    ASSUME NEW u, Asked(u), NEW m \in Msgs
    PROVE  ~Old(u.items, m) /\ ~IsLate(u) /\ u.items[m] = 0
  BY DEF Asked, Old, IsLate

LEMMA StillDue ==
    ASSUME NEW s, NEW r, NEW B \in BOOLEAN, NEW M \in SUBSET Msgs, Settling(s, B, M),
           OnlyAsks(s, r), B => KeepsLists(s, r), \A m \in M : KeepsText(s, r, m)
    PROVE  Settling(r, B, M)
  <1>1. ASSUME B PROVE ListDue(r)
    <2>1. ListDue(s) /\ KeepsLists(s, r)
      BY <1>1 DEF Settling
    <2>2. r.page.syncing \/ OpensIn(r.tasks) \/ Settles(r.page.rows)
      BY <2>1 DEF ListDue, KeepsLists, OnlyAsks
    <2>3. ASSUME NEW t \in r.tasks, IsLate(t) PROVE t.list = list \/ r.page.syncAgain
      <3>1. t \in s.tasks
        BY <2>3 DEF OnlyAsks, Asked, IsLate
      <3>q. QED BY <2>1, <2>3, <3>1 DEF ListDue, KeepsLists
    <2>q. QED BY <2>2, <2>3 DEF ListDue
  <1>2. ASSUME NEW m \in M PROVE TextDue(r, m)
    <2>1. TextDue(s, m) /\ KeepsText(s, r, m)
      BY DEF Settling
    <2>2. m \in r.page.refreshing \/ OpensIn(r.tasks) \/ Says(r.page.rows, m)
      BY <2>1 DEF TextDue, KeepsText, OnlyAsks
    <2>3. ASSUME NEW t \in Fresh(r.tasks, "one"), Old(t.items, m) PROVE m \in r.page.refreshAgain
      <3>1. t \in Fresh(s.tasks, "one")
        BY <2>3, AskedNotOld DEF OnlyAsks, Fresh
      <3>q. QED BY <2>1, <2>3, <3>1 DEF TextDue, KeepsText
    <2>q. QED BY <2>2, <2>3 DEF TextDue
  <1>3. ASSUME NEW t \in Fresh(r.tasks, "one") PROVE OneRead(t)
    <2>1. CASE t \in s.tasks
      BY <2>1 DEF Settling, Fresh
    <2>2. CASE Asked(t) /\ t.ids \subseteq Used
      <3>1. \A m \in Msgs : t.items[m] = 0
        BY <2>2, AskedNotOld
      <3>2. t.phase = "asked"
        BY <2>2 DEF Asked
      <3>q. QED BY <2>2, <3>1, <3>2 DEF OneRead
    <2>q. QED BY <2>1, <2>2 DEF OnlyAsks, Fresh
  <1>q. QED BY <1>1, <1>2, <1>3 DEF Settling

\* What a state is, of which one field of the page is set.
LEMMA TypedIs ==
    ASSUME NEW s, Typed(s)
    PROVE  IsState(s) /\ IsPage(s.page) /\ s.page.rows \in Seq(Row) /\ IsInjective(RowIds(s.page.rows))
  BY DEF Typed, TypedPage, PageFields, IsPage

LEMMA FewerTasks ==
    ASSUME NEW s, NEW r, NEW t, r.tasks = s.tasks \ {t}, t.kind # "open"
    PROVE  OnlyAsks(s, r)
  BY DEF OnlyAsks, OpensIn

LEMMA SameTasks == ASSUME NEW s, NEW r, r.tasks = s.tasks PROVE OnlyAsks(s, r)
  BY DEF OnlyAsks

LEMMA OneMore ==
    ASSUME NEW s, NEW r, NEW u, r.tasks = s.tasks \cup {u}, Asked(u), u.kind = "one" => u.ids \subseteq Used
    PROVE  OnlyAsks(s, r)
  BY DEF OnlyAsks, OpensIn

\* A task is off.
LEMMA OffDue ==
    ASSUME NEW s, NEW r, NEW t, r.tasks = s.tasks \ {t}, t.kind # "open", r.page = s.page,
           NEW B \in BOOLEAN, NEW M \in SUBSET Msgs, Settling(s, B, M)
    PROVE  Settling(r, B, M)
  <1>1. OnlyAsks(s, r)
    BY FewerTasks
  <1>2. KeepsLists(s, r) /\ \A m \in M : KeepsText(s, r, m)
    BY DEF KeepsLists, KeepsText
  <1>q. QED BY <1>1, <1>2, StillDue

\* sync_rows: the list is read, from now on.
LEMMA SyncRowsDue ==
    ASSUME NEW s, Typed(s), s.page.syncing \/ NoneLate(s.tasks),
           NEW M \in SUBSET Msgs, Settling(s, FALSE, M)
    PROVE  Settling(SyncRows(s), TRUE, M)
  <1> IsState(s) /\ IsPage(s.page)
    BY TypedIs
  <1>1. CASE s.page.syncing
    <2>1. PICK r : r = [s EXCEPT !.page.syncAgain = TRUE]
      OBVIOUS
    <2>2. r.page = [s.page EXCEPT !.syncAgain = TRUE] /\ r.tasks = s.tasks
      BY <2>1 DEF IsState
    <2>3. /\ r.page.rows = s.page.rows /\ r.page.refreshing = s.page.refreshing
          /\ r.page.refreshAgain = s.page.refreshAgain /\ r.page.syncAgain /\ r.page.syncing = s.page.syncing
      BY <2>2 DEF IsPage
    <2>4. \A m \in M : KeepsText(s, r, m)
      BY <2>3 DEF KeepsText
    <2>5. Settling(r, FALSE, M)
      BY <2>2, <2>4, SameTasks, StillDue
    <2>6. ListDue(r)
      BY <1>1, <2>3 DEF ListDue
    <2>7. SyncRows(s) = r
      BY <1>1, <2>1 DEF SyncRows
    <2>q. QED BY <2>5, <2>6, <2>7 DEF Settling
  <1>2. CASE ~s.page.syncing
    <2>1. PICK q, u : q = [s EXCEPT !.page.syncing = TRUE] /\ u = NewTask("sync", {})
      OBVIOUS
    <2>2. PICK r : r = Started(q, u)
      OBVIOUS
    <2>3. IsState(q) /\ q.page = [s.page EXCEPT !.syncing = TRUE] /\ q.tasks = s.tasks
      BY <2>1 DEF IsState
    <2>4. r.page = q.page /\ r.tasks = s.tasks \cup {u}
      BY <2>2, <2>3, StartedIs
    <2>5. /\ r.page.rows = s.page.rows /\ r.page.refreshing = s.page.refreshing
          /\ r.page.refreshAgain = s.page.refreshAgain /\ r.page.syncing
      BY <2>3, <2>4 DEF IsPage
    <2>6. Asked(u) /\ u.kind = "sync"
      <3>1. Asked(u)
        BY <2>1, NewAsked DEF TaskKinds
      <3>q. QED BY <2>1, <3>1, New DEF TaskKinds
    <2>7. \A m \in M : KeepsText(s, r, m)
      BY <2>5 DEF KeepsText
    <2>8. Settling(r, FALSE, M)
      BY <2>4, <2>6, <2>7, OneMore, StillDue
    <2>9. \A t \in r.tasks : ~IsLate(t)
      BY <1>2, <2>4, <2>6 DEF NoneLate, IsLate, Asked
    <2>10. ListDue(r)
      BY <2>5, <2>9 DEF ListDue
    <2>11. SyncRows(s) = r
      BY <1>2, <2>1, <2>2 DEF SyncRows
    <2>q. QED BY <2>8, <2>10, <2>11 DEF Settling
  <1>q. QED BY <1>1, <1>2

\* refresh_one keeps what is due.
LEMMA RefreshOneKeeps ==
    ASSUME NEW s, Typed(s), ToSet(RowIds(s.page.rows)) \subseteq Used, NEW m \in Msgs
    PROVE  /\ OnlyAsks(s, RefreshOne(s, m)) /\ KeepsLists(s, RefreshOne(s, m))
           /\ \A k \in Msgs : KeepsText(s, RefreshOne(s, m), k)
           /\ HasRow(s.page.rows, m) => m \in RefreshOne(s, m).page.refreshing
           /\ m \in s.page.refreshing /\ HasRow(s.page.rows, m) => m \in RefreshOne(s, m).page.refreshAgain
           /\ RefreshOne(s, m).page.rows = s.page.rows
  <1> IsState(s) /\ IsPage(s.page)
    BY TypedIs
  <1>1. CASE ~HasRow(s.page.rows, m)
    <2>1. RefreshOne(s, m) = s
      BY <1>1 DEF RefreshOne
    <2>q. QED BY <1>1, <2>1, SameTasks DEF KeepsLists, KeepsText
  <1>2. CASE HasRow(s.page.rows, m) /\ m \in s.page.refreshing
    <2>1. PICK r : r = [s EXCEPT !.page.refreshAgain = @ \cup {m}]
      OBVIOUS
    <2>2. r.page = [s.page EXCEPT !.refreshAgain = @ \cup {m}] /\ r.tasks = s.tasks
      BY <2>1 DEF IsState
    <2>3. /\ r.page.rows = s.page.rows /\ r.page.refreshing = s.page.refreshing
          /\ r.page.refreshAgain = s.page.refreshAgain \cup {m}
          /\ r.page.syncing = s.page.syncing /\ r.page.syncAgain = s.page.syncAgain
      BY <2>2 DEF IsPage
    <2>4. RefreshOne(s, m) = r
      BY <1>2, <2>1 DEF RefreshOne
    <2>5. OnlyAsks(s, r)
      BY <2>2, SameTasks
    <2>6. KeepsLists(s, r) /\ \A k \in Msgs : KeepsText(s, r, k)
      BY <2>3 DEF KeepsLists, KeepsText
    <2>q. QED BY <1>2, <2>3, <2>4, <2>5, <2>6
  <1>3. CASE HasRow(s.page.rows, m) /\ m \notin s.page.refreshing
    <2>1. PICK q, u : q = [s EXCEPT !.page.refreshing = @ \cup {m}] /\ u = NewTask("one", {m})
      OBVIOUS
    <2>2. PICK r : r = Started(q, u)
      OBVIOUS
    <2>3. IsState(q) /\ q.page = [s.page EXCEPT !.refreshing = @ \cup {m}] /\ q.tasks = s.tasks
      BY <2>1 DEF IsState
    <2>4. r.page = q.page /\ r.tasks = s.tasks \cup {u}
      BY <2>2, <2>3, StartedIs
    <2>5. /\ r.page.rows = s.page.rows /\ r.page.refreshing = s.page.refreshing \cup {m}
          /\ r.page.refreshAgain = s.page.refreshAgain
          /\ r.page.syncing = s.page.syncing /\ r.page.syncAgain = s.page.syncAgain
      BY <2>3, <2>4 DEF IsPage
    <2>6. RefreshOne(s, m) = r
      BY <1>3, <2>1, <2>2 DEF RefreshOne
    <2>7. m \in Used
      BY <1>3, TypedIs, RowIdsAre
    <2>8. Asked(u) /\ u.ids = {m}
      <3>1. Asked(u)
        BY <2>1, NewAsked DEF TaskKinds
      <3>q. QED BY <2>1, <3>1, New DEF TaskKinds
    <2>9. OnlyAsks(s, r)
      BY <2>4, <2>7, <2>8, OneMore
    <2>10. KeepsLists(s, r) /\ \A k \in Msgs : KeepsText(s, r, k)
      BY <2>5 DEF KeepsLists, KeepsText
    <2>q. QED BY <1>3, <2>5, <2>6, <2>9, <2>10
  <1>q. QED BY <1>1, <1>2, <1>3

LEMMA RefreshOneDue ==
    ASSUME NEW s, Typed(s), ToSet(RowIds(s.page.rows)) \subseteq Used, NEW m \in Msgs,
           NEW B \in BOOLEAN, NEW M \in SUBSET Msgs, Settling(s, B, M)
    PROVE  Settling(RefreshOne(s, m), B, M)
  <1>1. PICK r : r = RefreshOne(s, m)
    OBVIOUS
  <1>2. OnlyAsks(s, r) /\ KeepsLists(s, r) /\ \A k \in Msgs : KeepsText(s, r, k)
    BY <1>1, RefreshOneKeeps
  <1>q. QED BY <1>1, <1>2, StillDue

\* And what it is told of is due: if it has no row, none that is older may be under way.
LEMMA RefreshOneTold ==
    ASSUME NEW s, Typed(s), ToSet(RowIds(s.page.rows)) \subseteq Used, NEW m \in Msgs,
           OneTrue(s.page, Fresh(s.tasks, "one")), \A t \in Fresh(s.tasks, "one") : OneRead(t),
           ~HasRow(s.page.rows, m) => \A t \in Fresh(s.tasks, "one") : ~Old(t.items, m)
    PROVE  TextDue(RefreshOne(s, m), m)
  <1>1. PICK r : r = RefreshOne(s, m)
    OBVIOUS
  <1>2. /\ OnlyAsks(s, r) /\ r.page.rows = s.page.rows
        /\ HasRow(s.page.rows, m) => m \in r.page.refreshing
        /\ (m \in s.page.refreshing /\ HasRow(s.page.rows, m)) => m \in r.page.refreshAgain
    BY <1>1, RefreshOneKeeps
  <1>3. m \in r.page.refreshing \/ Says(r.page.rows, m)
    <2>1. ~HasRow(s.page.rows, m) => \A row \in ToSet(s.page.rows) : row.id # m
      BY DEF HasRow, ToSet
    <2>q. QED BY <1>2, <2>1 DEF Says
  <1>4. ASSUME NEW t \in Fresh(r.tasks, "one"), Old(t.items, m) PROVE m \in r.page.refreshAgain
    <2>1. t \in Fresh(s.tasks, "one")
      BY <1>2, <1>4, AskedNotOld DEF OnlyAsks, Fresh
    <2>2. m \in t.ids /\ HasRow(s.page.rows, m)
      BY <1>4, <2>1 DEF OneRead, Old
    <2>3. m \in s.page.refreshing
      BY <2>1, <2>2 DEF OneTrue
    <2>q. QED BY <1>2, <2>2, <2>3
  <1>q. QED BY <1>1, <1>3, <1>4 DEF TextDue

\* Rows loaded of the chat's list, or of what messages say.
LEMMA LoadedDue ==
    ASSUME NEW ids \in Seq(Msgs), IsInjective(ids), NEW items \in [Msgs -> Nat],
           NEW rows, rows = RowsFor(ids, items)
    PROVE  /\ ids = list => Settles(rows)
           /\ \A m \in Msgs : ~Old(items, m) => Says(rows, m)
  <1>1. RowIds(rows) = ids /\ \A r \in ToSet(rows) : r.ver = items[r.id]
    BY LoadedRows
  <1>2. ASSUME ids = list PROVE Settles(rows)
    BY <1>1, <1>2 DEF Settles, InOrder, Ids
  <1>3. ASSUME NEW m \in Msgs, ~Old(items, m) PROVE Says(rows, m)
    BY <1>1, <1>3 DEF Says, Old
  <1>q. QED BY <1>2, <1>3

\* reload: the chat is to be loaded, or what is prefetched is what it is.
LEMMA ReloadDue ==
    ASSUME NEW s, Typed(s), NEW B \in BOOLEAN, NEW M \in SUBSET Msgs,
           \A c \in s.cache : (B => c.list = list) /\ \A m \in M : ~Old(c.items, m)
    PROVE  Settling(Reload(s), B, M)
  <1> DEFINE Older(t) == IF t.kind \in {"open", "sync", "fill", "one"} THEN [t EXCEPT !.fresh = FALSE]
                         ELSE t
             old == {Older(t) : t \in s.tasks}
  <1>1. PICK r : r = Reload(s)
    OBVIOUS
  <1>2. Reloaded(s, r)
    BY <1>1, ReloadIs
  <1>3. \A u \in old : u.kind \in {"sync", "one"} => ~u.fresh
    <2>1. ASSUME NEW t \in s.tasks
          PROVE Older(t).kind = t.kind /\ (t.kind \in {"sync", "one"} => ~Older(t).fresh)
      BY DEF Typed, TypedTask, Task
    <2>q. QED BY <2>1
  <1> HIDE DEF old
  <1>4. PICK u : u = NewTask("open", {}) /\ u.kind = "open"
    BY New DEF TaskKinds
  <1>5. ASSUME s.cache = {} PROVE r.tasks = old \cup {u}
    <2>1. PICK p : p = [s.page EXCEPT !.pending = {}, !.fetches = 0, !.syncing = FALSE,
                                      !.syncAgain = FALSE, !.refreshing = {}, !.refreshAgain = {}]
      OBVIOUS
    <2>2. PICK q : q = [s EXCEPT !.page = p, !.tasks = old]
      OBVIOUS
    <2>3. IsState(q) /\ q.tasks = old
      BY <2>2 DEF Typed, IsState
    <2>4. r = Started(q, u)
      BY <1>1, <1>4, <1>5, <2>1, <2>2 DEF Reload, old
    <2>q. QED BY <2>3, <2>4, StartedIs
  <1>6. s.cache # {} => r.tasks = old
    BY <1>1 DEF Reload, old
  <1>7. \A t \in r.tasks : t.kind \in {"sync", "one"} => ~t.fresh
    BY <1>3, <1>4, <1>5, <1>6
  <1>8. Fresh(r.tasks, "one") = {} /\ \A t \in r.tasks : ~IsLate(t)
    BY <1>7 DEF Fresh, IsLate
  <1>9. CASE s.cache = {}
    <2>1. OpensIn(r.tasks)
      BY <1>4, <1>5, <1>9 DEF OpensIn
    <2>q. QED BY <1>1, <1>8, <2>1 DEF Settling, ListDue, TextDue
  <1>10. CASE s.cache # {}
    <2>1. PICK c \in s.cache : r.page.rows = RowsFor(c.list, c.items)
      BY <1>2, <1>10 DEF Reloaded
    <2>2. c.list \in Seq(Msgs) /\ IsInjective(c.list) /\ c.items \in [Msgs -> Nat]
      BY DEF Typed, TypedCache, Cached
    <2>3. B => Settles(r.page.rows)
      BY <2>1, <2>2, LoadedDue
    <2>4. \A m \in M : Says(r.page.rows, m)
      BY <2>1, <2>2, LoadedDue
    <2>q. QED BY <1>1, <1>8, <2>3, <2>4 DEF Settling, ListDue, TextDue
  <1>q. QED BY <1>9, <1>10

\* Rows are filled, of what messages say.
LEMMA FilledDue ==
    ASSUME NEW rows \in Seq(Row), NEW items \in [Msgs -> Nat], NEW out, out = Filled(rows, items)
    PROVE  /\ Settles(rows) => Settles(out)
           /\ \A m \in Msgs : (Says(rows, m) /\ ~Old(items, m)) => Says(out, m)
           /\ \A m \in Msgs : (items[m] # 0 /\ ~Old(items, m)) => Says(out, m)
           /\ \A m \in Msgs : HasRow(out, m) <=> HasRow(rows, m)
  <1>1. /\ RowIds(out) = RowIds(rows) /\ DOMAIN out = DOMAIN rows /\ out \in Seq(Row)
        /\ \A i \in DOMAIN rows : out[i].ver =
                IF items[rows[i].id] = 0 THEN rows[i].ver ELSE items[rows[i].id]
    BY FilledRows
  <1>2. \A i \in DOMAIN rows : out[i].id = rows[i].id
    BY <1>1, RowIdsAre
  <1>3. Settles(rows) => Settles(out)
    BY <1>1 DEF Settles, InOrder
  <1>4. ASSUME NEW m \in Msgs, ~Old(items, m), Says(rows, m) \/ items[m] # 0 PROVE Says(out, m)
    <2>1. SUFFICES ASSUME NEW row \in ToSet(out), row.id = m PROVE row.ver \in {0, ver[m]}
      BY DEF Says
    <2>2. PICK i \in DOMAIN rows : row = out[i]
      BY <1>1, <2>1 DEF ToSet
    <2>3. rows[i].id = m /\ rows[i] \in ToSet(rows)
      BY <1>2, <2>1, <2>2 DEF ToSet
    <2>4. Says(rows, m) => rows[i].ver \in {0, ver[m]}
      BY <2>3 DEF Says
    <2>5. CASE items[m] = 0
      BY <1>1, <1>4, <2>2, <2>3, <2>4, <2>5
    <2>6. CASE items[m] = ver[m] /\ items[m] # 0
      BY <1>1, <2>2, <2>3, <2>6
    <2>q. QED BY <1>4, <2>5, <2>6 DEF Old
  <1>5. \A m \in Msgs : HasRow(out, m) <=> HasRow(rows, m)
    BY <1>1, <1>2 DEF HasRow
  <1>q. QED BY <1>3, <1>4, <1>5

-----------------------------------------------------------------------------
(* What landing answers leave due *)

\* Rows are set, and no mark.
RowsMarked(s, rows, r) ==
    /\ IsState(r) /\ r.tasks = s.tasks /\ r.page.rows = rows
    /\ r.page.syncing = s.page.syncing /\ r.page.syncAgain = s.page.syncAgain
    /\ r.page.refreshing = s.page.refreshing /\ r.page.refreshAgain = s.page.refreshAgain

LEMMA RowsDue ==
    ASSUME NEW s, Typed(s), NEW rows, NEW r, RowsMarked(s, rows, r),
           NEW B \in BOOLEAN, NEW M \in SUBSET Msgs, Settling(s, B, M),
           B => (Settles(s.page.rows) => Settles(rows)),
           \A m \in M : Says(s.page.rows, m) => Says(rows, m)
    PROVE  Settling(r, B, M)
  <1>1. (B => KeepsLists(s, r)) /\ \A m \in M : KeepsText(s, r, m)
    BY DEF KeepsLists, KeepsText, RowsMarked
  <1>q. QED BY <1>1, SameTasks, StillDue DEF RowsMarked

LEMMA RowsMarks ==
    ASSUME NEW s, IsState(s), IsPage(s.page), NEW rows
    PROVE  RowsMarked(s, rows, [s EXCEPT !.page.rows = rows])
  <1>1. PICK r : r = [s EXCEPT !.page.rows = rows]
    OBVIOUS
  <1>2. IsState(r) /\ r.page = [s.page EXCEPT !.rows = rows] /\ r.tasks = s.tasks
    BY <1>1 DEF IsState
  <1>q. QED BY <1>1, <1>2 DEF IsPage, RowsMarked

LEMMA FilledSetDue ==
    ASSUME NEW s, Typed(s), NEW t, TypedTask(t), NEW B \in BOOLEAN, NEW M \in SUBSET Msgs,
           Settling(s, B, M), \A m \in M : ~Old(t.items, m)
    PROVE  Settling([s EXCEPT !.page.rows = Filled(@, t.items)], B, M)
  <1>1. PICK rows : rows = Filled(s.page.rows, t.items)
    OBVIOUS
  <1>2. PICK r : r = [s EXCEPT !.page.rows = rows]
    OBVIOUS
  <1>3. t.items \in [Msgs -> Nat] /\ s.page.rows \in Seq(Row) /\ IsState(s) /\ IsPage(s.page)
    BY TypedIs DEF TypedTask, Task
  <1>4. RowsMarked(s, rows, r)
    BY <1>2, <1>3, RowsMarks
  <1>5. Settles(s.page.rows) => Settles(rows)
    BY <1>1, <1>3, FilledDue
  <1>6. \A m \in M : Says(s.page.rows, m) => Says(rows, m)
    BY <1>1, <1>3, FilledDue
  <1>7. Settling(r, B, M)
    BY <1>4, <1>5, <1>6, RowsDue
  <1>q. QED BY <1>1, <1>2, <1>7

\* reload's answer lands: with it, all is due.
LEMMA OpenLandedDue ==
    ASSUME NEW s, Typed(s), NEW t, TypedTask(t), t.phase = "answered", t \notin s.tasks,
           NEW o, o.page = s.page, o.tasks = s.tasks \cup {t}, t.kind = "open",
           NEW B \in BOOLEAN, NEW M \in SUBSET Msgs, Settling(o, B, M),
           B => t.list = list, \A m \in M : ~Old(t.items, m)
    PROVE  Settling(OpenLanded(s, t), B, M)
  <1>1. PICK rows : rows = RowsFor(t.list, t.items)
    OBVIOUS
  <1>2. PICK r : r = [s EXCEPT !.page.loaded = TRUE, !.page.rows = rows]
    OBVIOUS
  <1>3. r = OpenLanded(s, t)
    BY <1>1, <1>2 DEF OpenLanded
  <1>4. IsState(s) /\ IsPage(s.page)
    BY TypedIs
  <1>5. r.page = [s.page EXCEPT !.loaded = TRUE, !.rows = rows] /\ r.tasks = s.tasks
    BY <1>2, <1>4 DEF IsState
  <1>6. /\ r.page.rows = rows
        /\ r.page.syncing = s.page.syncing /\ r.page.syncAgain = s.page.syncAgain
        /\ r.page.refreshing = s.page.refreshing /\ r.page.refreshAgain = s.page.refreshAgain
    BY <1>4, <1>5 DEF IsPage
  <1>7. t.list \in Seq(Msgs) /\ IsInjective(t.list) /\ t.items \in [Msgs -> Nat]
    BY DEF TypedTask, Task
  <1>8. (t.list = list => Settles(rows)) /\ \A m \in Msgs : ~Old(t.items, m) => Says(rows, m)
    BY <1>1, <1>7, LoadedDue
  <1>9. B => ListDue(r)
    BY <1>5, <1>6, <1>8 DEF Settling, ListDue
  <1>10. \A u \in Fresh(r.tasks, "one") : u \in Fresh(o.tasks, "one")
    BY <1>5 DEF Fresh
  <1>11. \A m \in M : TextDue(r, m)
    BY <1>6, <1>8, <1>10 DEF Settling, TextDue
  <1>12. \A u \in Fresh(r.tasks, "one") : OneRead(u)
    BY <1>10 DEF Settling
  <1>q. QED BY <1>3, <1>9, <1>11, <1>12 DEF Settling

LEMMA FillLandedDue ==
    ASSUME NEW s, Typed(s), NEW t, TypedTask(t), NEW B \in BOOLEAN, NEW M \in SUBSET Msgs,
           Settling(s, B, M), \A m \in M : ~Old(t.items, m)
    PROVE  Settling(FillLanded(s, t), B, M)
  <1>1. CASE ~t.fresh
    BY <1>1 DEF FillLanded
  <1>2. CASE t.fresh
    <2>1. PICK rows, left, n : /\ rows = Filled(s.page.rows, t.items) /\ left = s.page.pending \ t.ids
                               /\ n = s.page.fetches - 1
      OBVIOUS
    <2>2. PICK r : r = [s EXCEPT !.page.pending = left, !.page.fetches = n, !.page.rows = rows]
      OBVIOUS
    <2>3. IsState(s) /\ IsPage(s.page) /\ t.items \in [Msgs -> Nat] /\ s.page.rows \in Seq(Row)
      BY TypedIs DEF TypedTask, Task
    <2>4. FillLanded(s, t) = r
      <3>1. FillLanded(s, t) = [s EXCEPT !.page.pending = @ \ t.ids, !.page.fetches = @ - 1,
                                         !.page.rows = Filled(@, t.items)]
        BY <1>2 DEF FillLanded
      <3>2. /\ FillLanded(s, t).tasks = s.tasks /\ FillLanded(s, t).cache = s.cache
            /\ IsState(FillLanded(s, t))
            /\ FillLanded(s, t).page = [s.page EXCEPT !.pending = @ \ t.ids, !.fetches = @ - 1,
                                                      !.rows = Filled(@, t.items)]
        BY <2>3, <3>1 DEF IsState
      <3>3. /\ IsState(r) /\ r.tasks = s.tasks /\ r.cache = s.cache
            /\ r.page = [s.page EXCEPT !.pending = left, !.fetches = n, !.rows = rows]
        BY <2>2, <2>3 DEF IsState
      <3>4. FillLanded(s, t).page = r.page
        BY <2>1, <2>3, <3>2, <3>3 DEF IsPage
      <3>q. QED BY <3>2, <3>3, <3>4 DEF IsState
    <2>5. /\ IsState(r) /\ r.tasks = s.tasks
          /\ r.page = [s.page EXCEPT !.pending = left, !.fetches = n, !.rows = rows]
      BY <2>2, <2>3 DEF IsState
    <2>6. RowsMarked(s, rows, r)
      BY <2>3, <2>5 DEF IsPage, RowsMarked
    <2>7. Settles(s.page.rows) => Settles(rows)
      BY <2>1, <2>3, FilledDue
    <2>8. \A m \in M : Says(s.page.rows, m) => Says(rows, m)
      BY <2>1, <2>3, FilledDue
    <2>9. Settling(r, B, M)
      BY <2>6, <2>7, <2>8, RowsDue
    <2>q. QED BY <2>4, <2>9
  <1>q. QED BY <1>1, <1>2

LEMMA ActLandedDue ==
    ASSUME NEW s, Typed(s), NEW t, TypedTask(t), t.kind = "act",
           ToSet(RowIds(s.page.rows)) \subseteq Used,
           NEW B \in BOOLEAN, NEW M \in SUBSET Msgs, Settling(s, B, M)
    PROVE  Settling(ActLanded(s, t), B, M)
  <1>1. PICK m \in Msgs : m = CHOOSE k \in t.ids : TRUE
    BY DEF TypedTask
  <1>2. Settling(RefreshOne(s, m), B, M)
    BY RefreshOneDue
  <1>q. QED BY <1>1, <1>2 DEF ActLanded

LEMMA RemoveLandedDue ==
    ASSUME NEW s, Typed(s), NEW t, TypedTask(t), t.kind = "remove", t.phase \in {"answered", "failed"},
           t.phase = "answered" => t.ids \cap Ids = {},
           NEW B \in BOOLEAN, NEW M \in SUBSET Msgs, Settling(s, B, M)
    PROVE  Settling(RemoveLanded(s, t), B, M)
  <1>1. CASE t.phase = "failed"
    BY <1>1 DEF RemoveLanded
  <1>2. CASE t.phase # "failed"
    <2>1. PICK rows : rows = Only(s.page.rows, {row \in ToSet(s.page.rows) : row.id \notin t.ids})
      OBVIOUS
    <2>2. PICK r : r = [s EXCEPT !.page.rows = rows]
      OBVIOUS
    <2>3. RemoveLanded(s, t) = r
      BY <1>2, <2>1, <2>2 DEF RemoveLanded
    <2>4. IsState(s) /\ IsPage(s.page) /\ s.page.rows \in Seq(Row) /\ IsInjective(RowIds(s.page.rows))
      BY TypedIs
    <2>5. PICK S : S = Msgs \ t.ids
      OBVIOUS
    <2>6. OnlyThose(s.page.rows, S, rows)
      <3>1. \A row \in ToSet(s.page.rows) : row.id \in Msgs
        BY <2>4, RowIs DEF ToSet
      <3>2. {row \in ToSet(s.page.rows) : row.id \notin t.ids} = {row \in ToSet(s.page.rows) : row.id \in S}
        BY <2>5, <3>1
      <3>q. QED BY <2>1, <2>4, <3>2, OnlyRows
    <2>7. RowsMarked(s, rows, r)
      BY <2>2, <2>4, RowsMarks
    <2>8. \A m \in M : Says(s.page.rows, m) => Says(rows, m)
      BY <2>6 DEF OnlyThose, Says
    <2>p. t.phase = "answered"
      BY <1>2
    <2>9. ASSUME B, Settles(s.page.rows) PROVE Settles(rows)
      <3>1. Ids \subseteq ToSet(RowIds(s.page.rows)) \cap S
        <4>1. ToSet(RowIds(s.page.rows)) \subseteq Msgs
          BY <2>4, RowIdsAre DEF ToSet
        <4>q. QED BY <2>5, <2>9, <2>p, <4>1 DEF Settles
      <3>2. InOrder(rows, list)
        BY <2>6, <2>9, <3>1 DEF OnlyThose, Settles, InOrder, Ids
      <3>q. QED BY <2>6, <2>9, <3>1, <3>2 DEF OnlyThose, Settles
    <2>q. QED BY <2>3, <2>7, <2>8, <2>9, RowsDue
  <1>q. QED BY <1>1, <1>2

\* place_sent: its row is there, or is its message's.
LEMMA SendLandedDue ==
    ASSUME NEW s, Typed(s), NEW t, TypedTask(t), t.kind = "send", t.phase \in {"answered", "failed"},
           NEW B \in BOOLEAN, NEW M \in SUBSET Msgs, Settling(s, B, M),
           (B /\ t.phase = "answered") => t.ids \subseteq Ids, \A m \in M : ~Old(t.items, m)
    PROVE  Settling(SendLanded(s, t), B, M)
  <1>1. PICK free : free = [s EXCEPT !.page.sending = FALSE]
    OBVIOUS
  <1>2. IsState(s) /\ IsPage(s.page) /\ s.page.rows \in Seq(Row)
    BY TypedIs
  <1>3. IsState(free) /\ free.page = [s.page EXCEPT !.sending = FALSE] /\ free.tasks = s.tasks
    BY <1>1, <1>2 DEF IsState
  <1>4. RowsMarked(s, s.page.rows, free)
    BY <1>2, <1>3 DEF IsPage, RowsMarked
  <1>5. Settling(free, B, M)
    BY <1>4, RowsDue
  <1>6. Typed(free)
    BY <1>1, AgainQuiet DEF Quiet
  <1>7. CASE t.phase = "failed"
    BY <1>1, <1>5, <1>7 DEF SendLanded
  <1>8. CASE t.phase = "answered"
    <2>1. PICK m \in Msgs : t.ids = {m} /\ m = CHOOSE k \in t.ids : TRUE
      BY <1>8 DEF TypedTask
    <2>2. CASE HasRow(s.page.rows, m)
      <3>1. SendLanded(s, t) = [free EXCEPT !.page.rows = Filled(@, t.items)]
        BY <1>1, <1>8, <2>1, <2>2 DEF SendLanded
      <3>q. QED BY <1>5, <1>6, <3>1, FilledSetDue
    <2>3. CASE ~HasRow(s.page.rows, m)
      <3>1. PICK v \in Nat : v = t.items[m]
        BY DEF TypedTask, Task
      <3>2. PICK rows : rows = Append(s.page.rows, [id |-> m, ver |-> v])
        OBVIOUS
      <3>3. PICK r : r = [free EXCEPT !.page.rows = rows]
        OBVIOUS
      <3>4. SendLanded(s, t) = r
        <4>1. SendLanded(s, t) = [free EXCEPT !.page.rows = Append(@, [id |-> m, ver |-> t.items[m]])]
          BY <1>1, <1>8, <2>1, <2>3 DEF SendLanded
        <4>q. QED BY <1>4, <3>1, <3>2, <3>3, <4>1 DEF RowsMarked
      <3>5. RowsMarked(free, rows, r)
        BY <1>6, <3>3, TypedIs, RowsMarks
      <3>6. B => ~Settles(s.page.rows)
        BY <1>2, <1>8, <2>1, <2>3, RowIdsAre DEF Settles
      <3>7. ASSUME NEW k \in M, Says(s.page.rows, k) PROVE Says(rows, k)
        <4>1. ToSet(rows) = ToSet(s.page.rows) \cup {[id |-> m, ver |-> v]}
          BY <1>2, <3>2, AppendedRows
        <4>2. k = m => v \in {0, ver[m]}
          BY <3>1 DEF Old
        <4>q. QED BY <3>7, <4>1, <4>2 DEF Says
      <3>8. free.page.rows = s.page.rows
        BY <1>4 DEF RowsMarked
      <3>q. QED BY <1>5, <1>6, <3>4, <3>5, <3>6, <3>7, <3>8, RowsDue
    <2>q. QED BY <2>2, <2>3
  <1>q. QED BY <1>7, <1>8

\* refresh_one's answer lands: what it brings is now, or another read follows.
LEMMA OneLandedDue ==
    ASSUME NEW s, Typed(s), NEW t, TypedTask(t), t.kind = "one",
           ToSet(RowIds(s.page.rows)) \subseteq Used,
           NEW B \in BOOLEAN, NEW M \in SUBSET Msgs, Settling(s, B, M),
           ~t.fresh => \A m \in M : ~Old(t.items, m),
           t.fresh => OneRead(t) /\ \A u \in Fresh(s.tasks, "one") : t.ids \cap u.ids = {},
           t.fresh => \A m \in M \cap t.ids : /\ t.phase = "answered" /\ m \in Ids
                                              /\ Old(t.items, m) => m \in s.page.refreshAgain
    PROVE  Settling(OneLanded(s, t), B, M)
  <1>1. CASE ~t.fresh
    <2>1. Settling([s EXCEPT !.page.rows = Filled(@, t.items)], B, M)
      BY <1>1, FilledSetDue
    <2>q. QED BY <1>1, <2>1 DEF OneLanded
  <1>2. CASE t.fresh
    <2>1. PICK told : told = [s EXCEPT !.page.refreshing = @ \ t.ids, !.page.refreshAgain = @ \ t.ids]
      OBVIOUS
    <2>2. PICK k \in Msgs : t.ids = {k} /\ k = CHOOSE m \in t.ids : TRUE
      BY DEF TypedTask
    <2>3. PICK again : again = IF k \in s.page.refreshAgain THEN RefreshOne(told, k) ELSE told
      OBVIOUS
    <2>4. IsState(s) /\ IsPage(s.page) /\ s.page.rows \in Seq(Row) /\ t.items \in [Msgs -> Nat]
      BY TypedIs DEF TypedTask, Task
    <2>5. /\ told.page = [s.page EXCEPT !.refreshing = @ \ t.ids, !.refreshAgain = @ \ t.ids]
          /\ told.tasks = s.tasks /\ told.cache = s.cache /\ IsState(told)
      BY <2>1, <2>4 DEF IsState
    <2>6. /\ told.page.rows = s.page.rows
          /\ told.page.syncing = s.page.syncing /\ told.page.syncAgain = s.page.syncAgain
          /\ told.page.refreshing = s.page.refreshing \ {k}
          /\ told.page.refreshAgain = s.page.refreshAgain \ {k}
      BY <2>2, <2>4, <2>5 DEF IsPage
    <2>7. Typed(told)
      <3>1. told.page \in PageFields
        <4>1. PICK p \in PageFields : p = s.page
          BY DEF Typed, TypedPage
        <4>q. QED BY <2>5, <4>1 DEF PageFields
      <3>q. QED BY <2>5, <2>6, <3>1 DEF Typed, TypedPage
    <2>8. PICK M1 \in SUBSET Msgs : M1 = M \ {k}
      OBVIOUS
    <2>9. Settling(s, B, M1)
      BY <2>8 DEF Settling
    <2>10. Settling(told, B, M1)
      <3>1. KeepsLists(s, told) /\ \A m \in M1 : KeepsText(s, told, m)
        BY <2>6, <2>8 DEF KeepsLists, KeepsText
      <3>q. QED BY <2>5, <2>9, <3>1, SameTasks, StillDue
    <2>11. Settling(again, B, M1) /\ Typed(again) /\ again.page.rows = s.page.rows
      <3>1. Settling(RefreshOne(told, k), B, M1)
        BY <2>6, <2>7, <2>10, RefreshOneDue
      <3>2. Typed(RefreshOne(told, k)) /\ RefreshOne(told, k).page.rows = s.page.rows
        BY <2>6, <2>7, RefreshOneQuiet DEF Quiet
      <3>q. QED BY <2>3, <2>6, <2>7, <2>10, <3>1, <3>2
    <2>12. PICK r : r = [again EXCEPT !.page.rows = Filled(@, t.items)]
      OBVIOUS
    <2>13. OneLanded(s, t) = r
      <3>1. t.ids \subseteq s.page.refreshAgain <=> k \in s.page.refreshAgain
        BY <2>2
      <3>2. OneLanded(s, t) =
               [IF t.ids \subseteq s.page.refreshAgain
                THEN RefreshOne(told, CHOOSE m \in t.ids : TRUE) ELSE told
                EXCEPT !.page.rows = Filled(@, t.items)]
        BY <1>2, <2>1 DEF OneLanded
      <3>q. QED BY <2>2, <2>3, <2>12, <3>1, <3>2
    <2>14. Settling(r, B, M1)
      <3>1. \A m \in M1 : ~Old(t.items, m)
        BY <1>2, <2>2, <2>8 DEF OneRead, Old
      <3>q. QED BY <2>11, <2>12, <3>1, FilledSetDue
    <2>15. ASSUME k \in M PROVE TextDue(r, k)
      <3>1. PICK rows : rows = Filled(s.page.rows, t.items)
        OBVIOUS
      <3>2. RowsMarked(again, rows, r)
        <4>1. r = [again EXCEPT !.page.rows = rows]
          BY <2>11, <2>12, <3>1
        <4>q. QED BY <2>11, <4>1, TypedIs, RowsMarks
      <3>3. \A u \in Fresh(s.tasks, "one") : ~Old(u.items, k)
        BY <1>2, <2>2 DEF Settling, OneRead, Old
      <3>4. \A u \in Fresh(r.tasks, "one") : ~Old(u.items, k)
        <4>1. OnlyAsks(told, RefreshOne(told, k))
          BY <2>6, <2>7, RefreshOneKeeps
        <4>2. OnlyAsks(told, told)
          BY SameTasks
        <4>3. OnlyAsks(told, again) /\ r.tasks = again.tasks
          BY <2>3, <3>2, <4>1, <4>2 DEF RowsMarked
        <4>4. ASSUME NEW u \in Fresh(r.tasks, "one") PROVE u \in Fresh(s.tasks, "one") \/ Asked(u)
          BY <2>5, <4>3 DEF OnlyAsks, Fresh
        <4>q. QED BY <3>3, <4>4, AskedNotOld
      <3>5. k \in r.page.refreshing \/ Says(rows, k)
        <4>1. CASE k \in s.page.refreshAgain
          <5>1. HasRow(s.page.rows, k) => k \in again.page.refreshing
            BY <2>3, <2>6, <2>7, <4>1, RefreshOneKeeps
          <5>2. HasRow(rows, k) <=> HasRow(s.page.rows, k)
            BY <2>4, <3>1, FilledDue
          <5>3. ~HasRow(rows, k) => Says(rows, k)
            BY DEF HasRow, Says, ToSet
          <5>q. QED BY <3>2, <5>1, <5>2, <5>3 DEF RowsMarked
        <4>2. CASE k \notin s.page.refreshAgain
          <5>1. t.items[k] # 0 /\ ~Old(t.items, k)
            BY <1>2, <2>2, <2>15, <4>2 DEF OneRead
          <5>q. QED BY <2>4, <3>1, <5>1, FilledDue
        <4>q. QED BY <4>1, <4>2
      <3>q. QED BY <3>2, <3>4, <3>5 DEF TextDue, RowsMarked
    <2>q. QED BY <2>8, <2>13, <2>14, <2>15 DEF Settling
  <1>q. QED BY <1>1, <1>2

\* synced, of rows in its order: what they say stays, and the list is in them.
LEMMA SyncedDue ==
    ASSUME NEW s, Typed(s), NEW ids \in Seq(Msgs), IsInjective(ids), InOrder(s.page.rows, ids),
           NEW M \in SUBSET Msgs, Settling(s, FALSE, M)
    PROVE  /\ Settling(Synced(s, ids), FALSE, M)
           /\ Synced(s, ids).page.syncAgain = s.page.syncAgain
           /\ Synced(s, ids).page.syncing = s.page.syncing
           /\ ids = list => Settles(Synced(s, ids).page.rows)
  <1>1. PICK rows, arrived, stays :
           /\ rows = s.page.rows
           /\ arrived = {m \in ToSet(ids) : ~HasRow(rows, m)}
           /\ stays = Only(rows, {r \in ToSet(rows) : \/ r.id \in ToSet(ids)
                                                      \/ \A m \in ToSet(ids) : r.id > m})
    OBVIOUS
  <1>2. PICK out, placed : out = Placed(stays, ids, arrived) /\ placed = [s EXCEPT !.page.rows = out]
    OBVIOUS
  <1>3. PICK u : u = NewTask("absorb", arrived)
    OBVIOUS
  <1>4. PICK r : r = Synced(s, ids)
    OBVIOUS
  <1>5. r = IF arrived = {} THEN placed ELSE Started(placed, u)
    BY <1>1, <1>2, <1>3, <1>4 DEF Synced
  <1>6. rows \in Seq(Row) /\ IsInjective(RowIds(rows)) /\ InOrder(rows, ids)
    BY <1>1, TypedIs
  <1>7. SyncedTo(rows, ids, out)
    BY <1>1, <1>2, <1>6, SyncedRows
  <1>8. RowsMarked(s, out, placed)
    BY <1>2, TypedIs, RowsMarks
  <1>9. Asked(u) /\ u.kind = "absorb"
    <2>1. arrived \in SUBSET Msgs
      BY <1>1 DEF ToSet
    <2>2. Asked(u)
      BY <1>3, <2>1, NewAsked DEF TaskKinds
    <2>q. QED BY <1>3, <2>1, <2>2, New DEF TaskKinds
  <1>10. r.page = placed.page /\ (r.tasks = s.tasks \/ r.tasks = s.tasks \cup {u})
    BY <1>5, <1>8, StartedIs DEF RowsMarked
  <1>11. OnlyAsks(s, r)
    BY <1>9, <1>10, SameTasks, OneMore
  <1>12. ASSUME NEW m \in M, Says(rows, m) PROVE Says(out, m)
    BY <1>7, <1>12 DEF SyncedTo, Says
  <1>13. \A m \in M : KeepsText(s, r, m)
    BY <1>1, <1>8, <1>10, <1>12 DEF KeepsText, RowsMarked
  <1>14. Settling(r, FALSE, M)
    BY <1>11, <1>13, StillDue
  <1>15. ASSUME ids = list PROVE Settles(out)
    <2>0. RowIds(out) \in Seq(Msgs) /\ IsInjective(RowIds(out))
      BY <1>7, RowIdsAre DEF SyncedTo
    <2>1. Ordered(RowIds(out)) /\ Ordered(list)
      BY <1>15, <2>0, OrderedIs
    <2>2. InOrder(out, list)
      <3>1. SUFFICES ASSUME NEW a \in ToSet(list), NEW b \in ToSet(list), Before(RowIds(out), a, b)
                     PROVE Before(list, a, b)
        BY DEF InOrder
      <3>2. a # b /\ ~Before(RowIds(out), b, a)
        BY <2>1, <3>1 DEF Ordered
      <3>3. ~Before(list, b, a)
        BY <1>7, <1>15, <3>2 DEF SyncedTo
      <3>q. QED BY <2>1, <3>2, <3>3 DEF Ordered
    <2>q. QED BY <1>7, <1>15, <2>2 DEF SyncedTo, Settles, Ids
  <1>q. QED BY <1>4, <1>8, <1>10, <1>14, <1>15 DEF RowsMarked

\* reload: no sync is asked for.
LEMMA ReloadMarks == ASSUME NEW s, Typed(s) PROVE ~Reload(s).page.syncAgain
  <1>1. PICK p : p = [s.page EXCEPT !.pending = {}, !.fetches = 0, !.syncing = FALSE,
                                    !.syncAgain = FALSE, !.refreshing = {}, !.refreshAgain = {}]
    OBVIOUS
  <1>2. IsPage(s.page) /\ IsState(s)
    BY TypedIs
  <1>3. ~p.syncAgain /\ IsPage(p)
    BY <1>1, <1>2 DEF IsPage
  <1>4. CASE s.cache = {}
    <2>1. PICK q, old, u : q = [s EXCEPT !.page = p, !.tasks = old] /\ Reload(s) = Started(q, u)
      BY <1>1, <1>4 DEF Reload
    <2>2. IsState(q) /\ q.page = p
      BY <1>2, <2>1 DEF IsState
    <2>3. Started(q, u).page = q.page
      BY <2>2, StartedIs
    <2>q. QED BY <1>3, <2>1, <2>2, <2>3
  <1>5. CASE s.cache # {}
    <2>1. PICK rows : Reload(s).page = [p EXCEPT !.rows = rows, !.loaded = TRUE]
      BY <1>1, <1>5 DEF Reload
    <2>q. QED BY <1>3, <2>1 DEF IsPage
  <1>q. QED BY <1>4, <1>5

\* The one list on its way is the chat's, or is read again.
ListComes(s, t, B, M) ==
    /\ Settling(s, FALSE, M)
    /\ ~t.fresh => Settling(s, B, M)
    /\ t.fresh => NoneLate(s.tasks)
    /\ (t.fresh /\ B) => t.phase = "answered" /\ (t.list = list \/ s.page.syncAgain)
    /\ \A c \in s.cache : (B => c.list = list) /\ \A m \in M : ~Old(c.items, m)

\* sync_rows' answer lands.
LEMMA SyncLandedDue ==
    ASSUME NEW s, Typed(s), NEW t, TypedTask(t), t.kind = "sync", t.phase \in {"answered", "failed"},
           NEW B \in BOOLEAN, NEW M \in SUBSET Msgs, ListComes(s, t, B, M)
    PROVE  Settling(SyncLanded(s, t), B, M)
  <1> USE DEF ListComes
  <1>1. CASE ~t.fresh
    BY <1>1 DEF SyncLanded
  <1>2. CASE t.fresh
    <2>1. PICK told : told = [s EXCEPT !.page.syncing = FALSE]
      OBVIOUS
    <2>2. PICK in_ : in_ = IF t.phase = "failed" THEN told ELSE Synced(told, t.list)
      OBVIOUS
    <2>3. PICK once : once = [in_ EXCEPT !.page.syncAgain = FALSE]
      OBVIOUS
    <2>4. PICK r : r = SyncLanded(s, t)
      OBVIOUS
    <2>5. r = IF in_.page.syncAgain THEN SyncRows(once) ELSE once
      BY <1>2, <2>1, <2>2, <2>3, <2>4 DEF SyncLanded
    <2>6. Quiet(s, told) /\ Typed(told)
      BY <2>1, AgainQuiet DEF Quiet
    <2>7. IsState(s) /\ IsPage(s.page) /\ t.list \in Seq(Msgs) /\ IsInjective(t.list)
      BY TypedIs DEF TypedTask, Task
    <2>8. told.page = [s.page EXCEPT !.syncing = FALSE] /\ told.tasks = s.tasks /\ told.cache = s.cache
      BY <2>1, <2>7 DEF IsState
    <2>9. /\ told.page.rows = s.page.rows /\ told.page.syncAgain = s.page.syncAgain
          /\ told.page.refreshing = s.page.refreshing /\ told.page.refreshAgain = s.page.refreshAgain
      BY <2>7, <2>8 DEF IsPage
    <2>10. Settling(told, FALSE, M)
      <3>1. \A m \in M : KeepsText(s, told, m)
        BY <2>9 DEF KeepsText
      <3>q. QED BY <2>8, <3>1, SameTasks, StillDue
    <2>11. ASSUME Typed(in_), NEW C \in BOOLEAN, Settling(in_, C, M), C => ~in_.page.syncAgain
           PROVE  Settling(once, C, M) /\ Typed(once) /\ once.tasks = in_.tasks
      <3>1. IsState(in_) /\ IsPage(in_.page)
        BY <2>11, TypedIs
      <3>2. once.page = [in_.page EXCEPT !.syncAgain = FALSE] /\ once.tasks = in_.tasks
        BY <2>3, <3>1 DEF IsState
      <3>3. /\ once.page.rows = in_.page.rows /\ once.page.syncing = in_.page.syncing
            /\ once.page.refreshing = in_.page.refreshing /\ once.page.refreshAgain = in_.page.refreshAgain
        BY <3>1, <3>2 DEF IsPage
      <3>4. C => KeepsLists(in_, once)
        BY <2>11, <3>3 DEF KeepsLists
      <3>5. \A m \in M : KeepsText(in_, once, m)
        BY <3>3 DEF KeepsText
      <3>6. Typed(once)
        BY <2>3, <2>11, AgainQuiet DEF Quiet
      <3>q. QED BY <2>11, <3>2, <3>4, <3>5, <3>6, SameTasks, StillDue
    <2>12. ASSUME Typed(in_), NoneLate(in_.tasks), Settling(in_, FALSE, M),
                 B => in_.page.syncAgain \/ Settles(in_.page.rows)
           PROVE  Settling(r, B, M)
      <3>1. Settling(once, FALSE, M) /\ Typed(once) /\ once.tasks = in_.tasks
        BY <2>11, <2>12
      <3>2. CASE in_.page.syncAgain
        <4>1. Settling(SyncRows(once), TRUE, M)
          BY <2>12, <3>1, SyncRowsDue
        <4>q. QED BY <2>5, <3>2, <4>1 DEF Settling
      <3>3. CASE ~in_.page.syncAgain
        <4>1. once.page.rows = in_.page.rows
          BY <2>3, <2>12, AgainQuiet DEF Quiet
        <4>2. \A u \in once.tasks : ~IsLate(u)
          BY <2>12, <3>1 DEF NoneLate, IsLate
        <4>3. B => ListDue(once)
          BY <2>12, <3>3, <4>1, <4>2 DEF ListDue
        <4>q. QED BY <2>5, <3>1, <3>3, <4>3 DEF Settling
      <3>q. QED BY <3>2, <3>3
    <2>13. NoneLate(told.tasks)
      BY <1>2, <2>8
    <2>14. CASE t.phase = "failed"
      <3>1. in_ = told /\ ~B
        BY <1>2, <2>2, <2>14
      <3>q. QED BY <2>4, <2>6, <2>10, <2>12, <2>13, <3>1
    <2>15. CASE t.phase = "answered"
      <3>1. in_ = Synced(told, t.list)
        BY <2>2, <2>15
      <3>2. CASE ~InOrder(told.page.rows, t.list)
        <4>1. in_ = Reload(told)
          BY <3>1, <3>2 DEF Synced
        <4>2. Settling(in_, B, M)
          BY <2>6, <2>8, <4>1, ReloadDue
        <4>3. Typed(in_)
          BY <2>6, <4>1, ReloadIs DEF Reloaded
        <4>4. ~in_.page.syncAgain
          BY <2>6, <4>1, ReloadMarks
        <4>5. Settling(once, B, M)
          BY <2>11, <4>2, <4>3, <4>4
        <4>q. QED BY <2>4, <2>5, <4>4, <4>5
      <3>3. CASE InOrder(told.page.rows, t.list)
        <4>1. /\ Settling(in_, FALSE, M) /\ in_.page.syncAgain = told.page.syncAgain
              /\ t.list = list => Settles(in_.page.rows)
          BY <2>6, <2>7, <2>10, <3>1, <3>3, SyncedDue
        <4>2. Syncs(told, t.list, in_)
          BY <2>6, <2>7, <3>1, <3>3, SyncedIs
        <4>3. Typed(in_) /\ NoneLate(in_.tasks)
          BY <2>6, <2>13, <4>2, NoneLateOn DEF Syncs, Rowed, Typed
        <4>4. B => (in_.page.syncAgain \/ Settles(in_.page.rows))
          BY <1>2, <2>9, <4>1
        <4>q. QED BY <2>4, <2>12, <4>1, <4>3, <4>4
      <3>q. QED BY <3>2, <3>3
    <2>q. QED BY <2>14, <2>15
  <1>q. QED BY <1>1, <1>2

-----------------------------------------------------------------------------
(* What is due holds: steps of the page *)

\* Messages of which no event is left to tell.
Quiets == {m \in Ids \ crossed : ~LostTold /\ ~ToldOf(m)}

OwnLists == (~behind /\ ~ListTold) => (~OldList /\ \A c \in cache : c.list = list)
OwnTexts == \A m \in Quiets : ~OldVersion(m) /\ \A c \in cache : ~Old(c.items, m)
DueNow   == Settling(Now, open /\ ~behind /\ ~ListTold, {m \in Quiets : open})

\* With no event left to tell, what is on its way is what is; and what is not in the rows is due.
DueInv == OwnLists /\ OwnTexts /\ DueNow

LEMMA HistoryLists ==
    ASSUME History, behind' \in BOOLEAN, ~behind'
    PROVE  /\ ~behind \/ Healed
           /\ Failed("open") = {} /\ Failed("sync") = {}
           /\ ~ListTold' => ~OldList' /\ \A c \in cache \cup cache' : c.list = list'
  <1>1. behind' = \/ behind /\ ~Healed
                  \/ Failed("open") \cup Failed("sync") # {}
                  \/ ~ListTold' /\ (OldList' \/ \E c \in cache \cup cache' : c.list # list')
    BY Zenon DEF History
  <1>q. QED BY <1>1

LEMMA HistoryTexts ==
    ASSUME History
    PROVE  /\ crossed \subseteq crossed'
           /\ Failed("open") # {} => Msgs \subseteq crossed'
           /\ \A t \in Failed("one") : t.ids \subseteq crossed'
           /\ \A m \in Quiets' : ~OldVersion(m)' /\ \A c \in cache \cup cache' : ~Old(c.items, m)'
  <1>1. crossed' = crossed \cup (IF Failed("open") # {} THEN Msgs ELSE {})
                   \cup (UNION {t.ids : t \in Failed("one")})
                   \cup {m \in Ids' : /\ ~LostTold' /\ ~ToldOf(m)'
                                      /\ OldVersion(m)' \/ \E c \in cache \cup cache' : Old(c.items, m)'}
    BY Zenon DEF History
  <1>2. \A t \in Failed("one") : t.ids \subseteq crossed'
    BY <1>1
  <1>3. crossed \subseteq crossed' /\ (Failed("open") # {} => Msgs \subseteq crossed')
    BY <1>1
  <1>4. ASSUME NEW m \in Quiets' PROVE ~OldVersion(m)' /\ \A c \in cache \cup cache' : ~Old(c.items, m)'
    <2>1. m \in Ids' /\ m \notin crossed' /\ ~LostTold' /\ ~ToldOf(m)'
      BY DEF Quiets
    <2>2. ~(OldVersion(m)' \/ \E c \in cache \cup cache' : Old(c.items, m)')
      BY <1>1, <2>1
    <2>q. QED BY <2>2
  <1>q. QED BY <1>2, <1>3, <1>4

\* What is on its way is what is, by what history is.
LEMMA OwnOn == ASSUME History, behind' \in BOOLEAN PROVE OwnLists' /\ OwnTexts'
  <1>1. OwnLists'
    BY HistoryLists DEF OwnLists
  <1>2. OwnTexts'
    BY HistoryTexts DEF OwnTexts
  <1>q. QED BY <1>1, <1>2

LEMMA LessDue ==
    ASSUME NEW s, NEW B0, NEW M0, Settling(s, B0, M0), NEW B \in BOOLEAN, NEW M, B => B0, M \subseteq M0
    PROVE  Settling(s, B, M)
  BY DEF Settling

\* B asks for no more than is due after the step, and neither do messages M.
Due(B, M) ==
    /\ B => (open' /\ ~behind' /\ ~ListTold')
    /\ M \subseteq Quiets' /\ (M # {} => open')

\* The page becomes r.
LEMMA BecomesDue ==
    ASSUME NEW r, IsState(r), Becomes(r), UNCHANGED <<list, ver>>,
           NEW B \in BOOLEAN, NEW M \in SUBSET Msgs, Settling(r, B, M)
    PROVE  Settling(Now, B, M)'
  <1>1. Now' = r
    BY DEF Now, Becomes, IsState
  <1>2. /\ Ids' = Ids /\ Used' = Used /\ list' = list /\ ver' = ver
    BY DEF Ids, Used
  <1>3. \A row, m : Old(row, m)' <=> Old(row, m)
    BY <1>2 DEF Old
  <1>4. ListDue(Now)' <=> ListDue(r)
    BY <1>1, <1>2 DEF ListDue, Settles, InOrder, NewerThan, IsLate
  <1>5. ASSUME NEW m PROVE TextDue(Now, m)' <=> TextDue(r, m)
    BY <1>1, <1>2, <1>3 DEF TextDue, Says
  <1>6. ASSUME NEW t PROVE OneRead(t)' <=> OneRead(t)
    BY <1>2 DEF OneRead
  <1>q. QED BY <1>1, <1>4, <1>5, <1>6 DEF Settling

\* No event is handled: what is due was due, but for a list that has landed.
LEMMA DueBefore ==
    ASSUME DueInv, History, behind' \in BOOLEAN, UNCHANGED <<list, ver, events, open>>,
           NEW B \in BOOLEAN, NEW M \in SUBSET Msgs, Due(B, M)
    PROVE  /\ M \subseteq Quiets /\ Settling(Now, FALSE, M)
           /\ \A m \in M : ~OldVersion(m) /\ \A c \in cache : ~Old(c.items, m)
           /\ (B /\ ~Healed) => ~OldList /\ ListDue(Now)
           /\ B => Failed("open") = {} /\ Failed("sync") = {}
           /\ B => \A c \in cache : c.list = list
  <1>1. /\ Ids' = Ids /\ (LostTold' <=> LostTold) /\ (ListTold' <=> ListTold)
        /\ \A m : ToldOf(m)' <=> ToldOf(m)
    BY DEF Ids, LostTold, ListTold, ToldOf
  <1>2. M \subseteq Quiets
    BY <1>1, HistoryTexts DEF Due, Quiets
  <1>3. M \subseteq {m \in Quiets : open}
    BY <1>2 DEF Due
  <1>4. Settling(Now, FALSE, M)
    BY <1>3, LessDue DEF DueInv, DueNow
  <1>5. \A m \in M : ~OldVersion(m) /\ \A c \in cache : ~Old(c.items, m)
    BY <1>2 DEF DueInv, OwnTexts
  <1>6. ASSUME B PROVE /\ Failed("open") = {} /\ Failed("sync") = {} /\ (~behind \/ Healed)
                       /\ \A c \in cache : c.list = list
    BY <1>6, HistoryLists DEF Due
  <1>7. ASSUME B, ~Healed PROVE ~OldList /\ ListDue(Now)
    <2>1. open /\ ~behind /\ ~ListTold
      BY <1>1, <1>6, <1>7 DEF Due
    <2>q. QED BY <2>1 DEF DueInv, OwnLists, DueNow, Settling
  <1>q. QED BY <1>2, <1>4, <1>5, <1>6, <1>7

\* refresh_one leaves the tasks there are.
LEMMA RefreshOneStays ==
    ASSUME NEW s, IsState(s), NEW m
    PROVE  s.tasks \subseteq RefreshOne(s, m).tasks /\ IsState(RefreshOne(s, m))
  <1>1. PICK q : q = [s EXCEPT !.page.refreshing = @ \cup {m}]
    OBVIOUS
  <1>2. IsState(q) /\ q.tasks = s.tasks
    BY <1>1 DEF IsState
  <1>3. /\ Started(q, NewTask("one", {m})).tasks = q.tasks \cup {NewTask("one", {m})}
        /\ IsState(Started(q, NewTask("one", {m})))
    BY <1>2, StartedIs
  <1>4. PICK o : o = [s EXCEPT !.page.refreshAgain = @ \cup {m}]
    OBVIOUS
  <1>5. IsState(o) /\ o.tasks = s.tasks
    BY <1>4 DEF IsState
  <1>q. QED BY <1>1, <1>2, <1>3, <1>4, <1>5 DEF RefreshOne

\* Handlers but those of lists leave the tasks there are.
LEMMA LandsStay ==
    ASSUME NEW s, Typed(s), NEW t, TypedTask(t)
    PROVE  /\ OpenLanded(s, t).tasks = s.tasks
           /\ s.tasks \subseteq FillLanded(s, t).tasks
           /\ s.tasks \subseteq AbsorbLanded(s, t).tasks
           /\ s.tasks \subseteq OneLanded(s, t).tasks
           /\ s.tasks \subseteq SendLanded(s, t).tasks
           /\ s.tasks \subseteq RemoveLanded(s, t).tasks
           /\ s.tasks \subseteq ActLanded(s, t).tasks
  <1>1. OpenLanded(s, t).tasks = s.tasks
    BY DEF Typed, IsState, OpenLanded
  <1>2. FillLanded(s, t).tasks = s.tasks /\ AbsorbLanded(s, t).tasks = s.tasks
    BY DEF Typed, IsState, FillLanded, AbsorbLanded
  <1>3. SendLanded(s, t).tasks = s.tasks
    <2>1. PICK free : free = [s EXCEPT !.page.sending = FALSE]
      OBVIOUS
    <2>2. IsState(free) /\ free.tasks = s.tasks
      BY <2>1 DEF Typed, IsState
    <2>3. PICK m : m = CHOOSE k \in t.ids : TRUE
      OBVIOUS
    <2>4. SendLanded(s, t) = IF t.phase = "failed" THEN free
                             ELSE IF HasRow(s.page.rows, m) THEN [free EXCEPT !.page.rows = Filled(@, t.items)]
                             ELSE [free EXCEPT !.page.rows = Append(@, [id |-> m, ver |-> t.items[m]])]
      BY <2>1, <2>3 DEF SendLanded
    <2>q. QED BY <2>2, <2>4 DEF IsState
  <1>4. RemoveLanded(s, t).tasks = s.tasks
    BY DEF Typed, IsState, RemoveLanded
  <1>5. s.tasks \subseteq ActLanded(s, t).tasks
    BY RefreshOneStays DEF ActLanded, Typed
  <1>6. s.tasks \subseteq OneLanded(s, t).tasks
    <2>1. PICK told : told = [s EXCEPT !.page.refreshing = @ \ t.ids, !.page.refreshAgain = @ \ t.ids]
      OBVIOUS
    <2>2. PICK m : m = CHOOSE k \in t.ids : TRUE
      OBVIOUS
    <2>3. PICK again : again = IF ~t.fresh THEN s
                               ELSE IF t.ids \subseteq s.page.refreshAgain THEN RefreshOne(told, m) ELSE told
      OBVIOUS
    <2>4. OneLanded(s, t) = [again EXCEPT !.page.rows = Filled(@, t.items)]
      BY <2>1, <2>2, <2>3 DEF OneLanded
    <2>5. IsState(told) /\ told.tasks = s.tasks
      BY <2>1 DEF Typed, IsState
    <2>6. s.tasks \subseteq RefreshOne(told, m).tasks /\ IsState(RefreshOne(told, m))
      BY <2>5, RefreshOneStays
    <2>8. IsState(again) /\ s.tasks \subseteq again.tasks
      BY <2>3, <2>5, <2>6 DEF Typed
    <2>q. QED BY <2>4, <2>8 DEF IsState
  <1>q. QED BY <1>1, <1>2, <1>3, <1>4, <1>5, <1>6

\* A task that has landed and is of this generation is gone.
LEMMA LandedGone ==
    ASSUME NEW s, Typed(s), NEW r, NEW t, TypedTask(t), t.fresh, t \notin s.tasks,
           t.phase \in {"answered", "failed"}, LandsAs(s, t, r)
    PROVE  t \notin r.tasks
  <1>1. Handed(s.tasks, r.tasks)
    BY DEF LandsAs, Quiet, Rowed, Loads, Places, Drops, Syncs, Reloaded
  <1>2. ~Asked(t)
    BY DEF Asked
  <1>3. ASSUME NEW u \in s.tasks PROVE t # [u EXCEPT !.fresh = FALSE]
    BY DEF Typed, TypedTask, Task
  <1>q. QED BY <1>1, <1>2, <1>3 DEF Handed, Aged

\* What is left once t is taken off.
Left(s, t) ==
    /\ Typed(s) /\ s.page = page /\ s.tasks = tasks \ {t} /\ s.cache = cache
    /\ ToSet(RowIds(s.page.rows)) \subseteq Used
    /\ TypedTask(t) /\ t \in tasks

LEMMA LeftIs ==
    ASSUME ConvInv, NEW t \in tasks, NEW s, s = [Now EXCEPT !.tasks = @ \ {t}]
    PROVE  Left(s, t)
  <1>1. Typed(Now) /\ TypedTask(t)
    BY NowFields DEF ConvInv, NowTyped, Typed
  <1>2. IsState(s) /\ s.page = page /\ s.tasks = tasks \ {t} /\ s.cache = cache
    BY DEF IsState, Now
  <1>3. Typed(s)
    BY <1>1, <1>2, NowFields DEF Typed
  <1>4. ToSet(RowIds(s.page.rows)) \subseteq Used
    BY <1>2 DEF ConvInv, RowsInv, Numbered, Shown
  <1>q. QED BY <1>1, <1>2, <1>3, <1>4 DEF Left

\* A step in which t lands.
Landing(s, t, r) ==
    /\ Left(s, t) /\ LandsAs(s, t, r) /\ IsState(r) /\ Becomes(r) /\ t.phase \in {"answered", "failed"}
    /\ UNCHANGED <<list, ver, events, open>> /\ History /\ behind' \in BOOLEAN

\* No list is brought by it.
LEMMA NotHealed ==
    ASSUME NEW s, NEW t, NEW r, Landing(s, t, r), s.tasks \subseteq r.tasks,
           t.kind # "sync" \/ ~t.fresh
    PROVE  ~Healed
  <1>1. tasks' = r.tasks /\ s.tasks = tasks \ {t}
    BY DEF Landing, Left, Becomes
  <1>q. QED BY <1>1 DEF Healed

\* Of what is due, a task off takes nothing but what it alone was to bring.
LEMMA LeftDue ==
    ASSUME NEW s, NEW t, Left(s, t), t.kind # "open",
           NEW B \in BOOLEAN, NEW M \in SUBSET Msgs, Settling(Now, B, M)
    PROVE  Settling(s, B, M)
  <1>1. Now.page = page /\ Now.tasks = tasks
    BY NowFields
  <1>q. QED BY <1>1, OffDue DEF Left

LEMMA OpenDue ==
    ASSUME ConvInv, DueInv, NEW s, NEW t, Landing(s, t, OpenLanded(s, t)), t.kind = "open",
           NEW B \in BOOLEAN, NEW M \in SUBSET Msgs, Due(B, M)
    PROVE  Settling(OpenLanded(s, t), B, M)
  <1>1. /\ M \subseteq Quiets /\ Settling(Now, FALSE, M)
        /\ \A m \in M : ~OldVersion(m)
        /\ (B /\ ~Healed) => ~OldList /\ ListDue(Now)
        /\ B => Failed("open") = {}
    BY DueBefore DEF Landing
  <1>2. OpenLanded(s, t).tasks = s.tasks
    BY LandsStay DEF Landing, Left
  <1>3. ~Healed
    BY <1>2, NotHealed
  <1>4. CASE t.phase = "failed"
    <2>1. Failed("open") # {}
      BY <1>2, <1>4 DEF Failed, Landing, Left, Becomes
    <2>2. ~B /\ M = {}
      BY <1>1, <2>1, HistoryTexts DEF Landing, Due, Quiets
    <2>3. \A u \in Fresh(s.tasks, "one") : OneRead(u)
      BY <1>1, NowFields DEF Settling, Landing, Left, Fresh
    <2>q. QED BY <1>2, <2>2, <2>3 DEF Settling
  <1>5. CASE t.phase = "answered"
    <2>1. B => t.list = list /\ ListDue(Now)
      BY <1>1, <1>3, <1>5 DEF OldList, Openings, Landing, Left
    <2>2. \A m \in M : ~Old(t.items, m)
      BY <1>1 DEF OldVersion, Landing, Left
    <2>3. Settling(Now, B, M)
      BY <1>1, <2>1 DEF Settling
    <2>4. Now.page = s.page /\ Now.tasks = s.tasks \cup {t} /\ t \notin s.tasks
      BY NowFields DEF Landing, Left
    <2>5. Typed(s) /\ TypedTask(t)
      BY DEF Landing, Left
    <2>q. QED BY <1>5, <2>1, <2>2, <2>3, <2>4, <2>5, OpenLandedDue
  <1>q. QED BY <1>4, <1>5 DEF Landing

LEMMA SyncDue ==
    ASSUME ConvInv, DueInv, NEW s, NEW t, Landing(s, t, SyncLanded(s, t)), t.kind = "sync",
           NEW B \in BOOLEAN, NEW M \in SUBSET Msgs, Due(B, M)
    PROVE  Settling(SyncLanded(s, t), B, M)
  <1>1. /\ M \subseteq Quiets /\ Settling(Now, FALSE, M)
        /\ \A m \in M : \A c \in cache : ~Old(c.items, m)
        /\ (B /\ ~Healed) => ~OldList /\ ListDue(Now)
        /\ B => Failed("sync") = {}
        /\ B => \A c \in cache : c.list = list
    BY DueBefore DEF Landing
  <1>2. Typed(s) /\ TypedTask(t) /\ t \in tasks /\ s.tasks = tasks \ {t} /\ s.cache = cache
    BY DEF Landing, Left
  <1>3. Settling(s, FALSE, M)
    BY <1>1, LeftDue DEF Landing
  <1>4. ASSUME ~t.fresh PROVE Settling(s, B, M)
    <2>1. SyncLanded(s, t).tasks = s.tasks
      BY <1>4 DEF SyncLanded
    <2>2. ~Healed
      BY <1>4, <2>1, NotHealed
    <2>3. Settling(Now, B, M)
      BY <1>1, <2>2 DEF Settling
    <2>q. QED BY <2>3, LeftDue DEF Landing
  <1>5. ASSUME t.fresh, NEW u \in tasks, u.kind = "sync", u.fresh PROVE u = t
    <2>1. SyncTrue(page, Fresh(tasks, "sync"))
      BY NowFields DEF ConvInv, MarksInv, Settled, Good, Marks
    <2>2. t \in Fresh(tasks, "sync") /\ u \in Fresh(tasks, "sync")
      BY <1>2, <1>5 DEF Fresh
    <2>q. QED BY <2>1, <2>2 DEF SyncTrue
  <1>6. t.fresh => NoneLate(s.tasks)
    BY <1>2, <1>5 DEF NoneLate
  <1>7. ASSUME t.fresh, B PROVE t.phase = "answered" /\ (t.list = list \/ s.page.syncAgain)
    <2>1. t \notin tasks'
      BY <1>2, <1>7, LandedGone DEF Landing, Becomes
    <2>2. t.phase = "answered"
      BY <1>1, <1>2, <1>7, <2>1 DEF Failed, Landing
    <2>3. Healed => t.list = list
      BY <1>5, <1>7 DEF Healed
    <2>4. ListDue(Now) => (t.list = list \/ page.syncAgain)
      BY <1>2, <1>7, <2>2, NowFields DEF ListDue, IsLate
    <2>q. QED BY <1>1, <1>7, <2>2, <2>3, <2>4 DEF Landing, Left
  <1>8. \A c \in s.cache : (B => c.list = list) /\ \A m \in M : ~Old(c.items, m)
    BY <1>1, <1>2
  <1>9. t.phase \in {"answered", "failed"}
    BY DEF Landing
  <1>10. ListComes(s, t, B, M)
    BY <1>3, <1>4, <1>6, <1>7, <1>8 DEF ListComes
  <1>q. QED BY <1>2, <1>9, <1>10, SyncLandedDue

\* What is due before an answer lands that is neither the chat's nor its list.
LEMMA RestDue ==
    ASSUME DueInv, NEW s, NEW t, NEW r, Landing(s, t, r), s.tasks \subseteq r.tasks,
           t.kind \notin {"open", "sync"},
           NEW B \in BOOLEAN, NEW M \in SUBSET Msgs, Due(B, M)
    PROVE  /\ Settling(s, B, M)
           /\ B => ~OldList
           /\ \A m \in M : ~OldVersion(m)
  <1>1. /\ M \subseteq Quiets /\ Settling(Now, FALSE, M)
        /\ \A m \in M : ~OldVersion(m)
        /\ (B /\ ~Healed) => ~OldList /\ ListDue(Now)
    BY DueBefore DEF Landing
  <1>2. ~Healed
    BY NotHealed
  <1>3. Settling(Now, B, M)
    BY <1>1, <1>2 DEF Settling
  <1>4. Settling(s, B, M)
    BY <1>3, LeftDue DEF Landing
  <1>q. QED BY <1>1, <1>2, <1>4

LEMMA OneDue ==
    ASSUME ConvInv, DueInv, NEW s, NEW t, Landing(s, t, OneLanded(s, t)), t.kind = "one",
           NEW B \in BOOLEAN, NEW M \in SUBSET Msgs, Due(B, M)
    PROVE  Settling(OneLanded(s, t), B, M)
  <1>1. /\ Typed(s) /\ TypedTask(t) /\ t \in tasks /\ s.tasks = tasks \ {t} /\ s.page = page
        /\ ToSet(RowIds(s.page.rows)) \subseteq Used
    BY DEF Landing, Left
  <1>2. s.tasks \subseteq OneLanded(s, t).tasks
    BY <1>1, LandsStay
  <1>3. Settling(s, B, M) /\ \A m \in M : ~OldVersion(m)
    BY <1>2, RestDue
  <1>4. ~t.fresh => \A m \in M : ~Old(t.items, m)
    BY <1>1, <1>3 DEF OldVersion
  <1>5. ASSUME t.fresh
        PROVE  OneRead(t) /\ \A u \in Fresh(s.tasks, "one") : t.ids \cap u.ids = {}
    <2>1. t \in Fresh(tasks, "one") /\ \A u \in Fresh(s.tasks, "one") : u \in Fresh(tasks, "one") /\ u # t
      BY <1>1, <1>5 DEF Fresh
    <2>2. OneTrue(page, Fresh(tasks, "one"))
      BY NowFields DEF ConvInv, MarksInv, Settled, Good, Marks
    <2>3. OneRead(t)
      BY <2>1, NowFields DEF DueInv, DueNow, Settling
    <2>4. ASSUME NEW u \in Fresh(s.tasks, "one") PROVE t.ids \cap u.ids = {}
      <3>1. PICK a : t.ids = {a}
        BY <2>1, <2>2 DEF OneTrue
      <3>2. PICK b : u.ids = {b}
        BY <2>1, <2>2 DEF OneTrue
      <3>3. t.ids # u.ids
        BY <2>1, <2>2 DEF OneTrue
      <3>q. QED BY <3>1, <3>2, <3>3
    <2>q. QED BY <2>3, <2>4
  <1>6. ASSUME t.fresh, NEW m \in M \cap t.ids
        PROVE  /\ t.phase = "answered" /\ m \in Ids
               /\ Old(t.items, m) => m \in s.page.refreshAgain
    <2>1. t \notin tasks'
      BY <1>1, <1>6, LandedGone DEF Landing, Becomes
    <2>2. m \in Ids /\ m \notin crossed' /\ m \in Quiets
      <3>1. m \in Quiets'
        BY DEF Due
      <3>2. M \subseteq Quiets
        BY DueBefore DEF Landing
      <3>q. QED BY <3>1, <3>2 DEF Quiets
    <2>3. t.phase # "failed"
      <3>1. t.phase = "failed" => t \in Failed("one")
        BY <1>1, <2>1 DEF Failed
      <3>q. QED BY <1>6, <2>2, <3>1, HistoryTexts DEF Landing
    <2>4. open
      BY DEF Due, Landing
    <2>5. TextDue(Now, m)
      BY <2>2, <2>4 DEF DueInv, DueNow, Settling
    <2>6. Old(t.items, m) => m \in page.refreshAgain
      BY <1>1, <1>6, <2>5, NowFields DEF TextDue, Fresh
    <2>q. QED BY <1>1, <2>2, <2>3, <2>6 DEF Landing
  <1>q. QED BY <1>1, <1>3, <1>4, <1>5, <1>6, OneLandedDue

LEMMA LandDue ==
    ASSUME ConvInv, DueInv, NEW t \in tasks, Lands(t), behind' \in BOOLEAN,
           NEW B \in BOOLEAN, NEW M \in SUBSET Msgs, Due(B, M)
    PROVE  Settling(Now, B, M)'
  <1>1. PICK s : s = [Now EXCEPT !.tasks = @ \ {t}]
    OBVIOUS
  <1>2. Left(s, t)
    BY <1>1, LeftIs
  <1>3. PICK r : /\ Becomes(r)
                 /\ r = CASE t.kind = "open"   -> OpenLanded(s, t)
                          [] t.kind = "sync"   -> SyncLanded(s, t)
                          [] t.kind = "fill"   -> FillLanded(s, t)
                          [] t.kind = "absorb" -> AbsorbLanded(s, t)
                          [] t.kind = "one"    -> OneLanded(s, t)
                          [] t.kind = "send"   -> SendLanded(s, t)
                          [] t.kind = "remove" -> RemoveLanded(s, t)
                          [] t.kind = "act"    -> ActLanded(s, t)
    BY <1>1 DEF Lands
  <1>4. t.phase \in {"answered", "failed"} /\ UNCHANGED <<list, ver, events, open>> /\ History
    BY DEF Lands, coreVars
  <1>5. t.kind \in {"open", "sync", "fill", "absorb", "one", "send", "remove", "act"}
    BY <1>2 DEF Left, TypedTask, Task, Lands
  <1>6. Typed(s) /\ TypedTask(t)
    BY <1>2 DEF Left
  <1>7. LandsAs(s, t, r) /\ IsState(r)
    <2>1. (t.kind = "sync" /\ t.fresh) => NoneLate(s.tasks)
      <3> SUFFICES ASSUME t.kind = "sync", t.fresh, NEW u \in s.tasks, u.kind = "sync", u.fresh PROVE FALSE
        BY DEF NoneLate
      <3>1. t \in Fresh(tasks, "sync") /\ u \in Fresh(tasks, "sync") /\ u # t
        BY <1>2 DEF Fresh, Left
      <3>2. SyncTrue(page, Fresh(tasks, "sync"))
        BY NowFields DEF ConvInv, MarksInv, Settled, Good, Marks
      <3>q. QED BY <3>1, <3>2 DEF SyncTrue
    <2>2. LandsAs(s, t, r)
      <3>1. CASE t.kind \in {"open", "sync", "fill", "absorb"}
        BY <1>3, <1>4, <1>6, <2>1, <3>1, OpenLandsAs, SyncLandsAs, FillLandsAs, AbsorbLandsAs
      <3>2. CASE t.kind \in {"one", "send", "remove", "act"}
        BY <1>3, <1>4, <1>6, <3>2, OneLandsAs, SendLandsAs, RemoveLandsAs, ActLandsAs
      <3>q. QED BY <1>5, <3>1, <3>2
    <2>3. Typed(r)
      BY <2>2 DEF LandsAs, Quiet, Rowed, Loads, Places, Drops, Syncs, Reloaded
    <2>q. QED BY <2>2, <2>3, TypedIs
  <1>8. Landing(s, t, r)
    BY <1>2, <1>3, <1>4, <1>7 DEF Landing
  <1>9. CASE t.kind \in {"open", "sync", "one"}
    <2>1. Settling(r, B, M)
      BY <1>3, <1>8, <1>9, OpenDue, SyncDue, OneDue
    <2>q. QED BY <1>3, <1>4, <1>7, <2>1, BecomesDue
  <1>10. CASE t.kind \notin {"open", "sync", "one"}
    <2>1. s.tasks \subseteq r.tasks
      BY <1>3, <1>5, <1>6, <1>10, LandsStay
    <2>2. Settling(s, B, M) /\ (B => ~OldList) /\ \A m \in M : ~OldVersion(m)
      BY <1>8, <1>10, <2>1, RestDue
    <2>3. \A m \in M : ~Old(t.items, m)
      BY <1>10, <2>2 DEF OldVersion
    <2>4. (t.kind = "send" /\ B /\ t.phase = "answered") => t.ids \subseteq Ids
      BY <2>2 DEF OldList
    <2>5. (t.kind = "remove" /\ t.phase = "answered") => t.ids \cap Ids = {}
      <3>1. Gone \cap Ids = {}
        BY DEF ConvInv, RowsInv, Numbered
      <3>2. IsGone(t) => t.ids \subseteq Gone
        BY <1>6, OfTasks
      <3>q. QED BY <3>1, <3>2 DEF IsGone
    <2>6. ToSet(RowIds(s.page.rows)) \subseteq Used
      BY <1>2 DEF Left
    <2>7. Settling(r, B, M)
      <3>1. CASE t.kind = "fill"
        BY <1>3, <1>6, <2>2, <2>3, <3>1, FillLandedDue
      <3>2. CASE t.kind = "absorb"
        BY <1>3, <1>6, <2>2, <2>3, <3>2, FilledSetDue DEF AbsorbLanded
      <3>3. CASE t.kind = "send"
        BY <1>3, <1>4, <1>6, <2>2, <2>3, <2>4, <3>3, SendLandedDue
      <3>4. CASE t.kind = "remove"
        BY <1>3, <1>4, <1>6, <2>2, <2>5, <3>4, RemoveLandedDue
      <3>5. CASE t.kind = "act"
        BY <1>3, <1>6, <2>2, <2>6, <3>5, ActLandedDue
      <3>q. QED BY <1>5, <1>10, <3>1, <3>2, <3>3, <3>4, <3>5
    <2>q. QED BY <1>3, <1>4, <1>7, <2>7, BecomesDue
  <1>q. QED BY <1>9, <1>10

\* An event is taken off: what it told of is told of no more.
LEMMA TailTells ==
    ASSUME EventsTyped, HandleEvent
    PROVE  /\ ListTold => ListTold' \/ Head(events).kind # "state"
           /\ LostTold => LostTold' \/ Head(events).kind = "lost"
           /\ \A m : ToldOf(m) => \/ ToldOf(m)'
                                  \/ Head(events).msg = m /\ Head(events).kind \in {"changed", "state"}
  <1>1. PICK E : E = [kind : {"list", "changed", "state", "lost"}, msg : Msgs]
    OBVIOUS
  <1>2. events \in Seq(E) /\ events # <<>> /\ events' = Tail(events)
    BY <1>1 DEF EventsTyped, HandleEvent
  <1>3. ASSUME NEW i \in DOMAIN events
        PROVE  events[i] = Head(events) \/ \E j \in DOMAIN events' : events'[j] = events[i]
    <2>1. CASE i = 1
      BY <1>2, <2>1
    <2>2. CASE i # 1
      <3>1. i - 1 \in DOMAIN events' /\ events'[i - 1] = events[i]
        BY <1>2, <2>2
      <3>q. QED BY <3>1
    <2>q. QED BY <2>1, <2>2
  <1>q. QED BY <1>3 DEF ListTold, LostTold, ToldOf

\* refresh_one for an event: with what was due before, and of what it tells.
LEMMA ToldDue ==
    ASSUME ConvInv, NEW s, Typed(s), OneTrue(s.page, Fresh(s.tasks, "one")), s.page.rows = page.rows,
           NEW m \in Msgs, Becomes(RefreshOne(s, m)), UNCHANGED <<list, ver>>, History,
           NEW B \in BOOLEAN, NEW M \in SUBSET Msgs, M \subseteq Quiets', Settling(s, B, M \ {m})
    PROVE  Settling(RefreshOne(s, m), B, M)
  <1>1. ToSet(RowIds(s.page.rows)) \subseteq Used
    BY DEF ConvInv, RowsInv, Numbered, Shown
  <1>2. Settling(RefreshOne(s, m), B, M \ {m})
    BY <1>1, RefreshOneDue
  <1>3. ASSUME m \in M PROVE TextDue(RefreshOne(s, m), m)
    <2>1. ASSUME ~HasRow(s.page.rows, m), NEW t \in Fresh(s.tasks, "one") PROVE ~Old(t.items, m)
      <3>1. RefreshOne(s, m) = s
        BY <2>1 DEF RefreshOne
      <3>2. tasks' = s.tasks /\ page'.rows = s.page.rows
        BY <3>1 DEF Becomes
      <3>3. ~OldVersion(m)'
        BY <1>3, HistoryTexts
      <3>4. Old(t.items, m)' <=> Old(t.items, m)
        BY DEF Old
      <3>q. QED BY <2>1, <3>2, <3>3, <3>4 DEF OldVersion, Fresh
    <2>2. \A t \in Fresh(s.tasks, "one") : OneRead(t)
      BY DEF Settling
    <2>q. QED BY <1>1, <2>1, <2>2, RefreshOneTold
  <1>q. QED BY <1>2, <1>3 DEF Settling

LEMMA EventDue ==
    ASSUME ConvInv, DueInv, HandleEvent, behind' \in BOOLEAN,
           NEW B \in BOOLEAN, NEW M \in SUBSET Msgs, Due(B, M)
    PROVE  Settling(Now, B, M)'
  <1>1. UNCHANGED <<list, ver, open>> /\ History
    BY DEF HandleEvent
  <1>2. Typed(Now) /\ Good(Now) /\ EventsTyped
    BY DEF ConvInv, NowTyped, MarksInv, Settled, RestTyped
  <1>3. OneTrue(Now.page, Fresh(Now.tasks, "one"))
    BY <1>2 DEF Good, Marks
  <1>4. Now.page.syncing \/ NoneLate(Now.tasks)
    BY <1>2 DEF Good, Marks, SyncTrue, Fresh, NoneLate
  <1>5. Head(events).kind \in {"list", "changed", "state", "lost"} /\ Head(events).msg \in Msgs
    <2>1. PICK E : E = [kind : {"list", "changed", "state", "lost"}, msg : Msgs]
      OBVIOUS
    <2>2. events \in Seq(E) /\ events # <<>>
      BY <1>2, <2>1 DEF EventsTyped, HandleEvent
    <2>3. Head(events) \in E
      BY <2>2
    <2>q. QED BY <2>1, <2>3
  <1>6. PICK m \in Msgs : m = Head(events).msg
    BY <1>5
  <1>7. Settling(Now, FALSE, {})
    BY DEF DueInv, DueNow, Settling
  <1>8. CASE ~open
    <2>1. Becomes(Now)
      BY <1>8 DEF HandleEvent
    <2>2. ~B /\ M = {}
      BY <1>1, <1>8 DEF Due
    <2>q. QED BY <1>1, <1>7, <2>1, <2>2, NowFields, BecomesDue
  <1>9. CASE open /\ Head(events).kind = "lost"
    <2>1. Becomes(Reload(Now))
      BY <1>9 DEF HandleEvent
    <2>2. \A c \in cache : B => c.list = list
      BY <1>1, HistoryLists DEF Due
    <2>3. ASSUME NEW c \in cache, NEW k \in M PROVE ~Old(c.items, k)
      <3>1. ~Old(c.items, k)'
        BY <1>1, HistoryTexts DEF Due
      <3>q. QED BY <1>1, <3>1 DEF Old
    <2>4. Settling(Reload(Now), B, M)
      BY <1>2, <2>2, <2>3, NowFields, ReloadDue
    <2>5. IsState(Reload(Now))
      BY <1>2, ReloadIs DEF Reloaded, Typed
    <2>q. QED BY <1>1, <2>1, <2>4, <2>5, BecomesDue
  <1>10. ASSUME Head(events).kind # "lost", NEW k \in M,
                k # m \/ Head(events).kind \notin {"changed", "state"}
         PROVE  k \in Quiets
    <2>1. k \in Ids' /\ k \notin crossed' /\ ~LostTold' /\ ~ToldOf(k)'
      BY DEF Due, Quiets
    <2>2. k \in Ids /\ k \notin crossed
      BY <1>1, <2>1, HistoryTexts DEF Ids
    <2>3. ~LostTold /\ ~ToldOf(k)
      BY <1>2, <1>6, <1>10, <2>1, TailTells
    <2>q. QED BY <2>2, <2>3 DEF Quiets
  <1>11. CASE open /\ Head(events).kind = "list"
    <2>1. Becomes(SyncRows(Now))
      BY <1>11 DEF HandleEvent
    <2>2. Settling(Now, FALSE, M)
      BY <1>10, <1>11 DEF DueInv, DueNow, Settling
    <2>3. Settling(SyncRows(Now), B, M)
      <3>1. Settling(SyncRows(Now), TRUE, M)
        BY <1>2, <1>4, <2>2, SyncRowsDue
      <3>q. QED BY <3>1 DEF Settling
    <2>4. IsState(SyncRows(Now))
      BY <1>2, SyncRowsQuiet DEF Quiet, Typed
    <2>q. QED BY <1>1, <2>1, <2>3, <2>4, BecomesDue
  <1>12. CASE open /\ Head(events).kind = "changed"
    <2>1. PICK s : s = SyncRows(Now)
      OBVIOUS
    <2>2. Becomes(RefreshOne(s, m))
      BY <1>6, <1>12, <2>1 DEF HandleEvent
    <2>3. Settling(Now, FALSE, M \ {m})
      BY <1>10, <1>12 DEF DueInv, DueNow, Settling
    <2>4. Settling(s, TRUE, M \ {m})
      BY <1>2, <1>4, <2>1, <2>3, SyncRowsDue
    <2>5. Settling(s, B, M \ {m})
      BY <2>4 DEF Settling
    <2>6. Typed(s) /\ s.page.rows = page.rows
      BY <1>2, <2>1, SyncRowsQuiet, NowFields DEF Quiet
    <2>7. OneTrue(s.page, Fresh(s.tasks, "one"))
      BY <1>2, <2>1, SyncRowsGood DEF Settled, Good, Marks
    <2>8. Settling(RefreshOne(s, m), B, M)
      BY <1>1, <2>2, <2>5, <2>6, <2>7, ToldDue DEF Due
    <2>9. IsState(RefreshOne(s, m))
      BY <2>6, RefreshOneStays DEF Typed
    <2>q. QED BY <1>1, <2>2, <2>8, <2>9, BecomesDue
  <1>13. CASE open /\ Head(events).kind = "state"
    <2>1. Becomes(RefreshOne(Now, m))
      BY <1>6, <1>13 DEF HandleEvent
    <2>2. tasks \subseteq RefreshOne(Now, m).tasks /\ IsState(RefreshOne(Now, m))
      BY RefreshOneStays, NowFields
    <2>3. ~Healed
      BY <2>1, <2>2 DEF Healed, Becomes
    <2>4. B => ~behind /\ ~ListTold
      BY <1>1, <1>2, <1>13, <2>3, HistoryLists, TailTells DEF Due
    <2>5. Settling(Now, B, M \ {m})
      BY <1>10, <1>13, <2>4 DEF DueInv, DueNow, Settling
    <2>6. Settling(RefreshOne(Now, m), B, M)
      BY <1>1, <1>2, <1>3, <2>1, <2>5, NowFields, ToldDue DEF Due
    <2>q. QED BY <1>1, <2>1, <2>2, <2>6, BecomesDue
  <1>q. QED BY <1>5, <1>8, <1>9, <1>11, <1>12, <1>13

\* A call of the page: neither rows nor the marks of what is due are touched.
LEMMA CallDue ==
    ASSUME DueInv, History, behind' \in BOOLEAN, UNCHANGED <<list, ver, events, open>>,
           NEW q, IsState(q), q.tasks = tasks, q.page.rows = page.rows,
           q.page.syncing = page.syncing, q.page.syncAgain = page.syncAgain,
           q.page.refreshing = page.refreshing, q.page.refreshAgain = page.refreshAgain,
           NEW u, Asked(u), u.kind # "one", Becomes(Started(q, u)),
           NEW B \in BOOLEAN, NEW M \in SUBSET Msgs, Due(B, M)
    PROVE  Settling(Now, B, M)'
  <1>1. PICK r : r = Started(q, u)
    OBVIOUS
  <1>2. IsState(r) /\ r.page = q.page /\ r.tasks = tasks \cup {u} /\ Becomes(r)
    BY <1>1, StartedIs
  <1>3. ~Healed
    BY <1>2 DEF Healed, Becomes
  <1>4. Settling(Now, B, M)
    BY <1>3, DueBefore DEF Settling
  <1>5. OnlyAsks(Now, r)
    BY <1>2, OneMore, NowFields
  <1>6. KeepsLists(Now, r) /\ \A m \in M : KeepsText(Now, r, m)
    BY <1>2, NowFields DEF KeepsLists, KeepsText
  <1>7. Settling(r, B, M)
    BY <1>4, <1>5, <1>6, StillDue
  <1>q. QED BY <1>2, <1>7, BecomesDue

LEMMA AskDue ==
    ASSUME ConvInv, DueInv, NEW i, Ask(i), behind' \in BOOLEAN,
           NEW B \in BOOLEAN, NEW M \in SUBSET Msgs, Due(B, M)
    PROVE  Settling(Now, B, M)'
  <1>1. PICK wanted : wanted = Wanted(i)
    OBVIOUS
  <1>2. IsPage(page) /\ page.rows \in Seq(Row)
    BY TypedIs, NowFields DEF ConvInv, NowTyped
  <1>3. wanted \in SUBSET Msgs
    <2>1. \A k \in DOMAIN page.rows : page.rows[k].id \in Msgs
      BY <1>2, RowIdsAre
    <2>q. QED BY <1>1, <2>1 DEF Wanted
  <1>4. PICK q, u : /\ q = [Now EXCEPT !.page.pending = @ \cup wanted, !.page.fetches = @ + 1]
                    /\ u = NewTask("fill", wanted)
    OBVIOUS
  <1>5. /\ q.page = [page EXCEPT !.pending = @ \cup wanted, !.fetches = @ + 1]
        /\ IsState(q) /\ q.tasks = tasks
    BY <1>4 DEF Now, IsState
  <1>6. /\ q.page.rows = page.rows /\ q.page.syncing = page.syncing
        /\ q.page.syncAgain = page.syncAgain /\ q.page.refreshing = page.refreshing
        /\ q.page.refreshAgain = page.refreshAgain
    BY <1>2, <1>5 DEF IsPage
  <1>7. Asked(u) /\ u.kind = "fill"
    <2>1. Asked(u)
      BY <1>3, <1>4, NewAsked DEF TaskKinds
    <2>q. QED BY <1>4, <2>1, New DEF TaskKinds
  <1>8. Becomes(Started(q, u)) /\ UNCHANGED <<list, ver, events, open>> /\ History
    BY <1>1, <1>4 DEF Ask, coreVars
  <1>q. QED BY <1>5, <1>6, <1>7, <1>8, CallDue

LEMMA SendDue ==
    ASSUME ConvInv, DueInv, Send, behind' \in BOOLEAN,
           NEW B \in BOOLEAN, NEW M \in SUBSET Msgs, Due(B, M)
    PROVE  Settling(Now, B, M)'
  <1>1. IsPage(page)
    BY TypedIs, NowFields DEF ConvInv, NowTyped
  <1>2. PICK q, u : q = [Now EXCEPT !.page.sending = TRUE] /\ u = NewTask("send", {})
    OBVIOUS
  <1>3. q.page = [page EXCEPT !.sending = TRUE] /\ IsState(q) /\ q.tasks = tasks
    BY <1>2 DEF Now, IsState
  <1>4. /\ q.page.rows = page.rows /\ q.page.syncing = page.syncing
        /\ q.page.syncAgain = page.syncAgain /\ q.page.refreshing = page.refreshing
        /\ q.page.refreshAgain = page.refreshAgain
    BY <1>1, <1>3 DEF IsPage
  <1>5. Asked(u) /\ u.kind = "send"
    <2>1. Asked(u)
      BY <1>2, NewAsked DEF TaskKinds
    <2>q. QED BY <1>2, <2>1, New DEF TaskKinds
  <1>6. Becomes(Started(q, u)) /\ UNCHANGED <<list, ver, events, open>> /\ History
    BY <1>2 DEF Send, coreVars
  <1>q. QED BY <1>3, <1>4, <1>5, <1>6, CallDue

LEMMA ReaderDue ==
    ASSUME ConvInv, DueInv, NEW m \in Msgs, RemoveMessage(m) \/ Act(m), behind' \in BOOLEAN,
           NEW B \in BOOLEAN, NEW M \in SUBSET Msgs, Due(B, M)
    PROVE  Settling(Now, B, M)'
  <1>1. PICK kind_ \in {"remove", "act"} :
           /\ Becomes(Started(Now, NewTask(kind_, {m}))) /\ HasRow(page.rows, m)
           /\ UNCHANGED <<list, ver, events, open>> /\ History
    BY DEF RemoveMessage, Act, coreVars
  <1>2. page.rows \in Seq(Row)
    BY TypedIs, NowFields DEF ConvInv, NowTyped
  <1>3. m \in ToSet(RowIds(page.rows))
    BY <1>1, <1>2, RowIdsAre
  <1>4. PICK u : u = NewTask(kind_, {m})
    OBVIOUS
  <1>5. Asked(u) /\ u.kind # "one"
    <2>1. Asked(u)
      BY <1>3, <1>4, NewAsked DEF TaskKinds
    <2>q. QED BY <1>4, <2>1, New DEF TaskKinds
  <1>q. QED BY <1>1, <1>4, <1>5, NowFields, CallDue

\* With no page yet, nothing is due.
LEMMA ShutDue ==
    ASSUME MarksInv', ~open', NEW B \in BOOLEAN, NEW M \in SUBSET Msgs, Due(B, M)
    PROVE  Settling(Now, B, M)'
  <1>1. Now'.tasks = tasks' /\ \A t \in tasks' : t.kind = "prefetch"
    BY DEF Now, MarksInv, Unopened
  <1>2. Fresh(tasks', "one") = {}
    BY <1>1 DEF Fresh
  <1>3. ~B /\ M = {}
    BY DEF Due
  <1>q. QED BY <1>1, <1>2, <1>3 DEF Settling

\* Loaded from s, what is prefetched is what is.
LEMMA OpenedDue ==
    ASSUME ConvInv, DueInv, ~open, NEW s, s = [page |-> page, tasks |-> s.tasks, cache |-> s.cache],
           s.tasks \subseteq tasks, TypedCache(s.cache),
           \A c \in s.cache \ cache : \E t \in tasks : /\ t.kind = "prefetch" /\ t.fresh
                                                       /\ t.phase = "answered"
                                                       /\ c = [list |-> t.list, items |-> t.items],
           Opened(s), UNCHANGED <<list, ver, events>>, History, behind' \in BOOLEAN,
           NEW B \in BOOLEAN, NEW M \in SUBSET Msgs, Due(B, M)
    PROVE  Settling(Now, B, M)'
  <1>1. page = NewPage /\ \A t \in tasks : t.kind = "prefetch"
    BY DEF ConvInv, MarksInv, Unopened
  <1>2. PICK o : o = [s EXCEPT !.page = NewPage]
    OBVIOUS
  <1>3. IsState(o) /\ o.page = page /\ o.tasks = s.tasks /\ o.cache = s.cache
    BY <1>1, <1>2 DEF IsState
  <1>4. Typed(o)
    BY <1>3, NowFields DEF ConvInv, NowTyped, Typed
  <1>5. Becomes(Reload(o)) /\ IsState(Reload(o))
    BY <1>2, <1>4, ReloadIs DEF Opened, Reloaded, Typed
  <1>6. ~Healed
    BY <1>1 DEF Healed
  <1>7. /\ Ids' = Ids /\ (LostTold' <=> LostTold) /\ (ListTold' <=> ListTold)
        /\ \A m : ToldOf(m)' <=> ToldOf(m)
    BY DEF Ids, LostTold, ListTold, ToldOf
  <1>8. ASSUME B PROVE ~OldList /\ \A c \in cache : c.list = list
    <2>1. ~behind /\ ~ListTold
      BY <1>6, <1>7, <1>8, HistoryLists DEF Due
    <2>q. QED BY <2>1 DEF DueInv, OwnLists
  <1>9. ASSUME NEW m \in M PROVE ~OldVersion(m) /\ \A c \in cache : ~Old(c.items, m)
    <2>1. m \in Quiets
      BY <1>7, HistoryTexts DEF Due, Quiets
    <2>q. QED BY <2>1 DEF DueInv, OwnTexts
  <1>10. ASSUME NEW c \in s.cache PROVE (B => c.list = list) /\ \A m \in M : ~Old(c.items, m)
    <2>1. CASE c \in cache
      BY <1>8, <1>9, <2>1
    <2>2. ASSUME NEW t \in tasks, t.kind = "prefetch", t.fresh, t.phase = "answered",
                 c = [list |-> t.list, items |-> t.items]
          PROVE  (B => c.list = list) /\ \A m \in M : ~Old(c.items, m)
      <3>1. c.list = t.list /\ c.items = t.items
        BY <2>2
      <3>2. B => t.list = list
        BY <1>8, <2>2 DEF OldList, Openings
      <3>3. \A m \in M : ~Old(t.items, m)
        BY <1>9, <2>2 DEF OldVersion
      <3>q. QED BY <3>1, <3>2, <3>3
    <2>q. QED BY <2>1, <2>2
  <1>11. Settling(Reload(o), B, M)
    BY <1>3, <1>4, <1>10, ReloadDue
  <1>q. QED BY <1>5, <1>11, BecomesDue

LEMMA OpensDue ==
    ASSUME ConvInv, DueInv, MarksInv', behind' \in BOOLEAN,
           Tap \/ OpenPage \/ \E t \in tasks, listActive \in BOOLEAN : PrefetchLands(t, listActive),
           NEW B \in BOOLEAN, NEW M \in SUBSET Msgs, Due(B, M)
    PROVE  Settling(Now, B, M)'
  <1>1. (\A t \in tasks : TypedTask(t)) /\ TypedCache(cache)
    BY NowFields DEF ConvInv, NowTyped, Typed
  <1>2. CASE ~open'
    BY <1>2, ShutDue
  <1>3. CASE Tap
    BY <1>3, ShutDue DEF Tap
  <1>4. CASE OpenPage
    <2>1. Opened(Now) /\ ~open /\ UNCHANGED <<list, ver, events>> /\ History
      BY <1>4 DEF OpenPage, coreVars
    <2>2. Now = [page |-> page, tasks |-> Now.tasks, cache |-> Now.cache]
      BY DEF Now
    <2>q. QED BY <1>1, <2>1, <2>2, NowFields, OpenedDue
  <1>5. ASSUME NEW t \in tasks, NEW listActive \in BOOLEAN, PrefetchLands(t, listActive)
        PROVE  Settling(Now, B, M)'
    <2>1. PICK x : x = [list |-> t.list, items |-> t.items]
      OBVIOUS
    <2>2. PICK held, s : /\ held = IF t.phase = "failed" THEN cache ELSE {x}
                         /\ s = [page |-> page, tasks |-> tasks \ {t},
                                 cache |-> IF t.fresh THEN held ELSE cache]
      OBVIOUS
    <2>3. /\ t.kind = "prefetch" /\ t.phase \in {"answered", "failed"} /\ (listActive => ~open)
          /\ IF t.fresh /\ listActive THEN Opened(s) ELSE Becomes(s) /\ UNCHANGED open
          /\ UNCHANGED <<list, ver, events>> /\ History
      BY <1>5, <2>1, <2>2 DEF PrefetchLands, coreVars
    <2>4. IsState(s) /\ s.page = page /\ s.tasks = tasks \ {t}
      BY <2>2 DEF IsState
    <2>5. CASE t.fresh /\ listActive
      <3>1. ~open /\ Opened(s) /\ s = [page |-> page, tasks |-> s.tasks, cache |-> s.cache]
        BY <2>2, <2>3, <2>5
      <3>2. TypedCache({x})
        <4>1. t.list \in Seq(Msgs) /\ IsInjective(t.list) /\ t.items \in [Msgs -> Nat]
          BY <1>1 DEF TypedTask, Task
        <4>q. QED BY <2>1, <4>1 DEF TypedCache, Cached
      <3>3. TypedCache(s.cache) /\ (s.cache # cache => t.phase = "answered" /\ s.cache = {x})
        BY <1>1, <2>2, <2>3, <3>2
      <3>q. QED BY <2>1, <2>3, <2>4, <2>5, <3>1, <3>3, OpenedDue
    <2>6. CASE ~(t.fresh /\ listActive) /\ open'
      <3>1. Becomes(s) /\ UNCHANGED <<list, ver, events, open>>
        BY <2>3, <2>6
      <3>2. tasks' = tasks \ {t}
        BY <2>4, <3>1 DEF Becomes
      <3>3. ~Healed
        BY <2>3, <3>2 DEF Healed
      <3>4. Settling(Now, B, M)
        BY <2>3, <3>1, <3>3, DueBefore DEF Settling
      <3>5. Settling(s, B, M)
        BY <2>3, <2>4, <3>4, NowFields, OffDue
      <3>q. QED BY <2>4, <3>1, <3>5, BecomesDue
    <2>q. QED BY <1>2, <2>5, <2>6
  <1>q. QED BY <1>3, <1>4, <1>5

-----------------------------------------------------------------------------
(* What is due holds: steps of the core *)

\* The core takes task t on, to u.
Proceeds(t, u) ==
    /\ t.phase \in Unanswered /\ u.kind = t.kind /\ u.fresh = t.fresh
    /\ IsLate(u) => u.list = list'
    /\ u.kind = "one" => /\ u.ids = t.ids
                         /\ \/ u.items = t.items /\ u.phase # "answered"
                            \/ u.items = Items(u.ids) /\ UNCHANGED <<list, ver>>

TasksProceed ==
    /\ \A u \in tasks' : u \in tasks \/ \E t \in tasks : Proceeds(t, u)
    /\ \A t \in tasks \ tasks' : t.phase \in Unanswered /\ \E u \in tasks' : u.kind = t.kind

\* What the core changes, an event tells of.
Tells ==
    /\ ListTold => ListTold'
    /\ list' # list => ListTold'
    /\ Used \subseteq Used' /\ (Ids' \cap Used) \subseteq Ids
    /\ \A m \in Quiets' : m \notin Used \/ (m \in Quiets /\ ver'[m] = ver[m])

LEMMA CoreDue ==
    ASSUME ConvInv, DueInv, MarksInv', UNCHANGED <<open, page, cache>>, History, behind' \in BOOLEAN,
           Tells, TasksProceed,
           NEW B \in BOOLEAN, NEW M \in SUBSET Msgs, Due(B, M)
    PROVE  Settling(Now, B, M)'
  <1>1. Now'.page = page /\ Now'.tasks = tasks' /\ Now.page = page /\ Now.tasks = tasks
    BY DEF Now
  <1>2. CASE ~open'
    <2>1. Settling(Now, B, M)'
      BY <1>2, ShutDue
    <2>q. QED BY <2>1
  <1>3. CASE open'
    <2>1. ver \in [Msgs -> Nat] /\ (\A m \in Ids : ver[m] # 0) /\ \A t \in tasks : TypedTask(t)
      BY NowFields DEF ConvInv, NowTyped, Typed
    <2>2. OpensIn(tasks) => OpensIn(tasks')
      BY DEF OpensIn, TasksProceed
    <2>3. ASSUME NEW u \in Fresh(tasks', "one"), u \notin tasks
          PROVE  \E t \in Fresh(tasks, "one") :
                    /\ u.ids = t.ids
                    /\ \/ u.items = t.items /\ u.phase # "answered"
                       \/ u.items = Items(u.ids) /\ UNCHANGED <<list, ver>>
      BY <2>3 DEF Fresh, TasksProceed, Proceeds
    <2>4. \A t \in Fresh(tasks, "one") : OneRead(t)
      BY <1>1 DEF DueInv, DueNow, Settling
    <2>5. ASSUME NEW u \in Fresh(tasks', "one") PROVE OneRead(u)'
      <3>1. CASE u \in tasks
        <4>1. OneRead(u)
          BY <2>4, <3>1 DEF Fresh
        <4>2. u.ids \cap Ids' \subseteq Ids
          BY <4>1 DEF OneRead, Tells
        <4>q. QED BY <4>1, <4>2 DEF OneRead, Tells
      <3>2. CASE u \notin tasks
        <4>1. PICK t \in Fresh(tasks, "one") :
                    /\ u.ids = t.ids
                    /\ \/ u.items = t.items /\ u.phase # "answered"
                       \/ u.items = Items(u.ids) /\ UNCHANGED <<list, ver>>
          BY <2>3, <3>2
        <4>2. u.ids \subseteq Used'
          BY <2>4, <4>1 DEF OneRead, Tells
        <4>3. CASE u.items = t.items /\ u.phase # "answered"
          BY <2>4, <4>1, <4>2, <4>3 DEF OneRead
        <4>4. CASE u.items = Items(u.ids) /\ UNCHANGED <<list, ver>>
          <5>1. Ids' = Ids
            BY <4>4 DEF Ids
          <5>2. Ids \subseteq Msgs
            BY DEF Ids, ConvInv, RowsInv, Numbered, Lists, Used
          <5>3. /\ \A m \in Msgs : u.items[m] # 0 => m \in u.ids
                /\ \A m \in u.ids \cap Ids : u.items[m] # 0
            BY <2>1, <4>4, <5>2 DEF Items
          <5>q. QED BY <4>2, <5>1, <5>3 DEF OneRead
        <4>q. QED BY <4>1, <4>3, <4>4
      <3>q. QED BY <3>1, <3>2
    <2>6. ASSUME NEW m \in M, m \in Quiets, ver'[m] = ver[m] PROVE TextDue(Now, m)'
      <3>1. TextDue(Now, m)
        BY <1>3, <2>6 DEF DueInv, DueNow, Settling
      <3>2. Says(page.rows, m) => Says(page.rows, m)'
        BY <2>6 DEF Says
      <3>3. ASSUME NEW u \in Fresh(tasks', "one"), Old(u.items, m)' PROVE m \in page.refreshAgain
        <4>1. Old(u.items, m)
          BY <2>6, <3>3 DEF Old
        <4>2. \A t \in Fresh(tasks, "one") : Old(t.items, m) => m \in page.refreshAgain
          BY <1>1, <3>1 DEF TextDue
        <4>3. u.items # Items(u.ids)
          BY <2>1, <4>1 DEF Items, Old
        <4>4. \E t \in Fresh(tasks, "one") : u.items = t.items
          BY <2>3, <4>3 DEF Fresh
        <4>q. QED BY <4>1, <4>2, <4>4
      <3>q. QED BY <1>1, <2>2, <3>1, <3>2, <3>3 DEF TextDue
    <2>7. ASSUME NEW m \in M, m \notin Used PROVE TextDue(Now, m)'
      <3>1. page.rows \in Seq(Row) /\ Shown \subseteq Used
        BY <1>1, TypedIs DEF ConvInv, NowTyped, RowsInv, Numbered
      <3>2. \A row \in ToSet(page.rows) : row.id # m
        <4>1. ~HasRow(page.rows, m)
          BY <2>7, <3>1, RowIdsAre DEF Shown
        <4>q. QED BY <4>1 DEF HasRow, ToSet
      <3>3. Says(page.rows, m)'
        BY <3>2 DEF Says
      <3>4. ASSUME NEW u \in Fresh(tasks', "one") PROVE u.items[m] = 0
        <4>1. CASE u \in tasks
          BY <2>4, <2>7, <4>1 DEF OneRead, Fresh
        <4>2. CASE u \notin tasks
          <5>1. PICK t \in Fresh(tasks, "one") :
                    /\ u.ids = t.ids
                    /\ \/ u.items = t.items /\ u.phase # "answered"
                       \/ u.items = Items(u.ids) /\ UNCHANGED <<list, ver>>
            BY <2>3, <4>2
          <5>q. QED BY <2>4, <2>7, <5>1 DEF OneRead, Items
        <4>q. QED BY <4>1, <4>2
      <3>q. QED BY <1>1, <3>3, <3>4 DEF TextDue, Old
    <2>8. \A m \in M : TextDue(Now, m)'
      <3> SUFFICES ASSUME NEW m \in M PROVE TextDue(Now, m)'
        OBVIOUS
      <3>1. m \in Quiets'
        BY DEF Due
      <3>q. QED BY <2>6, <2>7, <3>1 DEF Tells
    <2>9. ASSUME B PROVE ListDue(Now)'
      <3>1. ~Healed
        BY DEF Healed, TasksProceed, Unanswered
      <3>2. ~behind /\ ~ListTold /\ list' = list
        BY <2>9, <3>1, HistoryLists DEF Due, Tells
      <3>3. ListDue(Now)
        BY <1>3, <3>2 DEF DueInv, DueNow, Settling
      <3>4. Settles(page.rows) => Settles(page.rows)'
        BY <3>2 DEF Settles, InOrder, NewerThan, Ids
      <3>5. ASSUME NEW u \in tasks', IsLate(u) PROVE u.list = list' \/ page.syncAgain
        <4>1. CASE u \in tasks
          BY <1>1, <3>2, <3>3, <3>5, <4>1 DEF ListDue
        <4>2. CASE u \notin tasks
          BY <3>5, <4>2 DEF TasksProceed, Proceeds
        <4>q. QED BY <4>1, <4>2
      <3>6. \A u : IsLate(u)' <=> IsLate(u)
        BY DEF IsLate
      <3>q. QED BY <1>1, <2>2, <3>3, <3>4, <3>5, <3>6 DEF ListDue
    <2>q. QED BY <1>1, <2>5, <2>8, <2>9 DEF Settling
  <1>q. QED BY <1>2, <1>3

\* An event more is told.
LEMMA TellTells ==
    ASSUME EventsTyped, NEW kind_ \in EventKinds, NEW k \in Msgs, Tell(kind_, k)
    PROVE  /\ ListTold => ListTold'
           /\ kind_ # "state" => ListTold'
           /\ LostTold => LostTold'
           /\ \A m : ToldOf(m) => ToldOf(m)'
           /\ kind_ \in {"changed", "state"} => ToldOf(k)'
  <1>1. PICK E : E = [kind : {"list", "changed", "state", "lost"}, msg : Msgs]
    OBVIOUS
  <1>2. PICK e \in E : e = [kind |-> kind_, msg |-> k]
    BY <1>1 DEF EventKinds
  <1>3. events \in Seq(E) /\ events' = Append(events, e)
    BY <1>1, <1>2 DEF EventsTyped, Tell
  <1>4. PICK n \in Nat : n = Len(events)
    BY <1>3
  <1>5. n + 1 \in DOMAIN events' /\ events'[n + 1] = e
    BY <1>3, <1>4
  <1>6. \A i \in DOMAIN events : i \in DOMAIN events' /\ events'[i] = events[i]
    BY <1>3, <1>4
  <1>7. (ListTold => ListTold') /\ (LostTold => LostTold') /\ \A m : ToldOf(m) => ToldOf(m)'
    BY <1>6 DEF ListTold, LostTold, ToldOf
  <1>8. e.kind = kind_ /\ e.msg = k
    BY <1>2
  <1>q. QED BY <1>5, <1>7, <1>8 DEF ListTold, ToldOf

LEMMA QuietsLeft ==
    ASSUME History, LostTold => LostTold', \A m : ToldOf(m) => ToldOf(m)'
    PROVE  Quiets' \cap Ids \subseteq Quiets
  BY HistoryTexts DEF Quiets

\* Nothing is said or told anew.
LEMMA StillTells == ASSUME UNCHANGED coreVars, History PROVE Tells
  <1>1. UNCHANGED <<list, ver, events>>
    BY DEF coreVars
  <1>2. Ids' = Ids /\ Used' = Used
    BY <1>1 DEF Ids, Used
  <1>3. ListTold' <=> ListTold
    BY <1>1 DEF ListTold
  <1>4. (LostTold' <=> LostTold) /\ \A m : ToldOf(m)' <=> ToldOf(m)
    BY <1>1 DEF LostTold, ToldOf
  <1>5. Quiets' \subseteq Quiets
    <2>1. Quiets' \cap Ids \subseteq Quiets
      BY <1>4, QuietsLeft
    <2>2. Quiets' \subseteq Ids
      BY <1>2 DEF Quiets
    <2>q. QED BY <2>1, <2>2
  <1>q. QED BY <1>1, <1>2, <1>3, <1>5 DEF Tells

\* A message comes, and its event tells of the list.
LEMMA GrownTells ==
    ASSUME NowTyped, EventsTyped, History, Unused # {}, NEW n, n = NextId,
           list' \in Seq(Msgs), NEW at, Inserted(list, at, n, list'), ver' = [ver EXCEPT ![n] = 1],
           NEW kind_ \in {"list", "changed"}, Tell(kind_, n)
    PROVE  Tells
  <1>1. /\ ver' \in [Msgs -> Nat] /\ n \in Msgs \ Used /\ Used' = Used \cup {n}
        /\ ver \in [Msgs -> Nat] /\ list \in Seq(Msgs) /\ IsInjective(list)
    BY Joins DEF NowTyped
  <1>2. Ids \subseteq Used
    BY DEF NowTyped, Used, Ids, ToSet
  <1>3. Ids' = Ids \cup {n}
    <2>1. PICK X \in Seq(Msgs), Y \in Seq(Msgs) : X = list /\ Y = list'
      BY <1>1
    <2>2. IsInjective(X) /\ n \notin ToSet(X) /\ Inserted(X, at, n, Y)
      BY <1>1, <1>2, <2>1 DEF Ids
    <2>3. Joined(X, at, n, Y)
      BY <1>1, <2>2, JoinedOrder
    <2>q. QED BY <2>1, <2>3 DEF Joined, Ids
  <1>4. /\ ListTold' /\ (LostTold => LostTold') /\ \A m : ToldOf(m) => ToldOf(m)'
    BY <1>1, TellTells DEF EventKinds
  <1>5. ASSUME NEW m \in Quiets' PROVE m \notin Used \/ (m \in Quiets /\ ver'[m] = ver[m])
    <2>1. CASE m = n
      BY <1>1, <2>1
    <2>2. CASE m # n
      <3>1. m \in Ids
        BY <1>3, <2>2 DEF Quiets
      <3>2. m \in Quiets
        BY <1>4, <3>1, QuietsLeft
      <3>q. QED BY <1>1, <1>2, <2>2, <3>1, <3>2 DEF Used
    <2>q. QED BY <2>1, <2>2
  <1>6. Used \subseteq Used' /\ (Ids' \cap Used) \subseteq Ids
    BY <1>1, <1>3
  <1>q. QED BY <1>4, <1>5, <1>6 DEF Tells

LEMMA ArrivesTells ==
    ASSUME NowTyped, EventsTyped, NEW at \in 1..(Len(list) + 1), CoreArrives(at)
    PROVE  Tells
  <1>1. PICK n : n = NextId
    OBVIOUS
  <1>2. /\ Unused # {} /\ list' = InsertAt(list, at, n) /\ ver' = [ver EXCEPT ![n] = 1]
        /\ Tell("list", n) /\ History
    BY <1>1 DEF CoreArrives
  <1>3. n \in Msgs /\ list \in Seq(Msgs)
    BY <1>1, <1>2, NextIs DEF NowTyped, Unused
  <1>4. list' \in Seq(Msgs) /\ Inserted(list, at, n, list')
    BY <1>2, <1>3, InsertAtInserts
  <1>q. QED BY <1>1, <1>2, <1>4, GrownTells

LEMMA SendsTell ==
    ASSUME NowTyped, EventsTyped, NEW t \in tasks, NEW phase, CoreSends(t, phase)
    PROVE  Tells
  <1>1. PICK n : n = NextId
    OBVIOUS
  <1>2. /\ Unused # {} /\ list' = Append(list, n) /\ ver' = [ver EXCEPT ![n] = 1]
        /\ Tell("changed", n) /\ History
    BY <1>1 DEF CoreSends
  <1>3. n \in Msgs /\ list \in Seq(Msgs)
    BY <1>1, <1>2, NextIs DEF NowTyped, Unused
  <1>4. list' \in Seq(Msgs) /\ Inserted(list, Len(list) + 1, n, list')
    BY <1>2, <1>3, AppendInserts
  <1>q. QED BY <1>1, <1>2, <1>4, GrownTells

\* What one message says changes, and its event tells of it.
LEMMA ChangedTells ==
    ASSUME NowTyped, EventsTyped, History, UNCHANGED list, NEW m \in Ids,
           ver' = [k \in Msgs |-> IF k \in {m} THEN ver[k] + 1 ELSE ver[k]],
           NEW kind_ \in {"changed", "state"}, Tell(kind_, m)
    PROVE  Tells
  <1>1. m \in Msgs /\ Ids \subseteq Msgs
    BY DEF NowTyped, Ids, ToSet
  <1>2. Used' = Used
    <2>1. {m} \in SUBSET Ids
      OBVIOUS
    <2>q. QED BY <2>1, ChangedUsed
  <1>3. Ids' = Ids
    BY DEF Ids
  <1>4. (LostTold => LostTold') /\ ToldOf(m)' /\ \A k : ToldOf(k) => ToldOf(k)'
    BY <1>1, TellTells DEF EventKinds
  <1>5. ASSUME NEW k \in Quiets' PROVE k \in Quiets /\ ver'[k] = ver[k]
    <2>1. k # m /\ k \in Ids
      BY <1>3, <1>4, <1>5 DEF Quiets
    <2>2. k \in Quiets
      BY <1>4, <2>1, QuietsLeft
    <2>q. QED BY <1>1, <2>1, <2>2
  <1>6. ListTold => ListTold'
    BY <1>1, TellTells DEF EventKinds
  <1>q. QED BY <1>2, <1>3, <1>5, <1>6 DEF Tells

LEMMA ChangesTell ==
    ASSUME NowTyped, EventsTyped, NEW m \in Msgs, NEW kind_ \in {"changed", "state"}, CoreChanges(m, kind_)
    PROVE  Tells
  <1>1. m \in Ids /\ ver' = [ver EXCEPT ![m] = @ + 1] /\ UNCHANGED list /\ Tell(kind_, m) /\ History
    BY DEF CoreChanges
  <1>2. ver' = [k \in Msgs |-> IF k \in {m} THEN ver[k] + 1 ELSE ver[k]]
    BY <1>1 DEF NowTyped
  <1>q. QED BY <1>1, <1>2, ChangedTells

LEMMA ActsTell ==
    ASSUME NowTyped, EventsTyped, NEW t \in tasks, CoreActs(t)
    PROVE  Tells
  <1>1. TypedTask(t) /\ t.kind = "act"
    BY NowFields DEF NowTyped, Typed, CoreActs
  <1>2. PICK m \in Msgs : t.ids = {m}
    BY <1>1 DEF TypedTask
  <1>3. m \in Ids /\ UNCHANGED list /\ Tell("changed", m) /\ History
    BY <1>2 DEF CoreActs
  <1>4. ver' = [k \in Msgs |-> IF k \in {m} THEN ver[k] + 1 ELSE ver[k]]
    BY <1>2 DEF CoreActs
  <1>q. QED BY <1>3, <1>4, ChangedTells

\* The list changes, of the same messages or fewer, and its event tells of it.
LEMMA ListedTells ==
    ASSUME EventsTyped, History, UNCHANGED ver, ToSet(list') \subseteq Ids,
           NEW k \in Msgs, Tell("list", k)
    PROVE  Tells
  <1>1. Ids' \subseteq Ids /\ Used' = Used
    BY DEF Ids, Used
  <1>2. ListTold' /\ (LostTold => LostTold') /\ \A m : ToldOf(m) => ToldOf(m)'
    BY TellTells DEF EventKinds
  <1>3. Quiets' \subseteq Quiets
    <2>1. Quiets' \cap Ids \subseteq Quiets
      BY <1>2, QuietsLeft
    <2>2. Quiets' \subseteq Ids
      BY <1>1 DEF Quiets
    <2>q. QED BY <2>1, <2>2
  <1>q. QED BY <1>1, <1>2, <1>3 DEF Tells

LEMMA DeletesTell == ASSUME NowTyped, EventsTyped, NEW m \in Msgs, CoreDeletes(m) PROVE Tells
  <1>1. list' = Only(list, Ids \ {m}) /\ UNCHANGED ver /\ Tell("list", m) /\ History
    BY DEF CoreDeletes
  <1>2. ToSet(list') \subseteq Ids
    BY <1>1, OnlyOrder DEF NowTyped, Ids
  <1>q. QED BY <1>1, <1>2, ListedTells

LEMMA MovesTell == ASSUME NowTyped, EventsTyped, CoreMoves PROVE Tells
  <1>1. Tell("list", list[Len(list)]) /\ UNCHANGED ver /\ History
    BY DEF CoreMoves
  <1>2. ToSet(list') \subseteq Ids
    BY MovesOn DEF MovedStep
  <1>3. list[Len(list)] \in Msgs
    BY DEF NowTyped, CoreMoves
  <1>q. QED BY <1>1, <1>2, <1>3, ListedTells

LEMMA RemovesTell == ASSUME NowTyped, EventsTyped, NEW t \in tasks, CoreRemoves(t) PROVE Tells
  <1>1. /\ list' = Only(list, Ids \ t.ids) /\ UNCHANGED ver /\ History /\ t.kind = "remove"
        /\ IF t.ids \cap Ids # {} THEN Tell("list", CHOOSE m \in t.ids : TRUE) ELSE UNCHANGED events
    BY DEF CoreRemoves
  <1>2. list \in Seq(Msgs) /\ IsInjective(list) /\ TypedTask(t)
    BY NowFields DEF NowTyped, Typed
  <1>3. CASE t.ids \cap Ids # {}
    <2>1. PICK m \in Msgs : t.ids = {m}
      BY <1>1, <1>2 DEF TypedTask
    <2>2. Tell("list", m)
      BY <1>1, <1>3, <2>1
    <2>3. ToSet(list') \subseteq Ids
      BY <1>1, <1>2, OnlyOrder DEF Ids
    <2>q. QED BY <1>1, <2>2, <2>3, ListedTells
  <1>4. CASE t.ids \cap Ids = {}
    <2>1. \A i \in DOMAIN list : list[i] \in Ids \ t.ids
      BY <1>4 DEF Ids, ToSet
    <2>2. OnlyOf(Msgs, list, Ids \ t.ids, Only(list, Ids \ t.ids))
      BY <1>2, OnlyIs
    <2>3. list' = list
      BY <1>1, <2>1, <2>2 DEF OnlyOf
    <2>4. UNCHANGED coreVars
      BY <1>1, <1>4, <2>3 DEF coreVars
    <2>q. QED BY <1>1, <2>4, StillTells
  <1>q. QED BY <1>3, <1>4

\* Events are lost, and that is told.
LEMMA LosesTell == ASSUME NEW restart, CoreLosesEvents(restart) PROVE Tells
  <1>1. PICK e : e.kind = "lost" /\ events' = <<e>> /\ UNCHANGED <<list, ver>>
    BY DEF CoreLosesEvents
  <1>2. ListTold' /\ LostTold'
    BY <1>1 DEF ListTold, LostTold
  <1>3. Ids' = Ids /\ Used' = Used
    BY <1>1 DEF Ids, Used
  <1>4. Quiets' = {}
    BY <1>2 DEF Quiets
  <1>q. QED BY <1>2, <1>3, <1>4 DEF Tells

LEMMA SameProceed == ASSUME UNCHANGED tasks PROVE TasksProceed
  BY DEF TasksProceed

LEMMA AnswerProceeds ==
    ASSUME NEW t \in tasks, NEW u, Answer(t, u), Proceeds(t, u)
    PROVE  TasksProceed
  <1>1. \A v \in tasks' : v \in tasks \/ v = u
    BY DEF Answer
  <1>2. \A v \in tasks \ tasks' : v = t
    BY DEF Answer
  <1>3. u \in tasks' /\ u.kind = t.kind /\ t.phase \in Unanswered
    BY DEF Answer, Proceeds
  <1>q. QED BY <1>1, <1>2, <1>3 DEF TasksProceed

LEMMA ListsProceed == ASSUME NowTyped, NEW t \in tasks, CoreLists(t) PROVE TasksProceed
  <1>1. PICK u : /\ Answer(t, u) /\ TypedTask(u) /\ u.list = list /\ u.kind = t.kind
                 /\ u.kind \in {"open", "prefetch", "sync"} /\ u.fresh = t.fresh
    BY ListsTyped
  <1>2. t.phase \in Unanswered /\ UNCHANGED list
    BY DEF CoreLists, Unanswered, coreVars
  <1>q. QED BY <1>1, <1>2, AnswerProceeds DEF Proceeds

LEMMA ReadsProceed == ASSUME NowTyped, NEW t \in tasks, CoreReads(t) PROVE TasksProceed
  <1>1. PICK items, phase : /\ items = Items(t.ids)
                            /\ phase = IF t.kind = "send" /\ t.ids \cap Ids = {} THEN "failed"
                                       ELSE "answered"
    OBVIOUS
  <1>2. PICK u : u = [t EXCEPT !.items = items, !.phase = phase]
    OBVIOUS
  <1>3. Answer(t, u) /\ UNCHANGED <<list, ver>> /\ t.phase \in Unanswered
    BY <1>1, <1>2 DEF CoreReads, coreVars, Unanswered
  <1>4. TypedTask(t)
    BY NowFields DEF NowTyped, Typed
  <1>5. u.kind = t.kind /\ u.fresh = t.fresh /\ u.ids = t.ids /\ u.items = Items(u.ids)
    BY <1>1, <1>2, <1>4 DEF TypedTask, Task
  <1>6. u.kind # "sync"
    BY <1>4, <1>5 DEF CoreReads, TypedTask
  <1>q. QED BY <1>3, <1>5, <1>6, AnswerProceeds DEF Proceeds, IsLate

\* A task fails, or is answered with nothing to bring.
LEMMA PhaseProceeds ==
    ASSUME NEW t, TypedTask(t), t.phase \in Unanswered, NEW phase \in {"answered", "failed"},
           phase = "answered" => t.kind \in {"remove", "act"}
    PROVE  Proceeds(t, [t EXCEPT !.phase = phase])
  <1>1. PICK u : u = [t EXCEPT !.phase = phase]
    OBVIOUS
  <1>2. /\ u.kind = t.kind /\ u.fresh = t.fresh /\ u.ids = t.ids /\ u.items = t.items /\ u.phase = phase
    BY <1>1 DEF TypedTask, Task
  <1>q. QED BY <1>1, <1>2 DEF Proceeds, IsLate

LEMMA CallsProceed ==
    ASSUME NowTyped, NEW t \in tasks, CoreRemoves(t) \/ CoreActs(t) \/ CoreFails(t)
    PROVE  TasksProceed
  <1>1. TypedTask(t)
    BY NowFields DEF NowTyped, Typed
  <1>2. PICK phase \in {"answered", "failed"} :
           /\ Answer(t, [t EXCEPT !.phase = phase]) /\ t.phase \in Unanswered
           /\ phase = "answered" => t.kind \in {"remove", "act"}
    BY DEF CoreRemoves, CoreActs, CoreFails, Unanswered
  <1>q. QED BY <1>1, <1>2, PhaseProceeds, AnswerProceeds

LEMMA SendsProceed ==
    ASSUME NowTyped, NEW t \in tasks, NEW phase, CoreSends(t, phase)
    PROVE  TasksProceed
  <1>1. TypedTask(t) /\ t.kind = "send" /\ t.phase \in Unanswered
    BY NowFields DEF NowTyped, Typed, CoreSends, Unanswered
  <1>2. PICK items : items = IF phase = "made" THEN t.items ELSE [t.items EXCEPT ![NextId] = 1]
    OBVIOUS
  <1>3. PICK u : u = [t EXCEPT !.ids = {NextId}, !.phase = phase, !.items = items]
    OBVIOUS
  <1>4. Answer(t, u)
    <2>1. [t EXCEPT !.ids = {NextId}, !.phase = phase,
                    !.items = IF phase = "made" THEN @ ELSE [@ EXCEPT ![NextId] = 1]] = u
      BY <1>2, <1>3
    <2>q. QED BY <2>1 DEF CoreSends
  <1>5. u.kind = "send" /\ u.fresh = t.fresh
    BY <1>1, <1>3 DEF TypedTask, Task
  <1>q. QED BY <1>1, <1>4, <1>5, AnswerProceeds DEF Proceeds, IsLate

LEMMA LosesProceed ==
    ASSUME NowTyped, NEW restart \in BOOLEAN, CoreLosesEvents(restart)
    PROVE  TasksProceed
  <1>1. CASE ~restart
    BY <1>1, SameProceed DEF CoreLosesEvents
  <1>2. CASE restart
    <2> DEFINE Failing(t) == IF t.phase \in Unanswered THEN [t EXCEPT !.phase = "failed"] ELSE t
    <2>1. tasks' = {Failing(t) : t \in tasks}
      BY <1>2 DEF CoreLosesEvents
    <2>2. ASSUME NEW t \in tasks, t.phase \in Unanswered
          PROVE  Proceeds(t, Failing(t)) /\ Failing(t).kind = t.kind
      <3>1. TypedTask(t)
        BY NowFields DEF NowTyped, Typed
      <3>2. Failing(t) = [t EXCEPT !.phase = "failed"]
        BY <2>2
      <3>3. Proceeds(t, Failing(t))
        BY <2>2, <3>1, <3>2, PhaseProceeds
      <3>q. QED BY <3>3 DEF Proceeds
    <2>3. \A t \in tasks : t.phase \notin Unanswered => Failing(t) = t
      OBVIOUS
    <2> HIDE DEF Failing
    <2>4. ASSUME NEW u \in tasks' PROVE u \in tasks \/ \E t \in tasks : Proceeds(t, u)
      <3>1. PICK t \in tasks : u = Failing(t)
        BY <2>1
      <3>q. QED BY <2>2, <2>3, <3>1
    <2>5. ASSUME NEW t \in tasks \ tasks' PROVE t.phase \in Unanswered /\ \E u \in tasks' : u.kind = t.kind
      <3>1. Failing(t) \in tasks'
        BY <2>1
      <3>q. QED BY <2>2, <2>3, <3>1
    <2>q. QED BY <2>4, <2>5 DEF TasksProceed
  <1>q. QED BY <1>1, <1>2

-----------------------------------------------------------------------------
(* What is due holds: every step *)

LEMMA AloneDue ==
    ASSUME ConvInv, DueInv, MarksInv', behind' \in BOOLEAN,
           \/ \E at \in 1..(Len(list) + 1) : CoreArrives(at)
           \/ \E m \in Msgs, kind_ \in {"changed", "state"} : CoreChanges(m, kind_)
           \/ \E m \in Msgs : CoreDeletes(m)
           \/ CoreMoves
           \/ \E restart \in BOOLEAN : CoreLosesEvents(restart),
           NEW B \in BOOLEAN, NEW M \in SUBSET Msgs, Due(B, M)
    PROVE  Settling(Now, B, M)'
  <1> NowTyped /\ EventsTyped
    BY DEF ConvInv, RestTyped
  <1>1. Tells
    BY ArrivesTells, ChangesTell, DeletesTell, MovesTell, LosesTell
  <1>2. TasksProceed
    <2>1. CASE \E restart \in BOOLEAN : CoreLosesEvents(restart)
      BY <2>1, LosesProceed
    <2>2. CASE UNCHANGED tasks
      BY <2>2, SameProceed
    <2>q. QED BY <2>1, <2>2 DEF CoreArrives, CoreChanges, CoreDeletes, CoreMoves, pageVars
  <1>3. UNCHANGED <<open, page, cache>> /\ History
    BY DEF CoreArrives, CoreChanges, CoreDeletes, CoreMoves, CoreLosesEvents, pageVars
  <1>q. QED BY <1>1, <1>2, <1>3, CoreDue

LEMMA AnswersDue ==
    ASSUME ConvInv, DueInv, MarksInv', behind' \in BOOLEAN, NEW t \in tasks,
           \/ CoreLists(t) \/ CoreReads(t) \/ CoreRemoves(t) \/ CoreActs(t) \/ CoreFails(t)
           \/ \E phase \in {"made", "answered"} : CoreSends(t, phase),
           NEW B \in BOOLEAN, NEW M \in SUBSET Msgs, Due(B, M)
    PROVE  Settling(Now, B, M)'
  <1> NowTyped /\ EventsTyped
    BY DEF ConvInv, RestTyped
  <1>1. UNCHANGED <<open, page, cache>> /\ History
    BY DEF CoreLists, CoreReads, CoreRemoves, CoreActs, CoreFails, CoreSends
  <1>2. Tells
    <2>1. CASE CoreLists(t) \/ CoreReads(t) \/ CoreFails(t)
      BY <1>1, <2>1, StillTells DEF CoreLists, CoreReads, CoreFails
    <2>q. QED BY <2>1, RemovesTell, ActsTell, SendsTell
  <1>3. TasksProceed
    BY ListsProceed, ReadsProceed, CallsProceed, SendsProceed
  <1>q. QED BY <1>1, <1>2, <1>3, CoreDue

LEMMA PagesDue ==
    ASSUME ConvInv, DueInv, behind' \in BOOLEAN,
           \/ HandleEvent \/ Hydrate \/ Send
           \/ \E i \in DOMAIN page.rows : Scroll(i)
           \/ \E m \in Msgs : RemoveMessage(m) \/ Act(m)
           \/ \E t \in tasks : Lands(t),
           NEW B \in BOOLEAN, NEW M \in SUBSET Msgs, Due(B, M)
    PROVE  Settling(Now, B, M)'
  <1>1. Hydrate => \E i : Ask(i)
    BY DEF Hydrate
  <1>2. \A i : Scroll(i) => Ask(i)
    BY DEF Scroll
  <1>q. QED BY <1>1, <1>2, EventDue, AskDue, SendDue, ReaderDue, LandDue

\* One step, with what is due after it.
LEMMA NextDue ==
    ASSUME ConvInv, DueInv, MarksInv', behind' \in BOOLEAN, Next,
           NEW B \in BOOLEAN, NEW M \in SUBSET Msgs, Due(B, M)
    PROVE  Settling(Now, B, M)'
  <1>1. ASSUME NEW t \in tasks,
               \/ CoreLists(t) \/ CoreReads(t) \/ CoreRemoves(t) \/ CoreActs(t) \/ CoreFails(t)
               \/ \E phase \in {"made", "answered"} : CoreSends(t, phase)
        PROVE  Settling(Now, B, M)'
    BY <1>1, AnswersDue
  <1>2. ASSUME Tap \/ OpenPage \/ \E t \in tasks, listActive \in BOOLEAN : PrefetchLands(t, listActive)
        PROVE  Settling(Now, B, M)'
    BY <1>2, OpensDue
  <1>3. ASSUME \/ HandleEvent \/ Hydrate \/ Send
               \/ \E i \in DOMAIN page.rows : Scroll(i)
               \/ \E m \in Msgs : RemoveMessage(m) \/ Act(m)
               \/ \E t \in tasks : Lands(t)
        PROVE  Settling(Now, B, M)'
    BY <1>3, PagesDue
  <1>4. ASSUME \/ \E at \in 1..(Len(list) + 1) : CoreArrives(at)
               \/ \E m \in Msgs, kind_ \in {"changed", "state"} : CoreChanges(m, kind_)
               \/ \E m \in Msgs : CoreDeletes(m)
               \/ CoreMoves
               \/ \E restart \in BOOLEAN : CoreLosesEvents(restart)
        PROVE  Settling(Now, B, M)'
    BY <1>4, AloneDue
  <1>5. CASE System
    BY <1>1, <1>2, <1>3, <1>5 DEF System
  <1>6. CASE Others
    BY <1>2, <1>3, <1>4, <1>6 DEF Others
  <1>q. QED BY <1>5, <1>6 DEF Next

LEMMA SameDue == ASSUME ConvInv, DueInv, UNCHANGED vars PROVE DueInv'
  <1>1. UNCHANGED <<list, ver, events, open, page, tasks, cache, behind, crossed>>
    BY DEF vars, coreVars, pageVars, ghostVars
  <1>2. /\ Ids' = Ids /\ (LostTold' <=> LostTold) /\ (ListTold' <=> ListTold)
        /\ \A m : ToldOf(m)' <=> ToldOf(m)
    BY <1>1 DEF Ids, LostTold, ListTold, ToldOf
  <1>3. Quiets' = Quiets
    BY <1>1, <1>2 DEF Quiets
  <1>4. OldList' <=> OldList
    BY <1>1, <1>2 DEF OldList, Openings
  <1>5. \A items, m : Old(items, m)' <=> Old(items, m)
    BY <1>1 DEF Old
  <1>6. \A m : OldVersion(m)' <=> OldVersion(m)
    BY <1>1, <1>5 DEF OldVersion
  <1>7. OwnLists'
    BY <1>1, <1>2, <1>4 DEF DueInv, OwnLists
  <1>8. OwnTexts'
    BY <1>1, <1>3, <1>5, <1>6 DEF DueInv, OwnTexts
  <1>9. DueNow'
    <2>1. PICK B \in BOOLEAN : B = (open /\ ~behind /\ ~ListTold)
      OBVIOUS
    <2>2. PICK M : M = {m \in Quiets : open}
      OBVIOUS
    <2>3. M \in SUBSET Msgs
      BY <2>2 DEF Quiets, Ids, ToSet, ConvInv, NowTyped
    <2>4. Settling(Now, B, M)
      BY <2>1, <2>2 DEF DueInv, DueNow
    <2>5. Becomes(Now)
      BY <1>1, NowFields DEF Becomes
    <2>6. Settling(Now, B, M)'
      BY <1>1, <2>3, <2>4, <2>5, NowFields, BecomesDue
    <2>7. B = (open /\ ~behind /\ ~ListTold)' /\ M = {m \in Quiets : open}'
      BY <1>1, <1>2, <1>3, <2>1, <2>2
    <2>q. QED BY <2>6, <2>7 DEF DueNow
  <1>q. QED BY <1>7, <1>8, <1>9 DEF DueInv

LEMMA DueStep == ConvInv /\ ConvInv' /\ DueInv /\ [Next]_vars => DueInv'
  <1> SUFFICES ASSUME ConvInv, ConvInv', DueInv, [Next]_vars PROVE DueInv'
    OBVIOUS
  <1>1. MarksInv' /\ behind' \in BOOLEAN
    BY DEF ConvInv, RestTyped
  <1>2. CASE Next
    <2>1. History
      BY <1>2, StepOn DEF RestOn
    <2>2. OwnLists' /\ OwnTexts'
      BY <1>1, <2>1, OwnOn
    <2>3. PICK B \in BOOLEAN : B = (open /\ ~behind /\ ~ListTold)'
      OBVIOUS
    <2>4. PICK M : M = {m \in Quiets : open}'
      OBVIOUS
    <2>5. M \in SUBSET Msgs
      BY <2>4 DEF Quiets, Ids, ToSet, ConvInv, NowTyped
    <2>6. Due(B, M)
      BY <2>3, <2>4 DEF Due
    <2>7. Settling(Now, B, M)'
      BY <1>1, <1>2, <2>5, <2>6, NextDue
    <2>8. DueNow'
      BY <2>3, <2>4, <2>7 DEF DueNow
    <2>q. QED BY <2>2, <2>8 DEF DueInv
  <1>3. CASE UNCHANGED vars
    BY <1>3, SameDue
  <1>q. QED BY <1>2, <1>3

LEMMA DueInit == Init => DueInv
  <1> SUFFICES ASSUME Init PROVE DueInv
    OBVIOUS
  <1>1. tasks = {} /\ cache = {} /\ open = FALSE
    BY DEF Init
  <1>2. OwnLists /\ OwnTexts
    BY <1>1 DEF OwnLists, OwnTexts, OldList, OldVersion, Openings
  <1>3. DueNow
    BY <1>1, NowFields DEF DueNow, Settling, Fresh
  <1>q. QED BY <1>2, <1>3 DEF DueInv

LEMMA DueAlways == Spec => []DueInv
  <1>1. Spec => []ConvInv
    BY ConvAlways
  <1>2. Init => DueInv
    BY DueInit
  <1>3. ConvInv /\ ConvInv' /\ DueInv /\ [Next]_vars => DueInv'
    BY DueStep
  <1>q. QED BY <1>1, <1>2, <1>3, PTL DEF Spec

\* Events, reads, sends and removals may cross in any way: once nothing is under way, the
\* rows are the chat's messages in its order, but for rows newer than all of them, and a
\* row that is filled says what its message says now; unless what was read was overtaken
\* by its event, or the read failed (chat.rs, synced, refresh_one).
THEOREM RowsComeToRest == Spec => []RowsSettle
  <1>1. ASSUME ConvInv, DueInv PROVE RowsSettle
    <2> SUFFICES ASSUME AtRest
                 PROVE  /\ ~behind => ListSettled
                        /\ \A i \in DOMAIN page.rows :
                              page.rows[i].id \in Ids \ crossed => RowSettled(page.rows[i])
      BY DEF RowsSettle
    <2>1. open /\ tasks = {} /\ events = <<>>
      BY DEF AtRest
    <2>2. ~ListTold /\ ~LostTold /\ \A m : ~ToldOf(m)
      BY <2>1 DEF ListTold, LostTold, ToldOf
    <2>3. ~page.syncing /\ page.refreshing = {} /\ ~OpensIn(tasks)
      <3>1. SyncTrue(page, Fresh(tasks, "sync")) /\ OneTrue(page, Fresh(tasks, "one"))
        BY <1>1, NowFields DEF ConvInv, MarksInv, Settled, Good, Marks
      <3>2. Fresh(tasks, "sync") = {} /\ Fresh(tasks, "one") = {}
        BY <2>1 DEF Fresh
      <3>3. ~page.syncing
        BY <3>1, <3>2 DEF SyncTrue
      <3>4. page.refreshing = {}
        BY <3>1, <3>2 DEF OneTrue
      <3>q. QED BY <2>1, <3>3, <3>4 DEF OpensIn
    <2>4. page.rows \in Seq(Row)
      BY <1>1, NowFields, TypedIs DEF ConvInv, NowTyped
    <2>5. ASSUME ~behind PROVE ListSettled
      <3>1. Settles(page.rows)
        BY <1>1, <2>1, <2>2, <2>3, <2>5, NowFields DEF DueInv, DueNow, Settling, ListDue
      <3>2. \A m \in Ids : HasRow(page.rows, m)
        BY <2>4, <3>1, RowIdsAre DEF Settles
      <3>q. QED BY <3>1, <3>2 DEF ListSettled, Settles, NewerThan, Ids
    <2>6. ASSUME NEW i \in DOMAIN page.rows, page.rows[i].id \in Ids \ crossed
          PROVE  RowSettled(page.rows[i])
      <3>1. PICK m : m = page.rows[i].id
        OBVIOUS
      <3>2. m \in Quiets
        BY <2>2, <2>6, <3>1 DEF Quiets
      <3>3. Says(page.rows, m)
        BY <1>1, <2>1, <2>3, <3>2, NowFields DEF DueInv, DueNow, Settling, TextDue
      <3>4. page.rows[i] \in ToSet(page.rows)
        BY DEF ToSet
      <3>q. QED BY <3>1, <3>3, <3>4 DEF Says, RowSettled
    <2>q. QED BY <2>5, <2>6
  <1>q. QED BY <1>1, ConvAlways, DueAlways, PTL
==============================================================================
