------------------------- MODULE TranscriptHubProofs -------------------------
(***************************************************************************)
(* Proofs about the queue of transcripts, for every set of messages and    *)
(* profiles, all settings and every budget.                                *)
(***************************************************************************)
EXTENDS TranscriptHub, FiniteSetTheorems, TLAPS

\* Queue q and run hold jobs, each message's once.
Jobs(q, run) == q \subseteq Job /\ (run = NoJob \/ run \in Run)
OneEach(q, run) ==
    \A j \in q : /\ \A k \in q : j.key = k.key => j = k
                 /\ run # NoJob => run.job.key # j.key

Event == [kind : {"message", "deleted"}, msg : Msgs]
         \cup [kind : {"accounts"}, msg : {CHOOSE m \in Msgs : TRUE}]

\* What names messages to be queued.
NamesType ==
    /\ lookups \subseteq Lookup
    /\ events \in Seq(Event)
    /\ profiles \subseteq Profiles

HubInv ==
    /\ Jobs(queue, running) /\ OneEach(queue, running)
    /\ seq \in Nat
    /\ NamesType

\* The kinds of enqueue and the numbers it gives out.
LEMMA SeqCounts ==
    ASSUME seq \in Nat, NEW m, NEW ms \in SUBSET Msgs
    PROVE  SeqAfter(m, ms) \in Nat /\ seq + Cardinality(ms) \in Nat
  <1>1. IsFiniteSet(ms) /\ IsFiniteSet({k \in ms : k >= m})
    BY TranscriptAssumption, FS_Subset
  <1>q. QED BY <1>1, FS_CardinalityType DEF SeqAfter

\* enqueue: what it takes is not running, and moves a job up or adds one.
LEMMA EnqueueKeeps ==
    ASSUME HubInv, NEW ms \in SUBSET Msgs, NEW kind_ \in Kinds,
           \A m \in ms : ~(running # NoJob /\ running.job.key = m)
    PROVE  Jobs(WithJobs(ms, kind_), running) /\ OneEach(WithJobs(ms, kind_), running)
  <1> DEFINE Up(j) == IF j.key \in ms /\ kind_ = "Manual" /\ j.kind # "Manual"
                      THEN [j EXCEPT !.kind = "Manual", !.seq = SeqAfter(j.key, ms)] ELSE j
             New(m) == [key |-> m, kind |-> kind_, seq |-> SeqAfter(m, ms)]
             fresh  == {m \in ms : \A j \in queue : j.key # m}
  <1>1. WithJobs(ms, kind_) = {Up(j) : j \in queue} \cup {New(m) : m \in fresh}
    BY DEF WithJobs
  <1>2. ASSUME NEW j \in queue PROVE Up(j) \in Job /\ Up(j).key = j.key
    BY SeqCounts DEF HubInv, Jobs, Job, Kinds
  <1>3. ASSUME NEW m \in fresh
        PROVE  New(m) \in Job /\ New(m).key = m /\ (running # NoJob => running.job.key # m)
    BY SeqCounts DEF HubInv, Job
  <1> HIDE DEF Up, New
  <1>4. Jobs(WithJobs(ms, kind_), running)
    BY <1>1, <1>2, <1>3 DEF HubInv, Jobs
  <1>5. ASSUME NEW j \in WithJobs(ms, kind_), NEW k \in WithJobs(ms, kind_), j.key = k.key
        PROVE  j = k
    <2>1. \A a, b \in queue : a.key = b.key => a = b
      BY DEF HubInv, OneEach
    <2>q. QED BY <1>1, <1>2, <1>3, <1>5, <2>1
  <1>6. ASSUME NEW j \in WithJobs(ms, kind_), running # NoJob PROVE running.job.key # j.key
    BY <1>1, <1>2, <1>3, <1>6 DEF HubInv, OneEach
  <1>q. QED BY <1>4, <1>5, <1>6 DEF OneEach

\* pump: a job that starts leaves the queue.
LEMMA PumpKeeps ==
    ASSUME NEW q, NEW run, NEW c, Jobs(q, run), OneEach(q, run), ThenPump(q, run, c)
    PROVE  Jobs(queue', running') /\ OneEach(queue', running')
  <1>1. CASE run # NoJob
    <2>1. /\ queue' = q
          /\ running' = run \/ running' = [run EXCEPT !.requeue = TRUE, !.cancel = TRUE]
      BY <1>1 DEF ThenPump, Pump
    <2>2. running' \in Run /\ running'.job = run.job
      BY <1>1, <2>1 DEF Jobs, Run
    <2>q. QED BY <1>1, <2>1, <2>2 DEF Jobs, OneEach
  <1>2. CASE run = NoJob
    <2> DEFINE able  == {j \in q : MayRun(j.kind, c)}
               first == {j \in able : \A k \in able \ {j} : Before(j, k)}
               next  == CHOOSE j \in first : TRUE
    <2>1. queue' = StartNext(q, c).queue /\ running' = StartNext(q, c).running
      BY <1>2 DEF ThenPump, Pump
    <2>2. CASE first = {}
      BY <2>1, <2>2, <1>2 DEF StartNext, Jobs, OneEach
    <2>3. CASE first # {}
      <3>1. /\ queue' = q \ {next}
            /\ running' = [job |-> next, cancel |-> FALSE, requeue |-> FALSE, result |-> "none"]
        BY <2>1, <2>3 DEF StartNext
      <3>2. next \in q
        BY <2>3
      <3> HIDE DEF next
      <3>3. running' \in Run /\ running'.job = next
        BY <3>1, <3>2 DEF Jobs, Run
      <3>q. QED BY <3>1, <3>2, <3>3 DEF Jobs, OneEach
    <2>q. QED BY <2>2, <2>3
  <1>q. QED BY <1>1, <1>2

\* drop_key: the running job stays, told to stop.
LEMMA DropKeeps ==
    ASSUME HubInv, NEW ms
    PROVE  Jobs(Without(ms), Stopped(ms)) /\ OneEach(Without(ms), Stopped(ms))
  <1>1. CASE running = NoJob
    BY <1>1 DEF HubInv, Jobs, OneEach, Without, Stopped
  <1>2. CASE running # NoJob
    <2>1. running \in Run /\ Stopped(ms) \in Run /\ Stopped(ms).job = running.job
      BY <1>2 DEF HubInv, Jobs, Stopped, Run
    <2>q. QED BY <1>2, <2>1 DEF HubInv, Jobs, OneEach, Without
  <1>q. QED BY <1>1, <1>2

\* QueueAll and QueueOne take no message that is running.
LEMMA QueueKeeps ==
    ASSUME HubInv, NEW ms \in SUBSET Msgs, NEW kind_ \in Kinds, QueueAll(ms, kind_) \/ QueueOne(ms, kind_)
    PROVE  Jobs(queue', running') /\ OneEach(queue', running') /\ seq' \in Nat
  <1>1. Taken(ms, kind_) \in SUBSET Msgs
    BY DEF Taken
  <1>2. \A m \in Taken(ms, kind_) : ~(running # NoJob /\ running.job.key = m)
    BY DEF Taken, Accepts
  <1>3. seq' \in Nat
    <2>1. seq + Cardinality(Taken(ms, kind_)) \in Nat
      BY <1>1, SeqCounts DEF HubInv
    <2>q. QED BY <2>1 DEF QueueAll, QueueOne
  <1>4. CASE QueueAll(ms, kind_)
    <2>1. ThenPump(WithJobs(Taken(ms, kind_), kind_), running, conditions)
      BY <1>4 DEF QueueAll
    <2>q. QED BY <1>1, <1>2, <1>3, <2>1, EnqueueKeeps, PumpKeeps
  <1>5. CASE UNCHANGED <<queue, running>>
    BY <1>3, <1>5 DEF HubInv
  <1>q. QED BY <1>4, <1>5 DEF QueueOne

LEMMA HubInit == Init => HubInv
  BY DEF Init, HubInv, Jobs, OneEach, NamesType

\* The core, and its events.
LEMMA HubCore ==
    ASSUME HubInv,
           \/ \E m \in Msgs : \/ \E how \in {"partial", "there"} : CoreArrives(m, how)
                              \/ CoreDownloads(m) \/ CoreDeletes(m)
           \/ \E p \in Profiles : CoreRemoves(p)
    PROVE  HubInv'
  <1>1. UNCHANGED <<queue, running, seq, lookups>> /\ profiles' \subseteq profiles
    BY DEF CoreArrives, CoreDownloads, CoreDeletes, CoreRemoves, hubVars
  <1>2. events' \in Seq(Event)
    <2>1. \E e \in Event : events' = Append(events, e)
      BY DEF CoreArrives, CoreDownloads, CoreDeletes, CoreRemoves, Tell, Event
    <2>q. QED BY <2>1 DEF HubInv, NamesType
  <1>q. QED BY <1>1, <1>2 DEF HubInv, NamesType

LEMMA HandlesTakes ==
    ASSUME HubInv, NEW kind_, Handles(kind_)
    PROVE  events' \in Seq(Event) /\ Head(events) \in Event /\ Head(events).kind = kind_
  BY DEF HubInv, NamesType, Handles

\* Events as they are handled, and what the reader does.
LEMMA HubTouched ==
    ASSUME HubInv,
           \/ Arrived \/ Deleted \/ AccountsChanged
           \/ \E c \in Settings : SetConditions(c)
           \/ \E m \in Views : Transcribe(m) \/ Cancel(m) \/ Watch(m)
           \/ TranscribeChat \/ Connected
    PROVE  HubInv'
  <1>1. CASE Arrived
    <2> DEFINE new == NewLookup("arrived", "known", {Head(events).msg})
    <2>0. /\ Handles("message") /\ lookups' \in {lookups, lookups \cup {new}}
          /\ UNCHANGED <<queue, running, seq, profiles>>
      BY <1>1 DEF Arrived, hubVars
    <2>1. Head(events).msg \in Msgs /\ events' \in Seq(Event)
      BY <2>0, HandlesTakes DEF Event
    <2>2. new \in Lookup
      BY <2>1 DEF NewLookup, Lookup
    <2> HIDE DEF new
    <2>q. QED BY <2>0, <2>1, <2>2 DEF HubInv, NamesType
  <1>2. CASE Deleted
    <2>1. queue' = Without({Head(events).msg}) /\ running' = Stopped({Head(events).msg})
      BY <1>2 DEF Deleted
    <2>2. Jobs(queue', running') /\ OneEach(queue', running')
      BY <2>1, DropKeeps
    <2>3. events' \in Seq(Event) /\ UNCHANGED <<seq, lookups, profiles>>
      BY <1>2, HandlesTakes DEF Deleted
    <2>q. QED BY <2>2, <2>3 DEF HubInv, NamesType
  <1>3. CASE AccountsChanged
    <2>1. NewLookup("accounts", "listing", {}) \in Lookup
      BY DEF NewLookup, Lookup
    <2>2. events' \in Seq(Event)
      BY <1>3, HandlesTakes DEF AccountsChanged
    <2>q. QED BY <1>3, <2>1, <2>2 DEF AccountsChanged, HubInv, NamesType, hubVars
  <1>4. ASSUME NEW goes PROVE Scan(goes) \subseteq Lookup
    BY DEF Scan, NewLookup, Lookup
  <1>5. ASSUME NEW c \in Settings, SetConditions(c) PROVE HubInv'
    <2> DEFINE kept == {j \in queue : Keeps(j.kind, c)}
               run  == IF running # NoJob /\ ~Keeps(running.job.kind, c)
                       THEN Stopped({running.job.key}) ELSE running
    <2>1. ThenPump(kept, run, c)
      BY <1>5 DEF SetConditions
    <2>2. Jobs(kept, run) /\ OneEach(kept, run)
      <3>1. CASE running = NoJob
        BY <3>1 DEF HubInv, Jobs, OneEach
      <3>2. CASE running # NoJob
        <4>1. running \in Run /\ run \in Run /\ run.job = running.job
          BY <3>2 DEF HubInv, Jobs, Stopped, Run
        <4>q. QED BY <3>2, <4>1 DEF HubInv, Jobs, OneEach
      <3>q. QED BY <3>1, <3>2
    <2> HIDE DEF kept, run
    <2>3. Jobs(queue', running') /\ OneEach(queue', running')
      BY <2>1, <2>2, PumpKeeps
    <2>4. /\ \E goes : lookups' = lookups \cup Scan(goes)
          /\ UNCHANGED <<seq, events, profiles>>
      BY <1>5 DEF SetConditions, coreVars
    <2>q. QED BY <2>3, <2>4, <1>4 DEF HubInv, NamesType
  <1>6. ASSUME NEW m \in Views, Transcribe(m) PROVE HubInv'
    <2>1. m \in Msgs /\ "Manual" \in Kinds
      BY TranscriptAssumption DEF Kinds
    <2>2. ~(running # NoJob /\ running.job.key = m) /\ UNCHANGED <<events, profiles>>
      BY <1>6 DEF Transcribe, coreVars
    <2>3. CASE Live(m)
      <3>1. /\ ThenPump(WithJobs({m}, "Manual"), running, conditions)
            /\ seq' = seq + 1 /\ UNCHANGED lookups
        BY <1>6, <2>3 DEF Transcribe
      <3>2. Jobs(WithJobs({m}, "Manual"), running) /\ OneEach(WithJobs({m}, "Manual"), running)
        BY <2>1, <2>2, EnqueueKeeps, {m} \in SUBSET Msgs
      <3>3. Jobs(queue', running') /\ OneEach(queue', running')
        BY <3>1, <3>2, PumpKeeps
      <3>q. QED BY <2>2, <3>1, <3>3 DEF HubInv, NamesType
    <2>4. CASE ~Live(m)
      <3>1. lookups' = lookups \cup {NewLookup("tap", "loading", {m})} /\ UNCHANGED hubVars
        BY <1>6, <2>4 DEF Transcribe
      <3>2. NewLookup("tap", "loading", {m}) \in Lookup
        BY <2>1 DEF NewLookup, Lookup
      <3>q. QED BY <2>2, <3>1, <3>2 DEF HubInv, NamesType, hubVars
    <2>q. QED BY <2>3, <2>4
  <1>7. ASSUME NEW m \in Views, Cancel(m) PROVE HubInv'
    <2>1. queue' = Without({m}) /\ running' = Stopped({m}) /\ UNCHANGED <<seq, lookups, events, profiles>>
      BY <1>7 DEF Cancel, coreVars
    <2>2. Jobs(queue', running') /\ OneEach(queue', running')
      BY <2>1, DropKeeps
    <2>q. QED BY <2>1, <2>2 DEF HubInv, NamesType
  <1>8. ASSUME NEW m \in Views, Watch(m) PROVE HubInv'
    BY <1>8 DEF Watch, HubInv, NamesType, hubVars, coreVars
  <1>9. CASE TranscribeChat
    <2>1. NewLookup("chat", "listing", {}) \in Lookup
      BY DEF NewLookup, Lookup
    <2>q. QED BY <1>9, <2>1 DEF TranscribeChat, HubInv, NamesType, hubVars, coreVars
  <1>10. CASE Connected
    <2>1. NewLookup("sweep", "listing", {}) \in Lookup
      BY DEF NewLookup, Lookup
    <2>2. lookups' \subseteq Lookup
      BY <1>10, <1>4, <2>1 DEF Connected, HubInv, NamesType
    <2>q. QED BY <1>10, <2>2 DEF Connected, HubInv, NamesType, coreVars
  <1>q. QED BY <1>1, <1>2, <1>3, <1>5, <1>6, <1>7, <1>8, <1>9, <1>10

\* Tasks on the runtime.
LEMMA HubTasks ==
    ASSUME HubInv, NEW t \in lookups, Listing(t) \/ Known(t) \/ Loading(t) \/ Fails(t)
    PROVE  HubInv'
  <1>1. UNCHANGED <<queue, running, seq, events, profiles>>
    BY DEF Listing, Known, Loading, Fails, hubVars, coreVars
  <1>2. t \in Lookup /\ t.keys \subseteq Msgs /\ profiles \subseteq Profiles
    BY DEF HubInv, NamesType, Lookup
  <1>3. \/ Ends(t)
        \/ \E u \in Lookup : Becomes(t, u)
    <2>1. CASE Listing(t)
      <3> DEFINE keys == IF Many(t) THEN Voices ELSE {}
      <3>1. Becomes(t, [t EXCEPT !.phase = "known", !.profiles = profiles, !.keys = keys])
        BY <2>1 DEF Listing
      <3>2. keys \in SUBSET Msgs
        BY DEF Voices
      <3>3. [t EXCEPT !.phase = "known", !.profiles = profiles, !.keys = keys] \in Lookup
        BY <1>2, <3>2 DEF Lookup
      <3>q. QED BY <3>1, <3>3
    <2>2. CASE Known(t)
      <3>1. [t EXCEPT !.phase = "answered", !.found = "none"] \in Lookup
        BY <1>2 DEF Lookup
      <3>2. [t EXCEPT !.phase = "loading"] \in Lookup /\ [t EXCEPT !.phase = "answered"] \in Lookup
        BY <1>2 DEF Lookup
      <3>3. [t EXCEPT !.phase = "loading", !.keys = {m \in @ : rows[m] = "none"}] \in Lookup
        BY <1>2 DEF Lookup
      <3>4. [t EXCEPT !.phase = "loading", !.keys = {m \in Msgs : rows'[m] # "none"}] \in Lookup
        BY <1>2 DEF Lookup
      <3>q. QED BY <2>2, <3>1, <3>2, <3>3, <3>4 DEF Known
    <2>3. CASE Loading(t)
      <3> DEFINE found == IF t.keys \subseteq Voices THEN "some" ELSE "none"
      <3>1. [t EXCEPT !.phase = "answered"] \in Lookup
        BY <1>2 DEF Lookup
      <3>2. [t EXCEPT !.phase = "answered", !.found = found] \in Lookup
        BY <1>2 DEF Lookup
      <3>3. [t EXCEPT !.phase = "answered", !.keys = @ \cap Voices] \in Lookup
        BY <1>2 DEF Lookup
      <3>q. QED BY <2>3, <3>1, <3>2, <3>3 DEF Loading
    <2>4. CASE Fails(t)
      <3>1. [t EXCEPT !.phase = "answered", !.found = "error"] \in Lookup
        BY <1>2 DEF Lookup
      <3>q. QED BY <2>4, <3>1 DEF Fails
    <2>q. QED BY <2>1, <2>2, <2>3, <2>4
  <1>4. lookups' \subseteq Lookup
    BY <1>3 DEF Ends, Becomes, HubInv, NamesType
  <1>q. QED BY <1>1, <1>4 DEF HubInv, NamesType

\* Their answers, and those of the speech thread and the store.
LEMMA HubAnswers ==
    ASSUME HubInv,
           \/ \E t \in lookups : ArrivalFound(t) \/ TapFound(t) \/ ManyFound(t) \/ AfterAccounts(t)
           \/ RunEnded \/ Apply \/ ApplyDeleted \/ StorePosts \/ Speech
    PROVE  HubInv'
  <1>1. ASSUME NEW t \in lookups, ArrivalFound(t) PROVE HubInv'
    <2>1. t.keys \in SUBSET Msgs /\ "New" \in Kinds
      BY DEF HubInv, NamesType, Lookup, Kinds
    <2>2. Ends(t) /\ UNCHANGED <<events, profiles>>
      BY <1>1 DEF ArrivalFound, coreVars
    <2>3. QueueOne(t.keys, "New") \/ UNCHANGED <<queue, running, seq>>
      BY <1>1 DEF ArrivalFound
    <2>4. Jobs(queue', running') /\ OneEach(queue', running') /\ seq' \in Nat
      BY <2>1, <2>3, QueueKeeps DEF HubInv
    <2>q. QED BY <2>2, <2>4 DEF HubInv, NamesType, Ends
  <1>2. ASSUME NEW t \in lookups, TapFound(t) PROVE HubInv'
    <2>1. t.keys \in SUBSET Msgs /\ "Manual" \in Kinds
      BY DEF HubInv, NamesType, Lookup, Kinds
    <2>2. Ends(t) /\ UNCHANGED <<events, profiles>>
      BY <1>2 DEF TapFound, coreVars
    <2>3. QueueOne(t.keys, "Manual") \/ UNCHANGED <<queue, running, seq>>
      BY <1>2 DEF TapFound
    <2>4. Jobs(queue', running') /\ OneEach(queue', running') /\ seq' \in Nat
      BY <2>1, <2>3, QueueKeeps DEF HubInv
    <2>q. QED BY <2>2, <2>4 DEF HubInv, NamesType, Ends
  <1>3. ASSUME NEW t \in lookups, ManyFound(t) PROVE HubInv'
    <2>1. t.keys \in SUBSET Msgs /\ t.keys \ Own \in SUBSET Msgs /\ {"Manual", "Backlog"} \subseteq Kinds
      BY DEF HubInv, NamesType, Lookup, Kinds
    <2>2. Ends(t) /\ UNCHANGED <<events, profiles>>
      BY <1>3 DEF ManyFound, coreVars
    <2>3. \/ QueueAll(t.keys, "Manual") \/ QueueAll(t.keys \ Own, "Backlog")
          \/ UNCHANGED <<queue, running, seq>>
      BY <1>3 DEF ManyFound
    <2>4. Jobs(queue', running') /\ OneEach(queue', running') /\ seq' \in Nat
      BY <2>1, <2>3, QueueKeeps DEF HubInv
    <2>q. QED BY <2>2, <2>4 DEF HubInv, NamesType, Ends
  <1>4. ASSUME NEW t \in lookups, AfterAccounts(t) PROVE HubInv'
    <2>1. /\ \E gone : queue' = Without(gone) /\ running' = Stopped(gone)
          /\ Ends(t) /\ UNCHANGED <<seq, events, profiles>>
      BY <1>4 DEF AfterAccounts, coreVars
    <2>2. Jobs(queue', running') /\ OneEach(queue', running')
      BY <2>1, DropKeeps
    <2>q. QED BY <2>1, <2>2 DEF HubInv, NamesType, Ends
  <1>5. CASE RunEnded
    <2> DEFINE q == queue \cup (IF running.result = "cancelled" /\ running.requeue
                               THEN {running.job} ELSE {})
    <2>1. ThenPump(q, NoJob, conditions) /\ running # NoJob /\ UNCHANGED <<seq, lookups, events, profiles>>
      BY <1>5 DEF RunEnded, coreVars
    <2>2. Jobs(q, NoJob) /\ OneEach(q, NoJob)
      BY <2>1 DEF HubInv, Jobs, OneEach, Run
    <2> HIDE DEF q
    <2>3. Jobs(queue', running') /\ OneEach(queue', running')
      BY <2>1, <2>2, PumpKeeps
    <2>q. QED BY <2>1, <2>3 DEF HubInv, NamesType
  <1>6. CASE Apply
    BY <1>6 DEF Apply, HubInv, NamesType, hubVars, coreVars
  <1>7. CASE ApplyDeleted
    BY <1>7 DEF ApplyDeleted, HubInv, NamesType, hubVars, coreVars
  <1>8. CASE StorePosts
    BY <1>8 DEF StorePosts, HubInv, NamesType, hubVars, coreVars
  <1>9. ASSUME NEW result \in {"ok", "failed", "cancelled"}, RunEnds(result) PROVE HubInv'
    <2>1. /\ running # NoJob /\ running' = [running EXCEPT !.result = result]
          /\ UNCHANGED <<queue, seq, lookups, events, profiles>>
      BY <1>9 DEF RunEnds, coreVars
    <2>2. running' \in Run /\ running'.job = running.job
      BY <2>1 DEF HubInv, Jobs, Run
    <2>3. Jobs(queue', running') /\ OneEach(queue', running')
      BY <2>1, <2>2 DEF HubInv, Jobs, OneEach
    <2>q. QED BY <2>1, <2>3 DEF HubInv, NamesType
  <1>q. QED BY <1>1, <1>2, <1>3, <1>4, <1>5, <1>6, <1>7, <1>8, <1>9 DEF Speech

LEMMA HubStep == HubInv /\ [Next]_vars => HubInv'
  <1> SUFFICES ASSUME HubInv, [Next]_vars PROVE HubInv'
    OBVIOUS
  <1>1. CASE UNCHANGED vars
    BY <1>1 DEF HubInv, NamesType, vars, hubVars, coreVars
  <1>2. CASE Environment
    BY <1>2, HubCore, HubTouched DEF Environment
  <1>3. CASE QtThread
    BY <1>3, HubTouched, HubAnswers DEF QtThread
  <1>4. CASE Tasks \/ \E t \in lookups : Fails(t)
    BY <1>4, HubTasks DEF Tasks
  <1>5. CASE StorePosts \/ Speech
    BY <1>5, HubAnswers
  <1>q. QED BY <1>1, <1>2, <1>3, <1>4, <1>5 DEF Next

\* No message is ever transcribed twice at once: whatever taps, arrivals, searches and jobs
\* taken back name it, it has one job, queued or running (enqueue, on_report).
THEOREM OneJob == Spec => []OneJobEach
  <1>1. HubInv => OneJobEach
    BY DEF HubInv, OneEach, OneJobEach
  <1>q. QED BY <1>1, HubInit, HubStep, PTL DEF Spec

-----------------------------------------------------------------------------
(* No message is forgotten *)

\* m has its row, or is gone.
Answered(m) == rows[m] # "none" \/ status[m] = "gone"

\* What the core says, what it tells, and what lookups have learnt of it.
LookupKnows(t) ==
    /\ t.kind \in {"arrived", "tap"} => t.phase # "listing" /\ \E m \in Msgs : t.keys = {m}
    /\ t.kind \in {"sweep", "accounts"} /\ t.phase # "listing" => profiles \subseteq t.profiles
    /\ t.kind = "arrived" /\ t.found # "some" => \A m \in t.keys : Answered(m)

World ==
    /\ status \in [Msgs -> {"absent", "partial", "there", "gone"}]
    /\ rows \in [Msgs -> Rows]
    /\ \A m \in Msgs : ProfileOf[m] \notin profiles => status[m] = "gone"
    /\ \A i \in DOMAIN events : events[i].kind = "deleted" => status[events[i].msg] = "gone"
    /\ \A t \in lookups : LookupKnows(t)
    /\ \A m \in skip : m \in Msgs /\ (m \in Own \/ Answered(m))

\* A run says it was stopped only if told so, and what is wanted is not told so for good.
StopKnown(run, ms) ==
    run # NoJob => /\ run.result = "cancelled" => run.cancel
                   /\ run.job.key \in ms => ~run.cancel \/ run.requeue

\* t will queue m, or give it a row.
Covers(t, m) ==
    /\ m \in t.keys
    /\ \/ t.kind = "tap" /\ conditions.enabled
       \/ t.kind = "arrived" /\ m \notin Own /\ status[m] = "there" /\ Keeps("New", conditions)

Covered(m) == Live(m) \/ Answered(m) \/ m \in refused \/ \E t \in lookups : Covers(t, m)

WantedCovered == \A m \in wanted : m \in Msgs /\ Covered(m)

LostInv == HubInv /\ World /\ StopKnown(running, wanted) /\ WantedCovered

\* pump forgets no job, and stops one only to take it back.
LEMMA PumpLive ==
    ASSUME NEW q, NEW run, NEW c, Jobs(q, run), ThenPump(q, run, c)
    PROVE  /\ \A m : LiveIn(q, run, m) => Live(m)'
           /\ \A ms : StopKnown(run, ms) => StopKnown(running', ms)
  <1>1. CASE run # NoJob
    <2>1. /\ queue' = q
          /\ running' = run \/ running' = [run EXCEPT !.requeue = TRUE, !.cancel = TRUE]
      BY <1>1 DEF ThenPump, Pump
    <2>2. /\ running' \in Run /\ running'.job = run.job
          /\ running'.result = run.result
          /\ running' = run \/ (running'.cancel /\ running'.requeue)
      BY <1>1, <2>1 DEF Jobs, Run
    <2>3. running' # NoJob
      BY <2>2, NoJobAssumption
    <2>q. QED BY <1>1, <2>1, <2>2, <2>3 DEF Live, LiveIn, StopKnown
  <1>2. CASE run = NoJob
    <2> DEFINE able  == {j \in q : MayRun(j.kind, c)}
               first == {j \in able : \A k \in able \ {j} : Before(j, k)}
               next  == CHOOSE j \in first : TRUE
    <2>1. queue' = StartNext(q, c).queue /\ running' = StartNext(q, c).running
      BY <1>2 DEF ThenPump, Pump
    <2>2. CASE first = {}
      BY <2>1, <2>2, <1>2 DEF StartNext, Live, LiveIn, StopKnown
    <2>3. CASE first # {}
      <3>1. /\ queue' = q \ {next}
            /\ running' = [job |-> next, cancel |-> FALSE, requeue |-> FALSE, result |-> "none"]
        BY <2>1, <2>3 DEF StartNext
      <3>2. next \in q
        BY <2>3
      <3> HIDE DEF next
      <3>3. running' \in Run /\ running'.job = next
        BY <3>1, <3>2 DEF Jobs, Run
      <3>4. running' # NoJob /\ ~running'.cancel /\ running'.result = "none"
        BY <3>1, <3>3, NoJobAssumption
      <3>q. QED BY <1>2, <3>1, <3>3, <3>4 DEF Live, LiveIn, StopKnown
    <2>q. QED BY <2>2, <2>3
  <1>q. QED BY <1>1, <1>2

\* enqueue: each of ms has a job, and each that had one has.
LEMMA EnqueueLive ==
    ASSUME HubInv, NEW ms \in SUBSET Msgs, NEW kind_ \in Kinds
    PROVE  /\ \A m \in ms : \E j \in WithJobs(ms, kind_) : j.key = m
           /\ \A k \in queue : \E j \in WithJobs(ms, kind_) : j.key = k.key
  <1> DEFINE Up(j) == IF j.key \in ms /\ kind_ = "Manual" /\ j.kind # "Manual"
                      THEN [j EXCEPT !.kind = "Manual", !.seq = SeqAfter(j.key, ms)] ELSE j
             New(k) == [key |-> k, kind |-> kind_, seq |-> SeqAfter(k, ms)]
             fresh  == {k \in ms : \A j \in queue : j.key # k}
  <1>1. WithJobs(ms, kind_) = {Up(j) : j \in queue} \cup {New(k) : k \in fresh}
    BY DEF WithJobs
  <1>2. \A j \in queue : Up(j).key = j.key
    BY DEF HubInv, Jobs, Job
  <1>3. \A k : New(k).key = k
    OBVIOUS
  <1> HIDE DEF Up, New
  <1>4. ASSUME NEW k \in queue PROVE \E j \in WithJobs(ms, kind_) : j.key = k.key
    BY <1>1, <1>2
  <1>5. ASSUME NEW m \in fresh PROVE \E j \in WithJobs(ms, kind_) : j.key = m
    BY <1>1, <1>3
  <1>q. QED BY <1>4, <1>5

\* enqueue and pump: who had a job has one, and the newly queued too.
LEMMA TakenLive ==
    ASSUME HubInv, NEW ms \in SUBSET Msgs, NEW kind_ \in Kinds,
           \A m \in ms : ~(running # NoJob /\ running.job.key = m),
           ThenPump(WithJobs(ms, kind_), running, conditions)
    PROVE  /\ \A m : m \in ms \/ Live(m) => Live(m)'
           /\ \A ns : StopKnown(running, ns) => StopKnown(running', ns)
  <1>1. Jobs(WithJobs(ms, kind_), running)
    BY EnqueueKeeps
  <1>2. /\ \A m : LiveIn(WithJobs(ms, kind_), running, m) => Live(m)'
        /\ \A ns : StopKnown(running, ns) => StopKnown(running', ns)
    BY <1>1, PumpLive
  <1>3. ASSUME NEW m, m \in ms \/ Live(m) PROVE LiveIn(WithJobs(ms, kind_), running, m)
    <2>1. CASE running # NoJob /\ running.job.key = m
      BY <2>1 DEF LiveIn
    <2>2. CASE m \in ms \/ \E j \in queue : j.key = m
      <3>1. \E j \in WithJobs(ms, kind_) : j.key = m
        BY <2>2, EnqueueLive
      <3>q. QED BY <3>1 DEF LiveIn
    <2>q. QED BY <1>3, <2>1, <2>2 DEF Live, LiveIn
  <1>q. QED BY <1>2, <1>3

\* QueueAll and QueueOne forget no job, and leave one for all that may be queued; what they
\* say is queued is.
LEMMA QueueLive ==
    ASSUME HubInv, StopKnown(running, wanted), NEW ms \in SUBSET Msgs, NEW kind_ \in Kinds,
           QueueAll(ms, kind_) \/ QueueOne(ms, kind_)
    PROVE  /\ \A m : Live(m) => Live(m)'
           /\ Keeps(kind_, conditions) => \A m \in ms : Live(m)'
           /\ \A m \in wanted' : m \in wanted \/ (m \in Msgs /\ Live(m)')
           /\ \A m \in refused : m \in refused' \/ Live(m)'
           /\ StopKnown(running', wanted')
           /\ UNCHANGED rows
  <1> DEFINE taken == Taken(ms, kind_)
  <1>1. /\ taken \in SUBSET Msgs
        /\ \A m \in taken : ~(running # NoJob /\ running.job.key = m)
        /\ Keeps(kind_, conditions) =>
              \A m \in ms : m \in taken \/ (running # NoJob /\ running.job.key = m)
    BY DEF Taken, Accepts
  <1>2. Queued(taken, kind_) \subseteq taken
    BY DEF Queued
  <1>3. kind_ = "Manual" \/ \A m \in taken : m \in Queued(taken, kind_) \/ \E j \in queue : j.key = m
    BY DEF Queued
  <1>4. kind_ = "Manual" => Queued(taken, kind_) = taken
    BY DEF Queued
  <1> HIDE DEF taken
  <1>5. CASE QueueAll(ms, kind_)
    <2>1. /\ ThenPump(WithJobs(taken, kind_), running, conditions)
          /\ wanted' = wanted \cup Queued(taken, kind_) /\ refused' = refused \ Queued(taken, kind_)
          /\ UNCHANGED rows
      BY <1>5 DEF QueueAll, taken
    <2>3. /\ \A m : m \in taken \/ Live(m) => Live(m)'
          /\ \A ns : StopKnown(running, ns) => StopKnown(running', ns)
      BY <1>1, <2>1, TakenLive
    <2>5. StopKnown(running, wanted')
      BY <1>1, <1>2, <2>1 DEF StopKnown
    <2>6. \A m \in ms : Keeps(kind_, conditions) => m \in taken \/ Live(m)
      BY <1>1 DEF Live, LiveIn
    <2>q. QED BY <1>1, <1>2, <2>1, <2>3, <2>5, <2>6
  <1>6. CASE Queued(taken, kind_) = {} /\ UNCHANGED <<queue, running, rows, wanted, refused>>
    <2>1. \A m : Live(m)' = Live(m)
      BY <1>6 DEF Live
    <2>2. \A m \in taken : \E j \in queue : j.key = m
      BY <1>3, <1>4, <1>6
    <2>3. Keeps(kind_, conditions) => \A m \in ms : Live(m)
      BY <1>1, <2>2 DEF Live, LiveIn
    <2>q. QED BY <1>6, <2>1, <2>3
  <1>q. QED BY <1>5, <1>6 DEF QueueOne, taken, wishVars

\* drop_key, for several, drops the jobs of no others.
LEMMA DropLive ==
    ASSUME HubInv, StopKnown(running, wanted), NEW ms, queue' = Without(ms), running' = Stopped(ms)
    PROVE  /\ \A m : m \notin ms /\ Live(m) => Live(m)'
           /\ StopKnown(running', wanted \ ms)
  <1>1. CASE running = NoJob
    BY <1>1 DEF Live, LiveIn, Without, Stopped, StopKnown
  <1>2. CASE running # NoJob
    <2>1. /\ running \in Run /\ running' \in Run /\ running'.job = running.job
          /\ running' # NoJob /\ running'.result = running.result
          /\ running'.job.key \in ms => running'.cancel
          /\ running'.job.key \notin ms => running' = running
      BY <1>2, NoJobAssumption DEF HubInv, Jobs, Stopped, Run
    <2>q. QED BY <1>2, <2>1 DEF Live, LiveIn, Without, StopKnown
  <1>q. QED BY <1>1, <1>2

\* World, as rows and the core go on.
LEMMA WorldKept ==
    ASSUME World,
           status' \in [Msgs -> {"absent", "partial", "there", "gone"}], rows' \in [Msgs -> Rows],
           profiles' \subseteq profiles,
           \A m \in Msgs : Answered(m) => Answered(m)',
           \A m \in Msgs : ProfileOf[m] \notin profiles' => status'[m] = "gone",
           \A i \in DOMAIN events' : events'[i].kind = "deleted" => status'[events'[i].msg] = "gone",
           \A t \in lookups' : t \in lookups \/ LookupKnows(t)',
           \A m \in skip' : m \in skip \/ (m \in Msgs /\ (m \in Own \/ Answered(m)'))
    PROVE  World'
  <1>1. ASSUME NEW t \in lookups PROVE LookupKnows(t)'
    BY <1>1 DEF World, LookupKnows
  <1>2. \A t \in lookups' : LookupKnows(t)'
    BY <1>1
  <1>3. \A m \in skip' : m \in Msgs /\ (m \in Own \/ Answered(m)')
    BY DEF World
  <1>q. QED BY <1>2, <1>3 DEF World

\* An event is handled, or told.
LEMMA EventTaken ==
    ASSUME HubInv, World, NEW kind_, Handles(kind_), UNCHANGED status
    PROVE  /\ \A i \in DOMAIN events' : events'[i].kind = "deleted" => status'[events'[i].msg] = "gone"
           /\ kind_ # "accounts" => Head(events).msg \in Msgs
           /\ kind_ = "deleted" => status[Head(events).msg] = "gone"
  <1>1. events \in Seq(Event) /\ events # <<>> /\ Head(events).kind = kind_ /\ events' = Tail(events)
    BY DEF HubInv, NamesType, Handles
  <1>2. \A i \in DOMAIN events' : i + 1 \in DOMAIN events /\ events'[i] = events[i + 1]
    BY <1>1
  <1>3. Head(events) = events[1] /\ 1 \in DOMAIN events /\ Head(events) \in Event
    BY <1>1
  <1>4. kind_ # "accounts" => Head(events).msg \in Msgs
    BY <1>1, <1>3 DEF Event
  <1>5. kind_ = "deleted" => status[Head(events).msg] = "gone"
    BY <1>1, <1>3 DEF World
  <1>q. QED BY <1>2, <1>4, <1>5 DEF World

LEMMA EventTold ==
    ASSUME HubInv, World, NEW e \in Event, events' = Append(events, e),
           e.kind = "deleted" => status'[e.msg] = "gone",
           \A m \in Msgs : status[m] = "gone" => status'[m] = "gone"
    PROVE  \A i \in DOMAIN events' : events'[i].kind = "deleted" => status'[events'[i].msg] = "gone"
  <1>1. events \in Seq(Event)
    BY DEF HubInv, NamesType
  <1>2. \A i \in DOMAIN events' : \/ i \in DOMAIN events /\ events'[i] = events[i]
                                  \/ events'[i] = e
    BY <1>1
  <1>3. \A i \in DOMAIN events : events[i].kind = "deleted" => events[i].msg \in Msgs
    BY <1>1 DEF Event
  <1>q. QED BY <1>2, <1>3 DEF World

\* What is wanted stays covered, if nothing that covers it goes without having done so.
LEMMA LostKept ==
    ASSUME LostInv, HubInv', World', StopKnown(running', wanted'),
           \A m \in Msgs : Answered(m) => Answered(m)',
           \A m \in wanted' : m \in wanted \/ (m \in Msgs /\ Covered(m)'),
           \A m \in wanted' : Live(m) \/ m \in refused => Covered(m)',
           \A m \in wanted' : \A t \in lookups : Covers(t, m) => Covered(m)'
    PROVE  LostInv'
  <1>1. ASSUME NEW m \in wanted' PROVE m \in Msgs /\ Covered(m)'
    <2>1. CASE m \in wanted
      <3>1. m \in Msgs /\ (Live(m) \/ Answered(m) \/ m \in refused \/ \E t \in lookups : Covers(t, m))
        BY <2>1 DEF LostInv, WantedCovered, Covered
      <3>2. Answered(m)' => Covered(m)'
        BY DEF Covered
      <3>q. QED BY <3>1, <3>2
    <2>q. QED BY <2>1
  <1>q. QED BY <1>1 DEF LostInv, WantedCovered

\* A lookup that goes on covers what it did, unless the settings change.
LEMMA CoversKept ==
    ASSUME World, World', UNCHANGED conditions, NEW m \in Msgs,
           status[m] = "there" => status'[m] \in {"there", "gone"},
           NEW t \in lookups', Covers(t, m)
    PROVE  Covered(m)'
  <1>1. status'[m] = "gone" => Answered(m)'
    BY DEF Answered
  <1>2. CASE status'[m] = "gone"
    BY <1>1, <1>2 DEF Covered
  <1>3. CASE status'[m] # "gone"
    <2>1. Covers(t, m)'
      BY <1>3 DEF Covers
    <2>q. QED BY <2>1 DEF Covered
  <1>q. QED BY <1>2, <1>3

LEMMA LostCore ==
    ASSUME LostInv, HubInv',
           \/ \E m \in Msgs : \/ \E how \in {"partial", "there"} : CoreArrives(m, how)
                              \/ CoreDownloads(m) \/ CoreDeletes(m)
           \/ \E p \in Profiles : CoreRemoves(p)
    PROVE  LostInv'
  <1>1. UNCHANGED <<conditions, queue, running, skip, lookups, rows, wanted, refused>>
    BY DEF CoreArrives, CoreDownloads, CoreDeletes, CoreRemoves, hubVars, ghostVars, wishVars
  <1>2. /\ profiles' \subseteq profiles
        /\ status' \in [Msgs -> {"absent", "partial", "there", "gone"}]
        /\ \A m \in Msgs : status[m] = "gone" => status'[m] = "gone"
        /\ \A m \in Msgs : status[m] = "there" => status'[m] \in {"there", "gone"}
    BY DEF CoreArrives, CoreDownloads, CoreDeletes, CoreRemoves, LostInv, World
  <1>3. \A m \in Msgs : ProfileOf[m] \notin profiles' => status'[m] = "gone"
    BY <1>2, TranscriptAssumption DEF CoreArrives, CoreDownloads, CoreDeletes, CoreRemoves, LostInv, World
  <1>4. \E e \in Event : /\ events' = Append(events, e)
                         /\ e.kind = "deleted" => status'[e.msg] = "gone"
    <2>1. ASSUME NEW m \in Msgs, CoreDownloads(m) \/ \E how \in {"partial", "there"} : CoreArrives(m, how)
          PROVE  events' = Append(events, [kind |-> "message", msg |-> m])
      BY <2>1 DEF CoreArrives, CoreDownloads, Tell
    <2>2. ASSUME NEW m \in Msgs, CoreDeletes(m)
          PROVE  events' = Append(events, [kind |-> "deleted", msg |-> m]) /\ status'[m] = "gone"
      BY <2>2 DEF CoreDeletes, Tell, LostInv, World
    <2>3. ASSUME NEW p \in Profiles, CoreRemoves(p)
          PROVE  events' = Append(events, [kind |-> "accounts", msg |-> CHOOSE m \in Msgs : TRUE])
      BY <2>3 DEF CoreRemoves, Tell
    <2>4. ASSUME NEW m \in Msgs, NEW kind_ \in {"message", "deleted"}
          PROVE  [kind |-> kind_, msg |-> m] \in Event
      BY DEF Event
    <2>5. [kind |-> "accounts", msg |-> CHOOSE m \in Msgs : TRUE] \in Event
      BY DEF Event
    <2>6. CASE \E m \in Msgs : CoreDownloads(m) \/ \E how \in {"partial", "there"} : CoreArrives(m, how)
      <3>1. PICK m \in Msgs : events' = Append(events, [kind |-> "message", msg |-> m])
        BY <2>1, <2>6
      <3>2. [kind |-> "message", msg |-> m] \in Event /\ [kind |-> "message", msg |-> m].kind # "deleted"
        BY <2>4
      <3>q. QED BY <3>1, <3>2
    <2>7. CASE \E m \in Msgs : CoreDeletes(m)
      <3>1. PICK m \in Msgs : events' = Append(events, [kind |-> "deleted", msg |-> m]) /\ status'[m] = "gone"
        BY <2>2, <2>7
      <3>2. [kind |-> "deleted", msg |-> m] \in Event /\ [kind |-> "deleted", msg |-> m].msg = m
        BY <2>4
      <3>q. QED BY <3>1, <3>2
    <2>8. CASE \E p \in Profiles : CoreRemoves(p)
      <3>1. events' = Append(events, [kind |-> "accounts", msg |-> CHOOSE m \in Msgs : TRUE])
        BY <2>3, <2>8
      <3>2. [kind |-> "accounts", msg |-> CHOOSE m \in Msgs : TRUE].kind # "deleted"
        OBVIOUS
      <3>q. QED BY <2>5, <3>1, <3>2
    <2>q. QED BY <2>6, <2>7, <2>8
  <1>5. \A i \in DOMAIN events' : events'[i].kind = "deleted" => status'[events'[i].msg] = "gone"
    BY <1>2, <1>4, EventTold DEF LostInv
  <1>6. \A m \in Msgs : Answered(m) => Answered(m)'
    BY <1>1, <1>2 DEF Answered
  <1>7. World'
    BY <1>1, <1>2, <1>3, <1>5, <1>6, WorldKept DEF LostInv, World
  <1>8. StopKnown(running', wanted')
    BY <1>1 DEF LostInv
  <1>9. \A m : Live(m) \/ m \in refused => Covered(m)'
    BY <1>1 DEF Live, Covered
  <1>10. ASSUME NEW m \in wanted', NEW t \in lookups, Covers(t, m) PROVE Covered(m)'
    <2>1. m \in Msgs
      BY <1>1 DEF LostInv, WantedCovered
    <2>q. QED BY <1>1, <1>2, <1>7, <1>10, <2>1, CoversKept DEF LostInv
  <1>q. QED BY <1>1, <1>6, <1>7, <1>8, <1>9, <1>10, LostKept

\* m arrived, and is looked up, or need not be.
LEMMA LostArrived == ASSUME LostInv, HubInv', Arrived PROVE LostInv'
  <1> DEFINE automatic == Keeps("New", conditions)
  <1>p. PICK m, new, due :
           /\ m = Head(events).msg /\ new = NewLookup("arrived", "known", {m})
           /\ due = IF automatic /\ m \notin Own /\ status[m] = "there" /\ ~Doomed(m) THEN {m} ELSE {}
    OBVIOUS
  <1>1. /\ Handles("message")
        /\ lookups' = IF automatic /\ m \notin skip /\ ~Live(m) THEN lookups \cup {new} ELSE lookups
        /\ wanted' = wanted \cup due /\ refused' = refused \ due
        /\ UNCHANGED <<conditions, queue, running, skip, rows, status, profiles>>
    BY <1>p DEF Arrived, hubVars
  <1>2. /\ m \in Msgs
        /\ \A i \in DOMAIN events' : events'[i].kind = "deleted" => status'[events'[i].msg] = "gone"
    BY <1>p, <1>1, EventTaken DEF LostInv
  <1>3. new.keys = {m} /\ new.kind = "arrived" /\ new.phase = "known" /\ new.found = "some"
    BY <1>p DEF NewLookup
  <1>4. LookupKnows(new)'
    BY <1>2, <1>3 DEF LookupKnows
  <1> HIDE DEF automatic
  <1>5. \A k \in Msgs : Answered(k)' = Answered(k)
    BY <1>1 DEF Answered
  <1>6. \A t \in lookups' : t \in lookups \/ LookupKnows(t)'
    BY <1>1, <1>4
  <1>7. World'
    BY <1>1, <1>2, <1>5, <1>6, WorldKept DEF LostInv, World
  <1>8. StopKnown(running', wanted')
    BY <1>p, <1>1 DEF LostInv, StopKnown, Doomed
  <1>9. \A k : Live(k)' = Live(k)
    BY <1>1 DEF Live
  <1>10. \A k : Live(k) \/ (k \in refused /\ k \notin due) => Covered(k)'
    BY <1>1, <1>9 DEF Covered
  <1>11. ASSUME m \in due PROVE Covered(m)'
    <2>1. automatic /\ m \notin Own /\ status[m] = "there"
      BY <1>p, <1>11
    <2>2. CASE Live(m)
      BY <1>10, <2>2
    <2>3. CASE m \in skip
      <3>1. Answered(m)
        BY <2>1, <2>3 DEF LostInv, World
      <3>q. QED BY <1>2, <1>5, <3>1 DEF Covered
    <2>4. CASE m \notin skip /\ ~Live(m)
      <3>1. new \in lookups'
        BY <1>1, <2>1, <2>4
      <3>2. Keeps("New", conditions)'
        BY <1>1, <2>1 DEF automatic
      <3>3. Covers(new, m)'
        BY <1>1, <1>3, <2>1, <3>2 DEF Covers
      <3>q. QED BY <3>1, <3>3 DEF Covered
    <2>q. QED BY <2>2, <2>3, <2>4
  <1>12. ASSUME NEW k \in wanted', NEW t \in lookups, Covers(t, k) PROVE Covered(k)'
    <2>1. k \in Msgs /\ t \in lookups'
      <3>1. k \in wanted \/ k = m
        BY <1>p, <1>1, <1>12
      <3>q. QED BY <1>1, <1>2, <1>12, <3>1 DEF LostInv, WantedCovered
    <2>q. QED BY <1>1, <1>7, <1>12, <2>1, CoversKept DEF LostInv
  <1>13. \A k \in due : k = m
    BY <1>p
  <1>14. \A k \in wanted' : /\ k \in wanted \/ (k \in Msgs /\ Covered(k)')
                            /\ Live(k) \/ k \in refused => Covered(k)'
    BY <1>1, <1>2, <1>10, <1>11, <1>13
  <1>q. QED BY <1>5, <1>7, <1>8, <1>12, <1>14, LostKept

\* A step that at most adds lookups.
LEMMA LostAdds ==
    ASSUME LostInv, HubInv',
           UNCHANGED <<conditions, queue, running, skip, rows, status, profiles, wanted, refused>>,
           lookups \subseteq lookups',
           \A t \in lookups' : t \in lookups \/ LookupKnows(t)',
           \A i \in DOMAIN events' : events'[i].kind = "deleted" => status'[events'[i].msg] = "gone"
    PROVE  LostInv'
  <1>1. \A m : Answered(m)' = Answered(m)
    BY DEF Answered
  <1>2. World'
    BY <1>1, WorldKept DEF LostInv, World
  <1>3. \A m : Live(m) \/ m \in refused => Covered(m)'
    BY DEF Live, Covered
  <1>4. ASSUME NEW m \in wanted', NEW t \in lookups, Covers(t, m) PROVE Covered(m)'
    <2>1. m \in Msgs /\ t \in lookups'
      BY DEF LostInv, WantedCovered
    <2>q. QED BY <1>2, <1>4, <2>1, CoversKept DEF LostInv
  <1>5. StopKnown(running', wanted')
    BY DEF LostInv
  <1>q. QED BY <1>1, <1>2, <1>3, <1>4, <1>5, LostKept

\* What a lookup of many knows.
LEMMA ManyKnow ==
    ASSUME NEW t, t.kind \in {"scan", "chat"} \/ (t.kind \in {"sweep", "accounts"} /\ t.phase = "listing")
    PROVE  LookupKnows(t)'
  BY DEF LookupKnows

\* A new scan, or none.
LEMMA ScanKnows == ASSUME NEW goes, NEW t \in Scan(goes) PROVE LookupKnows(t)'
  <1>1. t = NewLookup("scan", "listing", {})
    BY DEF Scan
  <1>2. t.kind = "scan"
    BY <1>1 DEF NewLookup
  <1>q. QED BY <1>2, ManyKnow

\* What starts by asking for a list.
LEMMA LostStarts ==
    ASSUME LostInv, HubInv', AccountsChanged \/ TranscribeChat \/ Connected \/ \E m \in Views : Watch(m)
    PROVE  LostInv'
  <1>1. UNCHANGED <<conditions, queue, running, skip, rows, status, profiles, wanted, refused>>
    BY DEF AccountsChanged, TranscribeChat, Connected, Watch, hubVars, coreVars, ghostVars, wishVars
  <1>2. lookups \subseteq lookups'
    BY DEF AccountsChanged, TranscribeChat, Connected, Watch
  <1>3. ASSUME NEW t \in lookups', t \notin lookups PROVE LookupKnows(t)'
    <2>1. \/ t = NewLookup("accounts", "listing", {}) \/ t = NewLookup("chat", "listing", {})
          \/ t = NewLookup("sweep", "listing", {}) \/ \E goes : t \in Scan(goes)
      BY <1>3 DEF AccountsChanged, TranscribeChat, Connected, Watch
    <2>2. ASSUME NEW kind_ \in {"accounts", "chat", "sweep"}, t = NewLookup(kind_, "listing", {})
          PROVE  LookupKnows(t)'
      <3>1. t.kind = kind_ /\ t.phase = "listing"
        BY <2>2 DEF NewLookup
      <3>q. QED BY <3>1, ManyKnow
    <2>q. QED BY <2>1, <2>2, ScanKnows
  <1>4. \A i \in DOMAIN events' : events'[i].kind = "deleted" => status'[events'[i].msg] = "gone"
    <2>1. CASE Handles("accounts")
      BY <1>1, <2>1, EventTaken DEF LostInv
    <2>2. CASE UNCHANGED events
      BY <1>1, <2>2 DEF LostInv, World
    <2>q. QED BY <2>1, <2>2 DEF AccountsChanged, TranscribeChat, Connected, Watch, coreVars
  <1>q. QED BY <1>1, <1>2, <1>3, <1>4, LostAdds

\* A job is dropped together with the wish for it.
LEMMA LostDrops ==
    ASSUME LostInv, HubInv', NEW ms, queue' = Without(ms), running' = Stopped(ms), wanted' = wanted \ ms,
           UNCHANGED <<conditions, lookups, refused, status, profiles>>, World',
           \A m \in Msgs : Answered(m) => Answered(m)'
    PROVE  LostInv'
  <1>1. /\ \A m : m \notin ms /\ Live(m) => Live(m)'
        /\ StopKnown(running', wanted')
    BY DropLive DEF LostInv
  <1>2. \A m \in wanted' : Live(m) \/ m \in refused => Covered(m)'
    BY <1>1 DEF Covered
  <1>3. ASSUME NEW m \in wanted', NEW t \in lookups, Covers(t, m) PROVE Covered(m)'
    <2>1. m \in Msgs /\ t \in lookups' /\ status[m] = status'[m]
      BY DEF LostInv, WantedCovered
    <2>2. status[m] = "there" => status'[m] \in {"there", "gone"}
      BY <2>1
    <2>q. QED BY <1>3, <2>1, <2>2, CoversKept DEF LostInv
  <1>q. QED BY <1>1, <1>2, <1>3, LostKept

LEMMA LostDeleted == ASSUME LostInv, HubInv', Deleted PROVE LostInv'
  <1>p. PICK m : m = Head(events).msg
    OBVIOUS
  <1>1. /\ Handles("deleted")
        /\ queue' = Without({m}) /\ running' = Stopped({m}) /\ wanted' = wanted \ {m}
        /\ skip' = skip \ {m} /\ rows' = [rows EXCEPT ![m] = "none"]
        /\ UNCHANGED <<conditions, lookups, refused, status, profiles>>
    BY <1>p DEF Deleted
  <1>2. /\ m \in Msgs /\ status[m] = "gone"
        /\ \A i \in DOMAIN events' : events'[i].kind = "deleted" => status'[events'[i].msg] = "gone"
    BY <1>p, <1>1, EventTaken DEF LostInv
  <1>3. /\ rows' \in [Msgs -> Rows] /\ \A k \in Msgs : k # m => rows'[k] = rows[k]
    BY <1>1, <1>2 DEF LostInv, World, Rows
  <1>4. \A k \in Msgs : Answered(k) => Answered(k)'
    BY <1>1, <1>2, <1>3 DEF Answered
  <1>5. World'
    BY <1>1, <1>2, <1>3, <1>4, WorldKept DEF LostInv, World
  <1>q. QED BY <1>1, <1>4, <1>5, LostDrops

LEMMA LostCancel == ASSUME LostInv, HubInv', NEW m \in Views, Cancel(m) PROVE LostInv'
  <1>1. /\ queue' = Without({m}) /\ running' = Stopped({m}) /\ wanted' = wanted \ {m}
        /\ UNCHANGED <<conditions, skip, lookups, rows, refused, status, profiles, events>>
    BY DEF Cancel, coreVars
  <1>2. \A k \in Msgs : Answered(k) => Answered(k)'
    BY <1>1 DEF Answered
  <1>3. World'
    BY <1>1, <1>2, WorldKept DEF LostInv, World
  <1>q. QED BY <1>1, <1>2, <1>3, LostDrops

LEMMA LostAccounts == ASSUME LostInv, HubInv', NEW t \in lookups, AfterAccounts(t) PROVE LostInv'
  <1>1. PICK gone : /\ gone = {m \in GoneIn(t.profiles) : Live(m)}
                    /\ queue' = Without(gone) /\ running' = Stopped(gone) /\ wanted' = wanted \ gone
    BY DEF AfterAccounts
  <1>2. /\ lookups' = lookups \ {t} /\ t.kind \in {"sweep", "accounts"}
        /\ UNCHANGED <<conditions, skip, rows, status, profiles, events, refused>>
    BY DEF AfterAccounts, coreVars, Ends
  <1>3. \A k \in Msgs : Answered(k) => Answered(k)'
    BY <1>2 DEF Answered
  <1>4. World'
    BY <1>2, <1>3, WorldKept DEF LostInv, World
  <1>5. /\ \A m : m \notin gone /\ Live(m) => Live(m)'
        /\ StopKnown(running', wanted')
    BY <1>1, DropLive DEF LostInv
  <1>6. \A m \in wanted' : Live(m) \/ m \in refused => Covered(m)'
    BY <1>1, <1>2, <1>5 DEF Covered
  <1>7. ASSUME NEW m \in wanted', NEW u \in lookups, Covers(u, m) PROVE Covered(m)'
    <2>1. m \in Msgs /\ u \in lookups' /\ status[m] = status'[m]
      BY <1>1, <1>2, <1>7 DEF LostInv, WantedCovered, Covers
    <2>2. status[m] = "there" => status'[m] \in {"there", "gone"}
      BY <2>1
    <2>q. QED BY <1>2, <1>4, <1>7, <2>1, <2>2, CoversKept DEF LostInv
  <1>q. QED BY <1>1, <1>3, <1>4, <1>5, <1>6, <1>7, LostKept

LEMMA LostTranscribe == ASSUME LostInv, HubInv', NEW m \in Views, Transcribe(m) PROVE LostInv'
  <1>1. /\ m \in Msgs /\ "Manual" \in Kinds
        /\ conditions.enabled /\ ~(running # NoJob /\ running.job.key = m)
        /\ wanted' = wanted \cup {m} /\ refused' = refused \ {m}
        /\ UNCHANGED <<conditions, skip, rows, status, profiles, events>>
    BY TranscriptAssumption DEF Transcribe, coreVars, hubVars, Kinds
  <1>2. \A k \in Msgs : Answered(k) => Answered(k)'
    BY <1>1 DEF Answered
  <1>3. StopKnown(running, wanted')
    BY <1>1 DEF LostInv, StopKnown
  <1>4. CASE Live(m)
    <2>1. ThenPump(WithJobs({m}, "Manual"), running, conditions) /\ UNCHANGED lookups
      BY <1>4 DEF Transcribe
    <2>2. /\ \A k : k \in {m} \/ Live(k) => Live(k)'
          /\ \A ns : StopKnown(running, ns) => StopKnown(running', ns)
      BY <1>1, <2>1, TakenLive, {m} \in SUBSET Msgs DEF LostInv
    <2>3. World'
      BY <1>1, <1>2, <2>1, WorldKept DEF LostInv, World
    <2>4. \A k : Live(k)' \/ k \in refused' => Covered(k)'
      BY DEF Covered
    <2>5. ASSUME NEW k \in wanted', NEW t \in lookups, Covers(t, k) PROVE Covered(k)'
      <3>1. k \in Msgs /\ t \in lookups'
        BY <1>1, <2>1 DEF LostInv, WantedCovered
      <3>q. QED BY <1>1, <2>3, <2>5, <3>1, CoversKept DEF LostInv
    <2>q. QED BY <1>1, <1>2, <1>3, <2>2, <2>3, <2>4, <2>5, LostKept
  <1>5. CASE ~Live(m)
    <2>1. PICK new : /\ new = NewLookup("tap", "loading", {m})
                     /\ lookups' = lookups \cup {new} /\ UNCHANGED <<queue, running>>
      BY <1>5 DEF Transcribe, hubVars
    <2>2. new.kind = "tap" /\ new.keys = {m} /\ new.phase = "loading"
      BY <2>1 DEF NewLookup
    <2>3. LookupKnows(new)'
      BY <1>1, <2>2 DEF LookupKnows
    <2>4. World'
      BY <1>1, <1>2, <2>1, <2>3, WorldKept DEF LostInv, World
    <2>5. Covers(new, m)'
      BY <1>1, <2>2 DEF Covers
    <2>6. Covered(m)'
      BY <2>1, <2>5 DEF Covered
    <2>7. \A k : Live(k) \/ k \in refused => Covered(k)'
      BY <1>1, <2>1, <2>6 DEF Live, Covered
    <2>8. ASSUME NEW k \in wanted', NEW t \in lookups, Covers(t, k) PROVE Covered(k)'
      <3>1. k \in Msgs /\ t \in lookups'
        BY <1>1, <2>1 DEF LostInv, WantedCovered
      <3>q. QED BY <1>1, <2>4, <2>8, <3>1, CoversKept DEF LostInv
    <2>9. StopKnown(running', wanted')
      BY <1>3, <2>1
    <2>q. QED BY <1>1, <1>2, <2>4, <2>6, <2>7, <2>8, <2>9, LostKept
  <1>q. QED BY <1>4, <1>5

\* Other settings: what is not to be transcribed any more has its job dropped, the rest keeps its
\* job or its lookup.
LEMMA LostSettings == ASSUME LostInv, HubInv', NEW c \in Settings, SetConditions(c) PROVE LostInv'
  <1>1. PICK kept, run :
           /\ kept = {j \in queue : Keeps(j.kind, c)}
           /\ run = IF running # NoJob /\ ~Keeps(running.job.kind, c)
                    THEN Stopped({running.job.key}) ELSE running
           /\ ThenPump(kept, run, c)
    BY DEF SetConditions
  <1>2. /\ conditions' = c /\ wanted' = {m \in wanted : StillWanted(m, c)}
        /\ skip' \subseteq skip /\ lookups \subseteq lookups'
        /\ \A t \in lookups' : t \in lookups \/ \E goes : t \in Scan(goes)
        /\ UNCHANGED <<rows, status, profiles, events, refused>>
    BY DEF SetConditions, coreVars
  <1>3. \A k \in Msgs : Answered(k) => Answered(k)'
    BY <1>2 DEF Answered
  <1>4. World'
    BY <1>2, <1>3, ScanKnows, WorldKept DEF LostInv, World
  <1>5. Jobs(kept, run)
    <2>1. CASE running = NoJob
      BY <1>1, <2>1 DEF LostInv, HubInv, Jobs
    <2>2. CASE running # NoJob
      <3>1. running \in Run /\ Stopped({running.job.key}) \in Run
        BY <2>2 DEF LostInv, HubInv, Jobs, Stopped, Run
      <3>q. QED BY <1>1, <3>1 DEF LostInv, HubInv, Jobs
    <2>q. QED BY <2>1, <2>2
  <1>6. /\ \A m : LiveIn(kept, run, m) => Live(m)'
        /\ \A ns : StopKnown(run, ns) => StopKnown(running', ns)
    BY <1>1, <1>5, PumpLive
  <1>7. ASSUME NEW m \in wanted', running # NoJob, running.job.key = m PROVE run = running
    <2>1. Live(m) /\ StillWanted(m, c)
      BY <1>2, <1>7 DEF Live, LiveIn
    <2>2. Keeps(running.job.kind, c)
      BY <1>7, <2>1 DEF StillWanted, KindOf
    <2>q. QED BY <1>1, <2>2
  <1>8. StopKnown(run, wanted')
    <2>1. CASE run = running
      BY <1>2, <2>1 DEF LostInv, StopKnown
    <2>2. CASE run # running
      <3>1. running # NoJob /\ running \in Run /\ run = [running EXCEPT !.requeue = FALSE, !.cancel = TRUE]
        BY <1>1, <2>2 DEF Stopped, LostInv, HubInv, Jobs
      <3>2. run.job = running.job /\ run.cancel /\ running.job.key \notin wanted'
        BY <1>7, <2>2, <3>1 DEF Run
      <3>q. QED BY <3>2 DEF StopKnown
    <2>q. QED BY <2>1, <2>2
  <1>9. ASSUME NEW m \in wanted', Live(m) PROVE Covered(m)'
    <2>1. Keeps(KindOf(m), c)
      BY <1>2, <1>9 DEF StillWanted
    <2>2. CASE running # NoJob /\ running.job.key = m
      <3>1. run = running
        BY <1>7, <2>2
      <3>2. LiveIn(kept, run, m)
        BY <2>2, <3>1 DEF LiveIn
      <3>q. QED BY <1>6, <3>2 DEF Covered
    <2>3. CASE ~(running # NoJob /\ running.job.key = m)
      <3>1. \E j \in queue : j.key = m
        BY <1>9, <2>3 DEF Live, LiveIn
      <3>2. PICK j \in queue : j.key = m /\ j.kind = KindOf(m)
        BY <2>3, <3>1 DEF KindOf
      <3>3. j \in kept
        BY <1>1, <2>1, <3>2
      <3>4. LiveIn(kept, run, m)
        BY <3>2, <3>3 DEF LiveIn
      <3>q. QED BY <1>6, <3>4 DEF Covered
    <2>q. QED BY <2>2, <2>3
  <1>10. ASSUME NEW m \in wanted', NEW t \in lookups, Covers(t, m) PROVE Covered(m)'
    <2>1. CASE Live(m)
      BY <1>9, <2>1
    <2>2. CASE ~Live(m) /\ Keeps("New", c)
      <3>1. c.enabled
        BY <2>2 DEF Keeps
      <3>2. Covers(t, m)'
        BY <1>2, <1>10, <2>2, <3>1 DEF Covers
      <3>q. QED BY <1>2, <3>2 DEF Covered
    <2>3. CASE ~Live(m) /\ ~Keeps("New", c)
      <3>1. PICK u \in lookups : c.enabled /\ u.kind = "tap" /\ m \in u.keys
        BY <1>2, <2>3 DEF StillWanted
      <3>2. Covers(u, m)'
        BY <1>2, <3>1 DEF Covers
      <3>q. QED BY <1>2, <3>2 DEF Covered
    <2>q. QED BY <2>1, <2>2, <2>3
  <1>11. StopKnown(running', wanted')
    BY <1>6, <1>8
  <1>12. \A m : m \in refused => Covered(m)'
    BY <1>2 DEF Covered
  <1>q. QED BY <1>2, <1>3, <1>4, <1>9, <1>10, <1>11, <1>12, LostKept

\* A task goes on or ends: what it covered it still does, or need not.
LEMMA LostTask ==
    ASSUME LostInv, HubInv', NEW t \in lookups,
           UNCHANGED <<conditions, queue, running, skip, status, profiles, events>>,
           rows' \in [Msgs -> Rows], \A m \in Msgs : Answered(m) => Answered(m)',
           wanted' \subseteq wanted, refused \subseteq refused',
           \A v \in lookups : v = t \/ v \in lookups',
           \A v \in lookups' : v \in lookups \/ LookupKnows(v)',
           \A m \in wanted' : Covers(t, m) => Covered(m)'
    PROVE  LostInv'
  <1>1. World'
    BY WorldKept DEF LostInv, World
  <1>2. \A m : Live(m) \/ m \in refused => Covered(m)'
    BY DEF Live, Covered
  <1>3. ASSUME NEW m \in wanted', NEW v \in lookups, Covers(v, m) PROVE Covered(m)'
    <2>1. CASE v \in lookups'
      <3>1. m \in Msgs /\ status[m] = status'[m]
        BY DEF LostInv, WantedCovered
      <3>2. status[m] = "there" => status'[m] \in {"there", "gone"}
        BY <3>1
      <3>q. QED BY <1>1, <1>3, <2>1, <3>1, <3>2, CoversKept DEF LostInv
    <2>2. CASE v = t
      BY <1>3, <2>2
    <2>q. QED BY <2>1, <2>2
  <1>4. StopKnown(running', wanted')
    BY DEF LostInv, StopKnown
  <1>q. QED BY <1>1, <1>2, <1>3, <1>4, LostKept

\* A task that goes on with the same message covers it as before.
LEMMA GoesOn ==
    ASSUME UNCHANGED <<conditions, status>>, NEW t, NEW u \in lookups', u.kind = t.kind, u.keys = t.keys,
           NEW m, Covers(t, m)
    PROVE  Covered(m)'
  <1>1. Covers(u, m)'
    BY DEF Covers
  <1>q. QED BY <1>1 DEF Covered

LEMMA LostListing == ASSUME LostInv, HubInv', NEW t \in lookups, Listing(t) PROVE LostInv'
  <1>1. /\ UNCHANGED <<conditions, queue, running, skip, status, profiles, events, rows, wanted, refused>>
        /\ t.phase = "listing" /\ t \in Lookup /\ LookupKnows(t)
    BY DEF Listing, hubVars, coreVars, ghostVars, wishVars, LostInv, World, HubInv, NamesType
  <1>2. PICK u : /\ lookups' = (lookups \ {t}) \cup {u}
                 /\ u = [t EXCEPT !.phase = "known", !.profiles = profiles,
                                  !.keys = IF Many(t) THEN Voices ELSE {}]
    BY DEF Listing, Becomes
  <1>3. u.kind = t.kind /\ u.profiles = profiles
    BY <1>1, <1>2 DEF Lookup
  <1>4. t.kind \notin {"arrived", "tap"}
    BY <1>1 DEF LookupKnows
  <1>5. LookupKnows(u)'
    BY <1>1, <1>3, <1>4 DEF LookupKnows
  <1>6. \A m : ~Covers(t, m)
    BY <1>4 DEF Covers
  <1>7. rows' \in [Msgs -> Rows] /\ \A m \in Msgs : Answered(m) => Answered(m)'
    BY <1>1 DEF LostInv, World, Answered
  <1>q. QED BY <1>1, <1>2, <1>5, <1>6, <1>7, LostTask

LEMMA LostKnown == ASSUME LostInv, HubInv', NEW t \in lookups, Known(t) PROVE LostInv'
  <1>1. /\ UNCHANGED <<conditions, queue, running, skip, status, profiles, events, wanted, refused>>
        /\ t.phase = "known" /\ t \in Lookup /\ LookupKnows(t)
    BY DEF Known, hubVars, coreVars, wishVars, LostInv, World, HubInv, NamesType
  <1>2. CASE t.kind = "arrived"
    <2>1. PICK m \in Msgs : t.keys = {m}
      BY <1>1, <1>2 DEF LookupKnows
    <2>2. PICK u : /\ lookups' = (lookups \ {t}) \cup {u}
                   /\ u = IF rows[m] # "none" THEN [t EXCEPT !.phase = "answered", !.found = "none"]
                          ELSE [t EXCEPT !.phase = "loading"]
      BY <1>2, <2>1 DEF Known, Becomes, Many
    <2>3. /\ u.kind = t.kind /\ u.keys = t.keys /\ u.phase # "listing"
          /\ u.found # t.found => rows[m] # "none"
      BY <1>1, <2>2 DEF Lookup
    <2>4. UNCHANGED rows
      BY <1>2 DEF Known, Many
    <2>5. rows' \in [Msgs -> Rows] /\ \A k \in Msgs : Answered(k) => Answered(k)'
      BY <1>1, <2>4 DEF LostInv, World, Answered
    <2>6. LookupKnows(u)'
      BY <1>1, <1>2, <2>1, <2>3, <2>4 DEF LookupKnows, Answered
    <2>7. \A k : Covers(t, k) => Covered(k)'
      BY <1>1, <2>2, <2>3, GoesOn
    <2>q. QED BY <1>1, <2>2, <2>5, <2>6, <2>7, LostTask
  <1>3. CASE Many(t)
    <2>1. PICK u : /\ lookups' = (lookups \ {t}) \cup {u}
                   /\ u = [t EXCEPT !.phase = "loading", !.keys = {m \in @ : rows[m] = "none"}]
      BY <1>3 DEF Known, Becomes, Many
    <2>2. u.kind = t.kind /\ UNCHANGED rows
      BY <1>1, <1>3, <2>1 DEF Known, Many, Lookup
    <2>3. LookupKnows(u)' /\ \A m : ~Covers(t, m)
      BY <1>3, <2>2 DEF Many, LookupKnows, Covers
    <2>4. rows' \in [Msgs -> Rows] /\ \A m \in Msgs : Answered(m) => Answered(m)'
      BY <1>1, <2>2 DEF LostInv, World, Answered
    <2>q. QED BY <1>1, <2>1, <2>3, <2>4, LostTask
  <1>4. CASE t.kind \in {"sweep", "accounts"}
    <2>1. rows' = [m \in Msgs |-> IF m \in GoneIn(t.profiles) THEN "none" ELSE rows[m]]
      BY <1>4 DEF Known, Many
    <2>2. PICK u : /\ lookups' = (lookups \ {t}) \cup {u}
                   /\ u = IF t.kind = "sweep"
                          THEN [t EXCEPT !.phase = "loading", !.keys = {m \in Msgs : rows'[m] # "none"}]
                          ELSE [t EXCEPT !.phase = "answered"]
      BY <1>4 DEF Known, Becomes, Many
    <2>3. u.kind = t.kind /\ u.profiles = t.profiles
      BY <1>1, <2>2 DEF Lookup
    <2>4. profiles \subseteq t.profiles
      BY <1>1, <1>4 DEF LookupKnows
    <2>5. LookupKnows(u)' /\ \A m : ~Covers(t, m)
      BY <1>1, <1>4, <2>3, <2>4 DEF LookupKnows, Covers
    <2>6. rows' \in [Msgs -> Rows]
      BY <2>1 DEF LostInv, World, Rows
    <2>7. ASSUME NEW m \in Msgs, Answered(m) PROVE Answered(m)'
      <3>1. CASE m \in GoneIn(t.profiles)
        BY <1>1, <2>4, <3>1 DEF GoneIn, LostInv, World, Answered
      <3>2. CASE m \notin GoneIn(t.profiles)
        BY <1>1, <2>1, <2>7, <3>2 DEF Answered
      <3>q. QED BY <3>1, <3>2
    <2>q. QED BY <1>1, <2>2, <2>5, <2>6, <2>7, LostTask
  <1>q. QED BY <1>2, <1>3, <1>4 DEF Known

LEMMA LostLoading == ASSUME LostInv, HubInv', NEW t \in lookups, Loading(t) PROVE LostInv'
  <1>1. /\ UNCHANGED <<conditions, queue, running, skip, status, profiles, events, wanted, refused>>
        /\ t.phase = "loading" /\ t \in Lookup /\ LookupKnows(t)
    BY DEF Loading, hubVars, coreVars, ghostVars, wishVars, LostInv, World, HubInv, NamesType
  <1>2. CASE t.kind \in {"arrived", "tap"}
    <2>1. PICK m \in Msgs : t.keys = {m}
      BY <1>1, <1>2 DEF LookupKnows
    <2>2. UNCHANGED rows
      BY <1>2 DEF Loading, Many
    <2>3. rows' \in [Msgs -> Rows] /\ \A k \in Msgs : Answered(k) => Answered(k)'
      BY <1>1, <2>2 DEF LostInv, World, Answered
    <2>4. CASE t.kind = "arrived" /\ ~(t.keys \subseteq Voices)
      <3>1. lookups' = lookups \ {t}
        BY <2>4 DEF Loading, Ends, Many
      <3>2. \A k : ~Covers(t, k)
        BY <2>1, <2>4 DEF Covers, Voices
      <3>q. QED BY <1>1, <2>3, <3>1, <3>2, LostTask
    <2>5. CASE t.kind = "tap" \/ t.keys \subseteq Voices
      <3>1. PICK u : /\ lookups' = (lookups \ {t}) \cup {u}
                     /\ \/ u = [t EXCEPT !.phase = "answered"]
                        \/ /\ t.kind = "tap"
                           /\ u = [t EXCEPT !.phase = "answered",
                                            !.found = IF t.keys \subseteq Voices THEN "some" ELSE "none"]
        BY <1>2, <2>5 DEF Loading, Becomes, Many
      <3>2. /\ u.kind = t.kind /\ u.keys = t.keys /\ u.phase # "listing"
            /\ t.kind = "arrived" => u.found = t.found
        BY <1>1, <3>1 DEF Lookup
      <3>3. LookupKnows(u)'
        BY <1>1, <1>2, <2>1, <2>2, <3>2 DEF LookupKnows, Answered
      <3>4. \A k : Covers(t, k) => Covered(k)'
        BY <1>1, <3>1, <3>2, GoesOn
      <3>q. QED BY <1>1, <2>3, <3>1, <3>3, <3>4, LostTask
    <2>q. QED BY <1>2, <2>4, <2>5
  <1>3. CASE Many(t) \/ t.kind = "sweep"
    <2>1. PICK u : /\ lookups' = (lookups \ {t}) \cup {u}
                   /\ \/ u = [t EXCEPT !.phase = "answered"]
                      \/ u = [t EXCEPT !.phase = "answered", !.keys = @ \cap Voices]
      BY <1>3 DEF Loading, Becomes, Many
    <2>2. u.kind = t.kind /\ u.profiles = t.profiles
      BY <1>1, <2>1 DEF Lookup
    <2>3. LookupKnows(u)' /\ \A m : ~Covers(t, m)
      BY <1>1, <1>3, <2>2 DEF Many, LookupKnows, Covers
    <2>4. rows' \in [Msgs -> Rows] /\ \A m \in Msgs : Answered(m) => Answered(m)'
      <3>1. CASE UNCHANGED rows
        BY <1>1, <3>1 DEF LostInv, World, Answered
      <3>2. CASE rows' = [m \in Msgs |-> IF m \in t.keys /\ status[m] = "gone" THEN "none" ELSE rows[m]]
        BY <1>1, <3>2 DEF LostInv, World, Answered, Rows
      <3>q. QED BY <1>3, <3>1, <3>2 DEF Loading, Many
    <2>q. QED BY <1>1, <2>1, <2>3, <2>4, LostTask
  <1>q. QED BY <1>2, <1>3 DEF Loading

LEMMA LostFails == ASSUME LostInv, HubInv', NEW t \in lookups, Fails(t) PROVE LostInv'
  <1>1. /\ UNCHANGED <<conditions, queue, running, skip, status, profiles, events>>
        /\ t \in Lookup /\ LookupKnows(t)
    BY DEF Fails, hubVars, coreVars, LostInv, World, HubInv, NamesType
  <1>2. CASE t.kind = "tap" \/ Many(t)
    <2>1. PICK u : /\ lookups' = (lookups \ {t}) \cup {u} /\ UNCHANGED <<rows, wanted, refused>>
                   /\ u = [t EXCEPT !.phase = "answered", !.found = "error"]
      BY <1>2 DEF Fails, Becomes, ghostVars, wishVars, Many
    <2>2. u.kind = t.kind /\ u.keys = t.keys /\ u.phase = "answered"
      BY <1>1, <2>1 DEF Lookup
    <2>3. LookupKnows(u)'
      BY <1>1, <1>2, <2>2 DEF LookupKnows, Many
    <2>4. \A k : Covers(t, k) => Covered(k)'
      BY <1>1, <2>1, <2>2, GoesOn
    <2>5. rows' \in [Msgs -> Rows] /\ \A m \in Msgs : Answered(m) => Answered(m)'
      BY <1>1, <2>1 DEF LostInv, World, Answered
    <2>q. QED BY <1>1, <2>1, <2>3, <2>4, <2>5, LostTask
  \* Nothing else was after it, or that goes on.
  <1>3. CASE t.kind = "arrived"
    <2>1. /\ lookups' = lookups \ {t} /\ UNCHANGED <<rows, wanted>>
          /\ refused' = refused \cup {m \in t.keys : ~Pursued(m, lookups \ {t})}
      BY <1>3 DEF Fails, Ends, Many
    <2>2. ASSUME NEW m, Covers(t, m) PROVE Covered(m)'
      <3>1. CASE ~Pursued(m, lookups \ {t})
        BY <2>1, <2>2, <3>1 DEF Covers, Covered
      <3>2. CASE Live(m)
        BY <1>1, <3>2 DEF Live, Covered
      <3>3. CASE Pursued(m, lookups \ {t}) /\ ~Live(m)
        <4>1. PICK u \in lookups' : u.kind \in {"arrived", "tap"} /\ m \in u.keys
          BY <2>1, <3>3 DEF Pursued
        <4>2. /\ m \notin Own /\ status[m] = "there" /\ Keeps("New", conditions)
              /\ conditions.enabled
          BY <1>3, <2>2 DEF Covers, Keeps
        <4>3. Covers(u, m)'
          BY <1>1, <4>1, <4>2 DEF Covers
        <4>q. QED BY <4>3 DEF Covered
      <3>q. QED BY <3>1, <3>2, <3>3
    <2>3. rows' \in [Msgs -> Rows] /\ \A m \in Msgs : Answered(m) => Answered(m)'
      BY <1>1, <2>1 DEF LostInv, World, Answered
    <2>q. QED BY <1>1, <2>1, <2>2, <2>3, LostTask
  <1>4. CASE t.kind \in {"accounts", "sweep"}
    <2>1. lookups' = lookups \ {t} /\ UNCHANGED <<wanted, refused>>
      BY <1>4 DEF Fails, Ends, Many, wishVars
    <2>2. \A m : ~Covers(t, m)
      BY <1>4 DEF Covers
    <2>3. PICK ms : /\ rows' = [m \in Msgs |-> IF m \in ms THEN "none" ELSE rows[m]]
                    /\ \A m \in ms : status[m] = "gone"
      <3>1. rows \in [Msgs -> Rows]
        BY DEF LostInv, World
      <3>2. CASE UNCHANGED rows
        <4>1. PICK ms : ms = {}
          OBVIOUS
        <4>2. rows' = [m \in Msgs |-> IF m \in ms THEN "none" ELSE rows[m]]
          BY <3>1, <3>2, <4>1
        <4>q. QED BY <4>1, <4>2
      <3>q. QED BY <1>4, <3>2 DEF Fails, Many, ToDelete
    <2>4. rows' \in [Msgs -> Rows] /\ \A m \in Msgs : Answered(m) => Answered(m)'
      BY <1>1, <2>3 DEF LostInv, World, Answered, Rows
    <2>q. QED BY <1>1, <2>1, <2>2, <2>4, LostTask
  <1>q. QED BY <1>2, <1>3, <1>4 DEF Fails

\* An answer names what is queued.
LEMMA LostQueues ==
    ASSUME LostInv, HubInv', NEW t \in lookups, lookups' = lookups \ {t},
           NEW ms \in SUBSET Msgs, NEW kind_ \in Kinds, QueueAll(ms, kind_) \/ QueueOne(ms, kind_),
           UNCHANGED <<conditions, skip, status, profiles, events>>,
           \A m : Covers(t, m) => m \in ms /\ Keeps(kind_, conditions)
    PROVE  LostInv'
  <1>1. /\ \A m : Live(m) => Live(m)'
        /\ Keeps(kind_, conditions) => \A m \in ms : Live(m)'
        /\ \A m \in wanted' : m \in wanted \/ (m \in Msgs /\ Live(m)')
        /\ StopKnown(running', wanted')
        /\ \A m \in refused : m \in refused' \/ Live(m)'
        /\ UNCHANGED rows
    BY QueueLive DEF LostInv
  <1>2. \A m \in Msgs : Answered(m) => Answered(m)'
    BY <1>1 DEF Answered
  <1>3. World'
    BY <1>1, <1>2, WorldKept DEF LostInv, World
  <1>4. \A m : Live(m)' \/ m \in refused' => Covered(m)'
    BY DEF Covered
  <1>5. ASSUME NEW m \in wanted', NEW u \in lookups, Covers(u, m) PROVE Covered(m)'
    <2>1. CASE u = t
      BY <1>1, <1>4, <1>5, <2>1
    <2>2. CASE u \in lookups'
      <3>1. m \in Msgs /\ status[m] = status'[m]
        BY <1>1 DEF LostInv, WantedCovered
      <3>2. status[m] = "there" => status'[m] \in {"there", "gone"}
        BY <3>1
      <3>q. QED BY <1>3, <1>5, <2>2, <3>1, <3>2, CoversKept DEF LostInv
    <2>q. QED BY <2>1, <2>2
  <1>q. QED BY <1>1, <1>2, <1>3, <1>4, <1>5, LostKept

LEMMA LostArrivalFound == ASSUME LostInv, HubInv', NEW t \in lookups, ArrivalFound(t) PROVE LostInv'
  <1>1. /\ UNCHANGED <<conditions, status, profiles, events>> /\ lookups' = lookups \ {t}
        /\ t.kind = "arrived" /\ t \in Lookup /\ LookupKnows(t)
    BY DEF ArrivalFound, Ends, coreVars, LostInv, World, HubInv, NamesType
  <1>2. PICK m \in Msgs : t.keys = {m}
    BY <1>1 DEF LookupKnows
  <1>3. CASE t.found = "some" /\ t.keys \cap Own = {}
    <2>1. QueueOne(t.keys, "New") /\ UNCHANGED skip
      BY <1>3 DEF ArrivalFound
    <2>2. t.keys \in SUBSET Msgs /\ "New" \in Kinds
      BY <1>2 DEF Kinds
    <2>3. \A k : Covers(t, k) => k \in t.keys /\ Keeps("New", conditions)
      BY <1>1 DEF Covers
    <2>q. QED BY <1>1, <2>1, <2>2, <2>3, LostQueues
  <1>4. CASE ~(t.found = "some" /\ t.keys \cap Own = {})
    <2>1. skip' = skip \cup {m} /\ UNCHANGED <<queue, running, rows, wanted, refused>>
      BY <1>2, <1>4 DEF ArrivalFound, wishVars
    <2>2. m \in Own \/ Answered(m)
      BY <1>1, <1>2, <1>4 DEF LookupKnows
    <2>3. \A k : Answered(k)' = Answered(k)
      BY <1>1, <2>1 DEF Answered
    <2>4. World'
      BY <1>1, <2>1, <2>2, <2>3, WorldKept DEF LostInv, World
    <2>5. \A k : Live(k) \/ k \in refused => Covered(k)'
      BY <2>1 DEF Live, Covered
    <2>6. ASSUME NEW k \in wanted', NEW u \in lookups, Covers(u, k) PROVE Covered(k)'
      <3>1. CASE u = t
        <4>1. k = m /\ k \notin Own
          BY <1>1, <1>2, <2>6, <3>1 DEF Covers
        <4>q. QED BY <2>2, <2>3, <4>1 DEF Covered
      <3>2. CASE u \in lookups'
        <4>1. k \in Msgs /\ status[k] = status'[k]
          BY <1>1, <2>1 DEF LostInv, WantedCovered
        <4>2. status[k] = "there" => status'[k] \in {"there", "gone"}
          BY <4>1
        <4>q. QED BY <1>1, <2>4, <2>6, <3>2, <4>1, <4>2, CoversKept DEF LostInv
      <3>q. QED BY <1>1, <3>1, <3>2
    <2>7. StopKnown(running', wanted')
      BY <2>1 DEF LostInv
    <2>q. QED BY <2>1, <2>3, <2>4, <2>5, <2>6, <2>7, LostKept
  <1>q. QED BY <1>3, <1>4

LEMMA LostTapFound == ASSUME LostInv, HubInv', NEW t \in lookups, TapFound(t) PROVE LostInv'
  <1>1. /\ UNCHANGED <<conditions, status, profiles, events>> /\ lookups' = lookups \ {t}
        /\ t.kind = "tap" /\ t \in Lookup /\ LookupKnows(t)
    BY DEF TapFound, Ends, coreVars, LostInv, World, HubInv, NamesType
  <1>2. PICK m \in Msgs : t.keys = {m}
    BY <1>1 DEF LookupKnows
  <1>3. CASE t.found = "some"
    <2>1. QueueOne(t.keys, "Manual") /\ UNCHANGED skip
      BY <1>3 DEF TapFound
    <2>2. t.keys \in SUBSET Msgs /\ "Manual" \in Kinds
      BY <1>2 DEF Kinds
    <2>3. \A k : Covers(t, k) => k \in t.keys /\ Keeps("Manual", conditions)
      BY <1>1 DEF Covers, Keeps
    <2>q. QED BY <1>1, <2>1, <2>2, <2>3, LostQueues
  <1>4. CASE t.found # "some"
    <2>1. /\ rows' = [rows EXCEPT ![m] = "failed"] /\ skip' = skip \cup {m}
          /\ UNCHANGED <<queue, running, wanted, refused>>
      <3>1. m = CHOOSE k \in t.keys : TRUE
        BY <1>2
      <3>q. QED BY <1>4, <3>1 DEF TapFound, Write, wishVars
    <2>2. rows' \in [Msgs -> Rows] /\ rows'[m] = "failed" /\ \A k \in Msgs : k # m => rows'[k] = rows[k]
      BY <2>1 DEF LostInv, World, Rows
    <2>3. \A k \in Msgs : k = m \/ Answered(k) => Answered(k)'
      BY <1>1, <2>2 DEF Answered
    <2>4. World'
      BY <1>1, <1>2, <2>1, <2>2, <2>3, WorldKept DEF LostInv, World
    <2>5. \A k : Live(k) \/ k \in refused => Covered(k)'
      BY <2>1 DEF Live, Covered
    <2>6. ASSUME NEW k \in wanted', NEW u \in lookups, Covers(u, k) PROVE Covered(k)'
      <3>1. CASE u = t
        BY <1>2, <2>3, <2>6, <3>1 DEF Covers, Covered
      <3>2. CASE u \in lookups'
        <4>1. k \in Msgs /\ status[k] = status'[k]
          BY <1>1, <2>1 DEF LostInv, WantedCovered
        <4>2. status[k] = "there" => status'[k] \in {"there", "gone"}
          BY <4>1
        <4>q. QED BY <1>1, <2>4, <2>6, <3>2, <4>1, <4>2, CoversKept DEF LostInv
      <3>q. QED BY <1>1, <3>1, <3>2
    <2>7. StopKnown(running', wanted')
      BY <2>1 DEF LostInv
    <2>q. QED BY <2>1, <2>3, <2>4, <2>5, <2>6, <2>7, LostKept
  <1>q. QED BY <1>3, <1>4

LEMMA LostManyFound == ASSUME LostInv, HubInv', NEW t \in lookups, ManyFound(t) PROVE LostInv'
  <1>1. /\ UNCHANGED <<conditions, skip, status, profiles, events>> /\ lookups' = lookups \ {t}
        /\ Many(t) /\ t \in Lookup
    BY DEF ManyFound, Ends, coreVars, LostInv, HubInv, NamesType
  <1>2. \A m : ~Covers(t, m)
    BY <1>1 DEF Many, Covers
  <1>3. CASE t.found = "error"
    <2>1. UNCHANGED <<queue, running, rows, wanted, refused>>
      BY <1>3 DEF ManyFound, wishVars
    <2>2. rows' \in [Msgs -> Rows] /\ \A m \in Msgs : Answered(m) => Answered(m)'
      BY <1>1, <2>1 DEF LostInv, World, Answered
    <2>q. QED BY <1>1, <1>2, <2>1, <2>2, LostTask
  <1>4. CASE t.found # "error"
    <2>1. QueueAll(t.keys, "Manual") \/ QueueAll(t.keys \ Own, "Backlog")
      BY <1>4 DEF ManyFound
    <2>2. t.keys \in SUBSET Msgs /\ t.keys \ Own \in SUBSET Msgs /\ {"Manual", "Backlog"} \subseteq Kinds
      BY <1>1 DEF Lookup, Kinds
    <2>3. CASE QueueAll(t.keys, "Manual")
      BY <1>1, <1>2, <2>2, <2>3, LostQueues
    <2>4. CASE QueueAll(t.keys \ Own, "Backlog")
      BY <1>1, <1>2, <2>2, <2>4, LostQueues
    <2>q. QED BY <2>1, <2>3, <2>4
  <1>q. QED BY <1>3, <1>4

\* A run ends: its job has its row, is taken back, or is not to be done.
LEMMA LostRunEnded == ASSUME LostInv, HubInv', RunEnded PROVE LostInv'
  <1>p. PICK m, again : /\ m = running.job.key
                        /\ again = IF running.result = "cancelled" /\ running.requeue
                                   THEN {running.job} ELSE {}
    OBVIOUS
  <1>1. /\ ThenPump(queue \cup again, NoJob, conditions) /\ running # NoJob
        /\ UNCHANGED <<conditions, lookups, status, profiles, events, wanted, refused>>
    BY <1>p DEF RunEnded, coreVars, ghostVars, wishVars
  <1>2. running \in Run /\ running.job \in Job /\ m \in Msgs
    BY <1>p, <1>1 DEF LostInv, HubInv, Jobs, Run, Job
  <1>3. Jobs(queue \cup again, NoJob)
    BY <1>p, <1>2 DEF LostInv, HubInv, Jobs
  <1>4. /\ \A k : LiveIn(queue \cup again, NoJob, k) => Live(k)'
        /\ StopKnown(NoJob, wanted) => StopKnown(running', wanted)
    BY <1>1, <1>3, PumpLive
  <1>5. StopKnown(running', wanted')
    BY <1>1, <1>4 DEF StopKnown
  <1>6. \/ running.result = "cancelled" /\ UNCHANGED <<rows, skip>>
        \/ /\ running.result # "cancelled" /\ skip' = skip \cup {m}
           /\ \E row \in {"done", "failed"} : rows' = [rows EXCEPT ![m] = row]
    BY <1>p DEF RunEnded, Write
  <1>7. /\ rows' \in [Msgs -> Rows] /\ \A k \in Msgs : k # m => rows'[k] = rows[k]
        /\ running.result = "cancelled" => UNCHANGED <<rows, skip>>
        /\ running.result # "cancelled" => rows'[m] # "none"
    BY <1>2, <1>6 DEF LostInv, World, Rows
  <1>8. /\ \A k \in Msgs : Answered(k) => Answered(k)'
        /\ running.result # "cancelled" => Answered(m)'
    BY <1>1, <1>7 DEF Answered
  <1>9. \A k \in skip' : k \in skip \/ (k \in Msgs /\ Answered(k)')
    BY <1>2, <1>6, <1>8
  <1>10. World'
    BY <1>1, <1>7, <1>8, <1>9, WorldKept DEF LostInv, World
  <1>11. ASSUME NEW k \in wanted', Live(k) PROVE Covered(k)'
    <2>1. CASE k = m /\ running.result = "cancelled"
      <3>1. running.requeue
        BY <1>p, <1>1, <1>11, <2>1 DEF LostInv, StopKnown
      <3>2. running.job \in again
        BY <1>p, <2>1, <3>1
      <3>3. LiveIn(queue \cup again, NoJob, k)
        BY <1>p, <2>1, <3>2 DEF LiveIn
      <3>q. QED BY <1>4, <3>3 DEF Covered
    <2>2. CASE k = m /\ running.result # "cancelled"
      BY <1>8, <2>2 DEF Covered
    <2>3. CASE k # m
      <3>1. LiveIn(queue \cup again, NoJob, k)
        BY <1>p, <1>11, <2>3 DEF Live, LiveIn
      <3>q. QED BY <1>4, <3>1 DEF Covered
    <2>q. QED BY <2>1, <2>2, <2>3
  <1>12. ASSUME NEW k \in wanted', NEW u \in lookups, Covers(u, k) PROVE Covered(k)'
    <2>1. k \in Msgs /\ u \in lookups' /\ status[k] = status'[k]
      BY <1>1 DEF LostInv, WantedCovered
    <2>2. status[k] = "there" => status'[k] \in {"there", "gone"}
      BY <2>1
    <2>q. QED BY <1>1, <1>10, <1>12, <2>1, <2>2, CoversKept DEF LostInv
  <1>13. \A k : k \in refused => Covered(k)'
    BY <1>1 DEF Covered
  <1>q. QED BY <1>1, <1>5, <1>8, <1>10, <1>11, <1>12, <1>13, LostKept

\* The speech thread, told to stop or not.
LEMMA LostRunEnds ==
    ASSUME LostInv, HubInv', NEW result \in {"ok", "failed", "cancelled"}, RunEnds(result)
    PROVE  LostInv'
  <1>1. /\ running # NoJob /\ (result = "cancelled" => running.cancel)
        /\ running' = [running EXCEPT !.result = result]
        /\ UNCHANGED <<conditions, queue, skip, lookups, rows, status, profiles, events, wanted, refused>>
    BY DEF RunEnds, coreVars, ghostVars, wishVars
  <1>2. running \in Run /\ running' \in Run
    BY <1>1 DEF LostInv, HubInv, Jobs, Run
  <1>3. /\ running'.job = running.job /\ running'.cancel = running.cancel
        /\ running'.requeue = running.requeue /\ running'.result = result
    BY <1>1, <1>2 DEF Run
  <1>4. running' # NoJob
    BY <1>2, NoJobAssumption
  <1>5. StopKnown(running', wanted')
    BY <1>1, <1>3, <1>4 DEF LostInv, StopKnown
  <1>6. \A m : Live(m)' = Live(m) /\ Answered(m)' = Answered(m)
    BY <1>1, <1>3, <1>4 DEF Live, LiveIn, Answered
  <1>7. World'
    BY <1>1, <1>6, WorldKept DEF LostInv, World
  <1>8. \A m : Live(m) \/ m \in refused => Covered(m)'
    BY <1>1, <1>6 DEF Covered
  <1>9. ASSUME NEW m \in wanted', NEW u \in lookups, Covers(u, m) PROVE Covered(m)'
    <2>1. m \in Msgs /\ u \in lookups' /\ status[m] = status'[m]
      BY <1>1 DEF LostInv, WantedCovered
    <2>2. status[m] = "there" => status'[m] \in {"there", "gone"}
      BY <2>1
    <2>q. QED BY <1>1, <1>7, <1>9, <2>1, <2>2, CoversKept DEF LostInv
  <1>q. QED BY <1>1, <1>5, <1>6, <1>7, <1>8, <1>9, LostKept

LEMMA LostInit == Init => LostInv
  <1> SUFFICES ASSUME Init PROVE LostInv
    OBVIOUS
  <1>1. /\ running = NoJob /\ skip = {} /\ lookups = {} /\ events = <<>> /\ wanted = {}
        /\ profiles = Profiles
        /\ rows \in [Msgs -> Rows] /\ status \in [Msgs -> {"absent", "partial", "there", "gone"}]
    BY DEF Init, Rows
  <1>2. World
    BY <1>1, TranscriptAssumption DEF World
  <1>q. QED BY <1>1, <1>2, HubInit DEF LostInv, StopKnown, WantedCovered

LEMMA LostStep == LostInv /\ [Next]_vars => LostInv'
  <1> SUFFICES ASSUME LostInv, [Next]_vars PROVE LostInv'
    OBVIOUS
  <1>1. HubInv'
    BY HubStep DEF LostInv
  <1>2. CASE UNCHANGED vars \/ StorePosts \/ Apply \/ ApplyDeleted
    <2>1. UNCHANGED <<conditions, queue, running, skip, rows, status, profiles, wanted, refused, lookups, events>>
      BY <1>2 DEF vars, StorePosts, Apply, ApplyDeleted, hubVars, coreVars, ghostVars, wishVars
    <2>2. \A i \in DOMAIN events' : events'[i].kind = "deleted" => status'[events'[i].msg] = "gone"
      BY <2>1 DEF LostInv, World
    <2>q. QED BY <1>1, <2>1, <2>2, LostAdds
  <1>3. CASE Environment
    BY <1>1, <1>3, LostCore, LostSettings, LostTranscribe, LostCancel, LostStarts DEF Environment
  <1>4. CASE QtThread
    BY <1>1, <1>2, <1>4, LostArrived, LostDeleted, LostStarts, LostArrivalFound, LostTapFound,
       LostManyFound, LostAccounts, LostRunEnded DEF QtThread
  <1>5. CASE Tasks
    BY <1>1, <1>5, LostListing, LostKnown, LostLoading DEF Tasks
  <1>6. CASE Speech
    BY <1>1, <1>6, LostRunEnds DEF Speech
  <1>7. CASE \E t \in lookups : Fails(t)
    BY <1>1, <1>7, LostFails
  <1>q. QED BY <1>2, <1>3, <1>4, <1>5, <1>6, <1>7 DEF Next

\* No message that is to be transcribed is forgotten, however lookups, taps, deletions, settings
\* and cancelled runs follow on each other: while the core has it, it is looked up for its own
\* sake, has a job or has its row (arrived, enqueue, pump, on_report, skip).  The only exception
\* is an arrival whose get_message the core refused, with nothing else after it by then, until
\* an event, a tap or a search names it again (hub.rs:775-777).
THEOREM NoneForgotten == Spec => []NothingLost
  <1>1. LostInv => NothingLost
    <2> SUFFICES ASSUME LostInv, NEW m \in wanted \ refused, status[m] = "there"
                 PROVE  rows[m] # "none" \/ Pursued(m, lookups)
      BY DEF NothingLost
    <2>1. Live(m) \/ Answered(m) \/ \E t \in lookups : Covers(t, m)
      BY DEF LostInv, WantedCovered, Covered
    <2>q. QED BY <2>1 DEF Answered, Covers, Pursued
  <1>q. QED BY <1>1, LostInit, LostStep, PTL DEF Spec

-----------------------------------------------------------------------------
(* Types *)

\* An answer of the store, on its way to a view.
Note == [key : Views, row : Rows \cup {"again"}]

ShowType ==
    /\ conditions \in Conditions /\ swept \in BOOLEAN /\ scanning \in BOOLEAN
    /\ replies \in Seq(Note) /\ posted \in Seq(Note)
    /\ shown \in [Views -> Shown]

\* A finite set, in some order.
LEMMA OrderedSet == ASSUME NEW S, IsFiniteSet(S) PROVE SetToSeq(S) \in Seq(S)
  <1>1. Cardinality(S) \in Nat /\ ExistsBijection(1..Cardinality(S), S)
    BY FS_CardinalityType
  <1>2. PICK f \in [1..Cardinality(S) -> S] : IsInjective(f)
    BY <1>1 DEF ExistsBijection, Bijection, Injection
  <1>3. SetToSeq(S) \in [1..Cardinality(S) -> S]
    BY <1>2 DEF SetToSeq
  <1>q. QED BY <1>1, <1>3

\* One note for each of ms.
LEMMA NotesOf ==
    ASSUME NEW ms \in SUBSET Views, NEW row_, \A m \in ms : row_[m] \in Rows
    PROVE  SetToSeq({[key |-> m, row |-> row_[m]] : m \in ms}) \in Seq(Note)
  <1>1. PICK S : S = {[key |-> m, row |-> row_[m]] : m \in ms}
    OBVIOUS
  <1>2. PICK f : f = [m \in ms |-> [key |-> m, row |-> row_[m]]]
    OBVIOUS
  <1>3. f \in Surjection(ms, S)
    BY <1>1, <1>2 DEF Surjection
  <1>4. IsFiniteSet(ms)
    BY TranscriptAssumption, FS_Subset
  <1>5. IsFiniteSet(S)
    BY <1>3, <1>4, FS_Surjection
  <1>6. S \subseteq Note
    BY <1>1 DEF Note
  <1>7. SetToSeq(S) \in Seq(S)
    BY <1>5, OrderedSet
  <1>q. QED BY <1>1, <1>6, <1>7

\* refresh asks for rows there are.
LEMMA RefreshNotes ==
    ASSUME replies \in Seq(Note), rows' \in [Msgs -> Rows], NEW ms,
           NEW left \in Seq(Note), NEW before \in Seq(Note), Refresh(ms, left, before)
    PROVE  replies' \in Seq(Note) /\ posted' \in Seq(Note)
  <1>1. PICK asked : asked = {m \in ms \cap Views : conditions'.enabled /\ ~LiveIn(queue', running', m)}
    OBVIOUS
  <1>2. /\ replies' = replies \o before \o SetToSeq({[key |-> m, row |-> rows'[m]] : m \in asked})
        /\ posted' = left \o SetToSeq({[key |-> m, row |-> "none"] : m \in (ms \cap Views) \ asked})
    BY <1>1 DEF Refresh
  <1>3. asked \in SUBSET Views /\ \A m \in asked : rows'[m] \in Rows
    BY <1>1, TranscriptAssumption
  <1>4. SetToSeq({[key |-> m, row |-> rows'[m]] : m \in asked}) \in Seq(Note)
    BY <1>3, NotesOf
  <1>5. PICK rest, none : rest = (ms \cap Views) \ asked /\ none = [m \in Views |-> "none"]
    OBVIOUS
  <1>6. posted' = left \o SetToSeq({[key |-> m, row |-> none[m]] : m \in rest})
    <2>1. PICK S : S = {[key |-> m, row |-> "none"] : m \in (ms \cap Views) \ asked}
      OBVIOUS
    <2>2. S = {[key |-> m, row |-> none[m]] : m \in rest}
      BY <1>5, <2>1
    <2>3. posted' = left \o SetToSeq(S)
      BY <1>2, <2>1
    <2>q. QED BY <2>2, <2>3
  <1>7. rest \in SUBSET Views /\ \A m \in rest : none[m] \in Rows
    BY <1>5 DEF Rows
  <1>8. SetToSeq({[key |-> m, row |-> none[m]] : m \in rest}) \in Seq(Note)
    BY <1>7, NotesOf
  <1>9. replies' \in Seq(Note)
    BY <1>2, <1>4
  <1>10. posted' \in Seq(Note)
    BY <1>6, <1>8
  <1>q. QED BY <1>9, <1>10

LEMMA AnswerNotes ==
    ASSUME NEW m, NEW row_ \in Rows \cup {"again"}
    PROVE  Answer(m, row_) \in Seq(Note)
  <1>1. CASE m \in Views
    <2>1. [key |-> m, row |-> row_] \in Note
      BY <1>1 DEF Note
    <2>2. Answer(m, row_) = <<[key |-> m, row |-> row_]>>
      BY <1>1 DEF Answer
    <2>q. QED BY <2>1, <2>2
  <1>2. CASE m \notin Views
    BY <1>2 DEF Answer
  <1>q. QED BY <1>1, <1>2

\* The app, the core and the power.
LEMMA ShowTouched ==
    ASSUME LostInv, LostInv', ShowType, Environment
    PROVE  ShowType'
  <1>0. rows' \in [Msgs -> Rows] /\ <<>> \in Seq(Note) /\ replies \in Seq(Note) /\ posted \in Seq(Note)
    BY DEF LostInv, World, ShowType
  <1>1. ASSUME UNCHANGED <<conditions, swept, scanning, replies, posted, shown>>
        PROVE  ShowType'
    BY <1>1 DEF ShowType
  <1>2. ASSUME NEW m \in Msgs, \/ \E how \in {"partial", "there"} : CoreArrives(m, how)
                               \/ CoreDownloads(m) \/ CoreDeletes(m)
        PROVE  ShowType'
    BY <1>1, <1>2 DEF CoreArrives, CoreDownloads, CoreDeletes, hubVars, showVars
  <1>3. ASSUME NEW p \in Profiles, CoreRemoves(p) PROVE ShowType'
    BY <1>1, <1>3 DEF CoreRemoves, hubVars, showVars
  <1>4. ASSUME NEW c \in Settings, SetConditions(c) PROVE ShowType'
    <2>1. c \in Conditions
      BY TranscriptAssumption
    <2>2. /\ conditions' = c /\ UNCHANGED <<swept, shown>>
          /\ scanning' = (scanning \/ (Keeps("Backlog", c) /\ ~Keeps("Backlog", conditions)))
          /\ \E ms : Refresh(ms, posted, <<>>)
      BY <1>4 DEF SetConditions
    <2>3. replies' \in Seq(Note) /\ posted' \in Seq(Note)
      BY <1>0, <2>2, RefreshNotes
    <2>q. QED BY <2>1, <2>2, <2>3 DEF ShowType
  <1>5. ASSUME NEW m \in Views, Transcribe(m) PROVE ShowType'
    <2>1. /\ UNCHANGED <<conditions, swept, scanning, shown>>
          /\ UNCHANGED <<replies, posted>> \/ \E ms : Refresh(ms, posted, <<>>)
      BY <1>5 DEF Transcribe, hubVars
    <2>2. replies' \in Seq(Note) /\ posted' \in Seq(Note)
      BY <1>0, <2>1, RefreshNotes
    <2>q. QED BY <2>1, <2>2, TranscriptAssumption DEF ShowType
  <1>6. ASSUME NEW m \in Views, Cancel(m) PROVE ShowType'
    <2>1. UNCHANGED <<conditions, swept, scanning, shown>> /\ Refresh({m}, posted, <<>>)
      BY <1>6 DEF Cancel
    <2>2. replies' \in Seq(Note) /\ posted' \in Seq(Note)
      BY <1>0, <2>1, RefreshNotes
    <2>q. QED BY <2>1, <2>2 DEF ShowType
  <1>7. ASSUME NEW m \in Views, Watch(m) PROVE ShowType'
    <2>1. /\ UNCHANGED <<conditions, swept, scanning>> /\ Refresh({m}, posted, <<>>)
          /\ shown' = [shown EXCEPT ![m] = "none"]
      BY <1>7 DEF Watch, hubVars
    <2>2. replies' \in Seq(Note) /\ posted' \in Seq(Note)
      BY <1>0, <2>1, RefreshNotes
    <2>q. QED BY <2>1, <2>2 DEF ShowType, Shown, Rows
  <1>8. CASE TranscribeChat
    BY <1>1, <1>8 DEF TranscribeChat, hubVars, showVars
  <1>9. CASE Connected
    BY <1>9 DEF Connected, ShowType, showVars
  <1>q. QED BY <1>2, <1>3, <1>4, <1>5, <1>6, <1>7, <1>8, <1>9 DEF Environment

\* The Qt thread.
LEMMA ShowHandled ==
    ASSUME LostInv, LostInv', ShowType, QtThread
    PROVE  ShowType'
  <1>0. /\ rows' \in [Msgs -> Rows] /\ <<>> \in Seq(Note)
        /\ replies \in Seq(Note) /\ posted \in Seq(Note)
    BY DEF LostInv, World, ShowType
  <1>1. ASSUME UNCHANGED <<conditions, swept, shown>>, scanning' \in BOOLEAN,
               \/ UNCHANGED <<replies, posted>>
               \/ \E ms : \E left, before \in Seq(Note) : Refresh(ms, left, before)
        PROVE  ShowType'
    <2>1. replies' \in Seq(Note) /\ posted' \in Seq(Note)
      BY <1>0, <1>1, RefreshNotes
    <2>q. QED BY <1>1, <2>1 DEF ShowType
  <1>2. CASE Arrived
    BY <1>2 DEF Arrived, ShowType, hubVars, showVars
  <1>3. CASE Deleted
    <2>1. Handles("deleted") /\ UNCHANGED status
      BY <1>3 DEF Deleted
    <2>2. Head(events).msg \in Msgs
      BY <2>1, EventTaken DEF LostInv
    <2>3. /\ UNCHANGED <<conditions, swept, scanning, posted, shown>>
          /\ replies' = replies \o Answer(Head(events).msg, "again")
      BY <1>3 DEF Deleted
    <2>4. replies' \in Seq(Note)
      BY <1>0, <2>3, AnswerNotes
    <2>q. QED BY <2>2, <2>3, <2>4 DEF ShowType
  <1>4. CASE AccountsChanged
    BY <1>4 DEF AccountsChanged, ShowType, hubVars, showVars
  <1>5. ASSUME NEW t \in lookups, ArrivalFound(t) PROVE ShowType'
    <2>1. /\ UNCHANGED <<conditions, swept, scanning, shown>>
          /\ QueueOne(t.keys, "New") \/ UNCHANGED <<replies, posted>>
      BY <1>5 DEF ArrivalFound
    <2>2. UNCHANGED <<replies, posted>> \/ \E ms : Refresh(ms, posted, <<>>)
      BY <2>1 DEF QueueOne, QueueAll
    <2>q. QED BY <1>0, <1>1, <2>1, <2>2 DEF ShowType
  <1>6. ASSUME NEW t \in lookups, TapFound(t) PROVE ShowType'
    <2>1. /\ UNCHANGED <<conditions, swept, scanning, shown>>
          /\ \/ QueueOne(t.keys, "Manual")
             \/ UNCHANGED posted /\ \E m : replies' = replies \o Answer(m, "failed")
      BY <1>6 DEF TapFound
    <2>2. CASE QueueOne(t.keys, "Manual")
      <3>1. UNCHANGED <<replies, posted>> \/ \E ms : Refresh(ms, posted, <<>>)
        BY <2>2 DEF QueueOne, QueueAll
      <3>q. QED BY <1>0, <1>1, <2>1, <3>1 DEF ShowType
    <2>3. ASSUME UNCHANGED posted, NEW m, replies' = replies \o Answer(m, "failed") PROVE ShowType'
      <3>1. replies' \in Seq(Note)
        BY <1>0, <2>3, AnswerNotes DEF Rows
      <3>q. QED BY <2>1, <2>3, <3>1 DEF ShowType
    <2>q. QED BY <2>1, <2>2, <2>3
  <1>7. ASSUME NEW t \in lookups, ManyFound(t) PROVE ShowType'
    <2>1. /\ UNCHANGED <<conditions, swept, shown>>
          /\ scanning' = (scanning /\ t.kind = "chat")
          /\ UNCHANGED <<replies, posted>> \/ \E ms : Refresh(ms, posted, <<>>)
      BY <1>7 DEF ManyFound, QueueAll
    <2>q. QED BY <1>0, <1>1, <2>1
  <1>8. ASSUME NEW t \in lookups, AfterAccounts(t) PROVE ShowType'
    <2>1. /\ UNCHANGED <<conditions, swept, scanning, shown>>
          /\ Refresh(Views, posted, <<>>)
      BY <1>8 DEF AfterAccounts
    <2>q. QED BY <1>0, <1>1, <2>1 DEF ShowType
  <1>9. CASE RunEnded
    <2>1. PICK ms, m, row_ : /\ UNCHANGED <<conditions, swept, scanning, shown>>
                             /\ row_ \in Rows
                             /\ \/ Refresh(ms, posted, <<>>)
                                \/ Refresh(ms, posted, Answer(m, row_))
      BY <1>9 DEF RunEnded, Rows
    <2>2. Answer(m, row_) \in Seq(Note)
      <3>1. row_ \in Rows \cup {"again"}
        BY <2>1
      <3>q. QED BY <3>1, AnswerNotes
    <2>3. \E left, before \in Seq(Note) : Refresh(ms, left, before)
      BY <1>0, <2>1, <2>2
    <2>4. scanning' \in BOOLEAN
      BY <2>1 DEF ShowType
    <2>q. QED BY <1>1, <2>1, <2>3, <2>4
  <1>10. CASE Apply
    <2>1. PICK m, row_ :
                        /\ m = Head(posted).key /\ row_ = Head(posted).row
                        /\ posted # <<>> /\ row_ # "again" /\ posted' = Tail(posted)
                        /\ UNCHANGED <<conditions, swept, scanning, replies>>
                        /\ shown' = [shown EXCEPT ![m] =
                              IF ~conditions.enabled THEN "none"
                              ELSE CASE running # NoJob /\ running.job.key = m -> "running"
                                     [] \E j \in queue : j.key = m             -> "queued"
                                     [] OTHER                                  -> row_]
      BY <1>10 DEF Apply, hubVars
    <2>2. m \in Views /\ row_ \in Rows /\ posted' \in Seq(Note)
      <3>1. Head(posted) \in Note /\ Tail(posted) \in Seq(Note)
        BY <1>0, <2>1
      <3>q. QED BY <2>1, <3>1 DEF Note
    <2>3. shown' \in [Views -> Shown]
      BY <2>1, <2>2 DEF ShowType, Shown, Rows
    <2>q. QED BY <2>1, <2>2, <2>3 DEF ShowType
  <1>11. CASE ApplyDeleted
    <2>1. /\ UNCHANGED <<conditions, swept, scanning, shown>> /\ posted # <<>>
          /\ Refresh({Head(posted).key}, Tail(posted), <<>>)
      BY <1>11 DEF ApplyDeleted, hubVars
    <2>2. Tail(posted) \in Seq(Note)
      BY <1>0, <2>1
    <2>q. QED BY <1>0, <1>1, <2>1, <2>2 DEF ShowType
  <1>q. QED BY <1>2, <1>3, <1>4, <1>5, <1>6, <1>7, <1>8, <1>9, <1>10, <1>11 DEF QtThread

LEMMA ShowStep == LostInv /\ LostInv' /\ ShowType /\ [Next]_vars => ShowType'
  <1> SUFFICES ASSUME LostInv, LostInv', ShowType, [Next]_vars PROVE ShowType'
    OBVIOUS
  <1>1. CASE UNCHANGED vars
    BY <1>1 DEF ShowType, vars, hubVars, showVars
  <1>2. CASE Tasks \/ Speech
    <2>1. UNCHANGED <<conditions, swept, scanning, replies, posted, shown>>
      BY <1>2 DEF Tasks, Listing, Known, Loading, Speech, RunEnds, hubVars, showVars
    <2>q. QED BY <2>1 DEF ShowType
  <1>3. CASE StorePosts
    <2>1. /\ replies # <<>> /\ replies' = Tail(replies) /\ posted' = Append(posted, Head(replies))
          /\ UNCHANGED <<conditions, swept, scanning, shown>>
      BY <1>3 DEF StorePosts, hubVars
    <2>2. replies \in Seq(Note) /\ posted \in Seq(Note)
      BY DEF ShowType
    <2>3. replies' \in Seq(Note) /\ posted' \in Seq(Note)
      BY <2>1, <2>2
    <2>q. QED BY <2>1, <2>3 DEF ShowType
  <1>4. ASSUME NEW t \in lookups, Fails(t) PROVE ShowType'
    <2>1. UNCHANGED <<conditions, swept, scanning, replies, posted, shown>>
      BY <1>4 DEF Fails, hubVars, showVars
    <2>q. QED BY <2>1 DEF ShowType
  <1>q. QED BY <1>1, <1>2, <1>3, <1>4, ShowTouched, ShowHandled DEF Next

LEMMA ShowInit == Init => ShowType
  <1> SUFFICES ASSUME Init PROVE ShowType
    OBVIOUS
  <1>1. shown = [m \in Views |-> IF conditions.enabled THEN rows[m] ELSE "none"]
    BY DEF Init
  <1>2. rows \in [Msgs -> Rows]
    BY DEF Init, Rows
  <1>3. shown \in [Views -> Shown]
    BY <1>1, <1>2, TranscriptAssumption DEF Shown, Rows
  <1>4. conditions \in Conditions
    BY TranscriptAssumption DEF Init
  <1>5. swept = FALSE /\ scanning = FALSE /\ replies = <<>> /\ posted = <<>>
    BY DEF Init
  <1>6. <<>> \in Seq(Note)
    OBVIOUS
  <1>q. QED BY <1>3, <1>4, <1>5, <1>6 DEF ShowType

\* The history keeps to the messages there are.
GhostType == refused \subseteq Msgs /\ slipped \subseteq Msgs /\ unswept \subseteq Msgs /\ untold \subseteq Msgs

LEMMA GhostInit == Init => GhostType
  BY DEF Init, GhostType

LEMMA GhostStep == LostInv /\ GhostType /\ [Next]_vars => GhostType'
  <1> SUFFICES ASSUME LostInv, GhostType, [Next]_vars PROVE GhostType'
    OBVIOUS
  <1>0. /\ \A t \in lookups : t.keys \subseteq Msgs
        /\ \A ps : GoneIn(ps) \subseteq Msgs
    BY DEF LostInv, HubInv, NamesType, Lookup, GoneIn
  <1>1. CASE UNCHANGED vars
    BY <1>1 DEF GhostType, vars, ghostVars, wishVars, goneVars
  <1>2. CASE Environment
    <2>1. /\ refused' \subseteq refused /\ UNCHANGED <<unswept, untold>>
          /\ UNCHANGED slipped \/ \E m \in Views : slipped' = slipped \cup {m}
      BY <1>2 DEF Environment, CoreArrives, CoreDownloads, CoreDeletes, CoreRemoves, SetConditions,
           Transcribe, Cancel, Watch, TranscribeChat, Connected, ghostVars, wishVars, goneVars
    <2>q. QED BY <2>1, TranscriptAssumption DEF GhostType
  <1>3. CASE Deleted
    <2>1. Head(events).msg \in Msgs
      BY <1>3, EventTaken DEF LostInv, Deleted
    <2>2. PICK m : /\ m = Head(events).msg /\ UNCHANGED <<refused, untold>>
                   /\ UNCHANGED slipped \/ slipped' = slipped \cup {m}
                   /\ unswept' = unswept \ {m}
      BY <1>3 DEF Deleted
    <2>q. QED BY <2>1, <2>2 DEF GhostType
  <1>4. CASE QtThread /\ ~Deleted
    <2>1. refused' \subseteq refused /\ UNCHANGED goneVars
      <3>1. CASE Arrived
        BY <3>1 DEF Arrived
      <3>2. ASSUME NEW t \in lookups, ArrivalFound(t) \/ TapFound(t) \/ ManyFound(t) \/ AfterAccounts(t)
            PROVE  refused' \subseteq refused /\ UNCHANGED goneVars
        BY <3>2 DEF ArrivalFound, TapFound, ManyFound, AfterAccounts, QueueOne, QueueAll, wishVars
      <3>q. QED BY <1>4, <3>1, <3>2 DEF QtThread, AccountsChanged, RunEnded, Apply, ApplyDeleted, ghostVars,
              wishVars
    <2>q. QED BY <2>1 DEF GhostType, goneVars
  <1>5. CASE Tasks \/ StorePosts \/ Speech
    <2>1. ASSUME NEW t \in lookups, Listing(t) \/ Known(t) \/ Loading(t)
          PROVE  /\ UNCHANGED <<refused, untold>> /\ unswept' \subseteq unswept
                 /\ slipped' \subseteq slipped \cup GoneIn(t.profiles)
      BY <2>1 DEF Listing, Known, Loading, ghostVars, wishVars, goneVars
    <2>2. UNCHANGED ghostVars \/ \E t \in lookups : Listing(t) \/ Known(t) \/ Loading(t)
      BY <1>5 DEF Tasks, StorePosts, Speech, RunEnds
    <2>q. QED BY <1>0, <2>1, <2>2 DEF GhostType, ghostVars, wishVars, goneVars
  <1>6. ASSUME NEW t \in lookups, Fails(t) PROVE GhostType'
    <2>1. /\ refused' \subseteq refused \cup t.keys /\ UNCHANGED slipped
          /\ unswept' \subseteq unswept \cup Msgs /\ untold' \subseteq untold \cup Msgs
      BY <1>6 DEF Fails, GoneIn, ToDelete, ghostVars, wishVars, goneVars
    <2>q. QED BY <1>0, <2>1 DEF GhostType
  <1>q. QED BY <1>1, <1>2, <1>3, <1>4, <1>5, <1>6 DEF Next

\* Every reachable state of the hub, its lookups, the store and what views show is of its type.
THEOREM TypeCorrect == Spec => []TypeOK
  <1>1. LostInv /\ ShowType /\ GhostType => TypeOK
    <2> SUFFICES ASSUME LostInv, ShowType, GhostType PROVE TypeOK
      OBVIOUS
    <2>1. /\ \A i \in DOMAIN replies : replies[i] \in Note
          /\ \A i \in DOMAIN posted : posted[i] \in Note
      BY DEF ShowType
    <2>2. wanted \subseteq Msgs /\ skip \subseteq Msgs
      BY DEF LostInv, World, WantedCovered
    <2>q. QED BY <2>1, <2>2 DEF LostInv, HubInv, Jobs, NamesType, World, ShowType, GhostType, TypeOK, Note
  <1>2. Init => LostInv /\ ShowType /\ GhostType
    BY LostInit, ShowInit, GhostInit
  <1>3. LostInv /\ ShowType /\ GhostType /\ [Next]_vars => LostInv' /\ ShowType' /\ GhostType'
    BY LostStep, ShowStep, GhostStep
  <1>q. QED BY <1>1, <1>2, <1>3, PTL DEF Spec

-----------------------------------------------------------------------------
(* The text of what is gone *)

\* Event e says that m is gone, or that its profile is.
TellsGone(e, m) ==
    \/ e.kind = "deleted" /\ e.msg = m
    \/ e.kind = "accounts" /\ ProfileOf[m] \notin profiles

\* That m is gone will be handled: it is going to be told, or a lookup of the profiles goes
\* to find that its own is not there.
GoesWith(t, m) ==
    /\ t.kind = "accounts" /\ ProfileOf[m] \notin profiles
    /\ t.phase = "listing" \/ (t.phase = "known" /\ ProfileOf[m] \notin t.profiles)
Told(m) == \E i \in DOMAIN events : TellsGone(events[i], m)
AboutToGo(m) == Told(m) \/ \E t \in lookups : GoesWith(t, m)

\* m has a job, or may yet get one from a lookup.
Looks(t, m) == t.kind # "sweep" /\ m \in t.keys
Busy(m) == Live(m) \/ \E t \in lookups : Looks(t, m)

\* A row of m is going to be swept.
Sweeps(t, m) ==
    /\ t.kind = "sweep"
    /\ t.phase \in {"listing", "known"} \/ (t.phase = "loading" /\ m \in t.keys)
ToSweep(m) == ~swept \/ \E t \in lookups : Sweeps(t, m)

\* A message told of went later, and that is told later.
ToldLater(m) ==
    \A i \in DOMAIN events : events[i].kind = "message" /\ events[i].msg = m =>
        \E j \in DOMAIN events : j > i /\ TellsGone(events[j], m)

\* Messages excepted: what was found of them may stay, or nobody comes for it any more.
Spared == slipped \cup unswept

Followed(m) ==
    /\ Busy(m) => AboutToGo(m)
    /\ rows[m] # "none" => AboutToGo(m) \/ ToSweep(m)

GoneKnown(m) == status[m] = "gone" => ToldLater(m) /\ (m \notin Spared => Followed(m))

GoneInv == \A m \in Msgs : GoneKnown(m)

\* Lookups come and go as they do for m.
LEMMA GoneLookups ==
    ASSUME NEW m \in Msgs, GoneKnown(m), UNCHANGED <<status, profiles, events, swept>>,
           status[m] = "gone" /\ m \notin Spared' =>
              /\ m \in Spared => rows'[m] = "none" /\ ~Busy(m)'
              /\ Busy(m)' => Busy(m) \/ AboutToGo(m)'
              /\ rows'[m] # "none" => rows[m] # "none" \/ Busy(m) \/ AboutToGo(m)'
              /\ (\E t \in lookups : GoesWith(t, m)) => AboutToGo(m)' \/ (rows'[m] = "none" /\ ~Busy(m)')
              /\ rows'[m] # "none" /\ (\E t \in lookups : Sweeps(t, m)) => ToSweep(m)'
    PROVE  GoneKnown(m)'
  <1> SUFFICES ASSUME status[m] = "gone", m \notin Spared'
               PROVE  Followed(m)'
    BY DEF GoneKnown, ToldLater, TellsGone
  <1>0. CASE m \in Spared
    BY <1>0 DEF Followed
  <1>1. CASE m \notin Spared
    <2>1. /\ Busy(m) => AboutToGo(m)
          /\ rows[m] # "none" => AboutToGo(m) \/ ToSweep(m)
      BY <1>1 DEF GoneKnown, Followed
    <2>2. Told(m) => AboutToGo(m)'
      BY DEF TellsGone, Told, AboutToGo
    <2>3. ~swept => ToSweep(m)'
      BY DEF ToSweep
    <2>q. QED BY <1>1, <2>1, <2>2, <2>3 DEF AboutToGo, ToSweep, Followed
  <1>q. QED BY <1>0, <1>1

\* The message whose job runs, and those whose job waits.
RunsIn(run, m) == run # NoJob /\ run.job.key = m
WaitsIn(q, m)  == \E j \in q : j.key = m

\* pump: what ran still runs, unless nothing did and a job that waited has been started.
LEMMA PumpStates ==
    ASSUME NEW q, NEW run, NEW c, Jobs(q, run), OneEach(q, run), ThenPump(q, run, c)
    PROVE  /\ \A m : LiveIn(queue', running', m) = LiveIn(q, run, m)
           /\ run # NoJob => running' # NoJob
           /\ \A m : run # NoJob \/ ~RunsIn(running', m)
                 => /\ RunsIn(running', m) = RunsIn(run, m)
                    /\ WaitsIn(queue', m) = WaitsIn(q, m)
  <1>1. CASE run # NoJob
    <2>1. /\ queue' = q
          /\ running' = run \/ running' = [run EXCEPT !.requeue = TRUE, !.cancel = TRUE]
      BY <1>1 DEF ThenPump, Pump
    <2>2. running' \in Run /\ running'.job = run.job
      BY <1>1, <2>1 DEF Jobs, Run
    <2>3. running' # NoJob
      BY <2>2, NoJobAssumption
    <2>q. QED BY <1>1, <2>1, <2>2, <2>3 DEF LiveIn, RunsIn, WaitsIn
  <1>2. CASE run = NoJob
    <2> DEFINE able  == {j \in q : MayRun(j.kind, c)}
               first == {j \in able : \A k \in able \ {j} : Before(j, k)}
               next  == CHOOSE j \in first : TRUE
    <2>1. queue' = StartNext(q, c).queue /\ running' = StartNext(q, c).running
      BY <1>2 DEF ThenPump, Pump
    <2>2. CASE first = {}
      BY <2>1, <2>2, <1>2 DEF StartNext, LiveIn, RunsIn, WaitsIn
    <2>3. CASE first # {}
      <3>1. /\ queue' = q \ {next}
            /\ running' = [job |-> next, cancel |-> FALSE, requeue |-> FALSE, result |-> "none"]
        BY <2>1, <2>3 DEF StartNext
      <3>2. next \in q
        BY <2>3
      <3> HIDE DEF next
      <3>3. running' \in Run /\ running'.job = next
        BY <3>1, <3>2 DEF Jobs, Run
      <3>4. running' # NoJob
        BY <3>3, NoJobAssumption
      <3>q. QED BY <1>2, <3>1, <3>2, <3>3, <3>4 DEF LiveIn, OneEach, RunsIn, WaitsIn
    <2>q. QED BY <2>2, <2>3
  <1>q. QED BY <1>1, <1>2

\* enqueue: the jobs are those there were and those of ms.
LEMMA EnqueueWaits ==
    ASSUME HubInv, NEW ms \in SUBSET Msgs, NEW kind_ \in Kinds
    PROVE  \A m : WaitsIn(WithJobs(ms, kind_), m) = (m \in ms \/ WaitsIn(queue, m))
  <1> DEFINE Up(j) == IF j.key \in ms /\ kind_ = "Manual" /\ j.kind # "Manual"
                      THEN [j EXCEPT !.kind = "Manual", !.seq = SeqAfter(j.key, ms)] ELSE j
             New(k) == [key |-> k, kind |-> kind_, seq |-> SeqAfter(k, ms)]
             fresh  == {k \in ms : \A j \in queue : j.key # k}
  <1>1. WithJobs(ms, kind_) = {Up(j) : j \in queue} \cup {New(k) : k \in fresh}
    BY DEF WithJobs
  <1>2. \A j \in queue : Up(j).key = j.key
    BY DEF HubInv, Jobs, Job
  <1>3. \A k : New(k).key = k
    OBVIOUS
  <1> HIDE DEF Up, New
  <1>4. ASSUME NEW m, WaitsIn(WithJobs(ms, kind_), m) PROVE m \in ms \/ WaitsIn(queue, m)
    BY <1>1, <1>2, <1>3, <1>4 DEF WaitsIn
  <1>5. ASSUME NEW m, m \in ms \/ WaitsIn(queue, m) PROVE WaitsIn(WithJobs(ms, kind_), m)
    BY <1>5, EnqueueLive DEF WaitsIn
  <1>q. QED BY <1>4, <1>5 DEF WaitsIn

\* drop_key, for several: the running job runs on.
LEMMA DropStates ==
    ASSUME HubInv, NEW ms
    PROVE  /\ \A m : RunsIn(Stopped(ms), m) = RunsIn(running, m)
           /\ \A m : m \notin ms => WaitsIn(Without(ms), m) = WaitsIn(queue, m)
           /\ \A m \in ms : ~WaitsIn(Without(ms), m)
           /\ running = NoJob => Stopped(ms) = NoJob
           /\ running # NoJob => Stopped(ms) # NoJob
  <1>1. CASE running = NoJob
    BY <1>1 DEF Without, Stopped, RunsIn, WaitsIn
  <1>2. CASE running # NoJob
    <2>1. running \in Run /\ Stopped(ms) \in Run /\ Stopped(ms).job = running.job /\ Stopped(ms) # NoJob
      BY <1>2, NoJobAssumption DEF HubInv, Jobs, Stopped, Run
    <2>q. QED BY <1>2, <2>1 DEF Without, RunsIn, WaitsIn
  <1>q. QED BY <1>1, <1>2

\* QueueAll and QueueOne: jobs of others come and go only as pump starts them.
LEMMA QueueStates ==
    ASSUME HubInv, NEW ms \in SUBSET Msgs, NEW kind_ \in Kinds,
           QueueAll(ms, kind_) \/ QueueOne(ms, kind_)
    PROVE  \A m : Live(m)' => Live(m) \/ m \in ms
  <1>1. Taken(ms, kind_) \in SUBSET Msgs /\ Taken(ms, kind_) \subseteq ms
        /\ \A m \in Taken(ms, kind_) : ~(running # NoJob /\ running.job.key = m)
    BY DEF Taken, Accepts
  <1>2. CASE QueueAll(ms, kind_)
    <2>1. ThenPump(WithJobs(Taken(ms, kind_), kind_), running, conditions)
      BY <1>2 DEF QueueAll
    <2>2. /\ Jobs(WithJobs(Taken(ms, kind_), kind_), running)
          /\ OneEach(WithJobs(Taken(ms, kind_), kind_), running)
      BY <1>1, EnqueueKeeps
    <2>3. \A m : LiveIn(queue', running', m) = LiveIn(WithJobs(Taken(ms, kind_), kind_), running, m)
      BY <2>1, <2>2, PumpStates
    <2>4. \A m : WaitsIn(WithJobs(Taken(ms, kind_), kind_), m)
                 = (m \in Taken(ms, kind_) \/ WaitsIn(queue, m))
      BY <1>1, EnqueueWaits
    <2>q. QED BY <1>1, <2>3, <2>4 DEF Live, LiveIn, WaitsIn
  <1>3. CASE UNCHANGED <<queue, running>>
    BY <1>3 DEF Live
  <1>q. QED BY <1>2, <1>3 DEF QueueOne

\* Where the core, its events and its profiles stay, and lookups only come whose messages
\* are not gone, or are slipped.
LEMMA GoneStays ==
    ASSUME GoneInv, UNCHANGED <<status, profiles, events, swept>>, Spared \subseteq Spared',
           lookups \subseteq lookups',
           \A m \in Msgs : status[m] = "gone" /\ m \notin Spared' =>
              /\ Live(m)' => Busy(m)
              /\ \A t \in lookups' \ lookups : ~Looks(t, m)
              /\ rows'[m] # "none" => rows[m] # "none" \/ Busy(m)
    PROVE  GoneInv'
  <1>1. ASSUME NEW m \in Msgs PROVE GoneKnown(m)'
    <2>1. GoneKnown(m)
      BY DEF GoneInv
    <2>2. /\ (\E t \in lookups : GoesWith(t, m)) => AboutToGo(m)'
          /\ (\E t \in lookups : Sweeps(t, m)) => ToSweep(m)'
      BY DEF AboutToGo, ToSweep, GoesWith
    <2>3. status[m] = "gone" /\ m \notin Spared' => (Busy(m)' => Busy(m))
      BY DEF Busy
    <2>q. QED BY <2>1, <2>2, <2>3, GoneLookups
  <1>q. QED BY <1>1 DEF GoneInv

\* What the core does is told.
LEMMA GoneCore ==
    ASSUME LostInv, GoneInv,
           \/ \E m \in Msgs : \/ \E how \in {"partial", "there"} : CoreArrives(m, how)
                              \/ CoreDownloads(m) \/ CoreDeletes(m)
           \/ \E p \in Profiles : CoreRemoves(p)
    PROVE  GoneInv'
  <1>0. /\ status \in [Msgs -> {"absent", "partial", "there", "gone"}]
        /\ events \in Seq(Event) /\ profiles \subseteq Profiles
        /\ UNCHANGED <<queue, running, lookups, rows, swept, slipped, unswept>>
    BY DEF LostInv, World, HubInv, NamesType, CoreArrives, CoreDownloads, CoreDeletes, CoreRemoves,
           hubVars, ghostVars, goneVars
  <1>1. PICK e : events' = Append(events, e)
    BY DEF CoreArrives, CoreDownloads, CoreDeletes, CoreRemoves, Tell
  <1>2. /\ Len(events) + 1 \in DOMAIN events' /\ events'[Len(events) + 1] = e
        /\ \A i \in DOMAIN events : /\ i \in DOMAIN events' /\ events'[i] = events[i]
                                    /\ i < Len(events) + 1
        /\ \A i \in DOMAIN events' : i \in DOMAIN events \/ i = Len(events) + 1
    BY <1>0, <1>1
  <1>3. profiles' \subseteq profiles
    BY DEF CoreArrives, CoreDownloads, CoreDeletes, CoreRemoves
  \* Of a message that went now, it is told last; the others' events stay.
  <1>4. ASSUME NEW m \in Msgs,
               status'[m] = "gone" => /\ status[m] = "gone" \/ TellsGone(e, m)'
                                      /\ ~(e.kind = "message" /\ e.msg = m)
        PROVE  GoneKnown(m)'
    <2> SUFFICES ASSUME status'[m] = "gone"
                 PROVE  ToldLater(m)' /\ (m \notin Spared' => Followed(m)')
      BY DEF GoneKnown
    <2>1. CASE TellsGone(e, m)'
      <3>1. Told(m)'
        BY <1>2, <2>1 DEF Told, TellsGone
      <3>2. ToldLater(m)'
        BY <1>2, <1>4, <2>1 DEF ToldLater, TellsGone
      <3>q. QED BY <3>1, <3>2 DEF AboutToGo, Followed
    <2>2. CASE ~TellsGone(e, m)'
      <3>1. status[m] = "gone" /\ Spared' = Spared
        BY <1>0, <1>4, <2>2 DEF Spared
      <3>2. /\ ToldLater(m)
            /\ m \notin Spared => /\ Busy(m) => AboutToGo(m)
                                  /\ rows[m] # "none" => AboutToGo(m) \/ ToSweep(m)
        BY <3>1 DEF GoneInv, GoneKnown, Followed
      <3>3. Told(m) => Told(m)'
        BY <1>2, <1>3 DEF Told, TellsGone
      <3>4. (\E t \in lookups : GoesWith(t, m)) => \E t \in lookups' : GoesWith(t, m)'
        BY <1>0, <1>3 DEF GoesWith
      <3>5. AboutToGo(m) => AboutToGo(m)'
        BY <3>3, <3>4 DEF AboutToGo
      <3>6. ToldLater(m)'
        BY <1>2, <1>3, <1>4, <3>2 DEF ToldLater, TellsGone
      <3>7. (Busy(m)' => Busy(m)) /\ (ToSweep(m) => ToSweep(m)')
        BY <1>0 DEF Busy, Live, LiveIn, ToSweep
      <3>q. QED BY <1>0, <3>1, <3>2, <3>5, <3>6, <3>7 DEF Followed
    <2>q. QED BY <2>1, <2>2
  <1>5. ASSUME NEW m \in Msgs
        PROVE  status'[m] = "gone" => /\ status[m] = "gone" \/ TellsGone(e, m)'
                                      /\ ~(e.kind = "message" /\ e.msg = m)
    <2>1. ASSUME NEW k \in Msgs, NEW how \in {"partial", "there"}, CoreArrives(k, how)
          PROVE  status'[m] = "gone" => status[m] = "gone" /\ ~(e.kind = "message" /\ e.msg = m)
      <3>1. status' = [status EXCEPT ![k] = how] /\ e.msg = k
        BY <1>0, <1>1, <1>2, <2>1 DEF CoreArrives, Tell
      <3>q. QED BY <1>0, <3>1
    <2>2. ASSUME NEW k \in Msgs, CoreDownloads(k)
          PROVE  status'[m] = "gone" => status[m] = "gone" /\ ~(e.kind = "message" /\ e.msg = m)
      <3>1. status' = [status EXCEPT ![k] = "there"] /\ e.msg = k
        BY <1>0, <1>1, <1>2, <2>2 DEF CoreDownloads, Tell
      <3>q. QED BY <1>0, <3>1
    <2>3. ASSUME NEW k \in Msgs, CoreDeletes(k)
          PROVE  /\ status'[m] = "gone" => status[m] = "gone" \/ TellsGone(e, m)'
                 /\ e.kind # "message"
      <3>1. status' = [status EXCEPT ![k] = "gone"] /\ e.msg = k /\ e.kind = "deleted"
        BY <1>0, <1>1, <1>2, <2>3 DEF CoreDeletes, Tell
      <3>q. QED BY <1>0, <3>1 DEF TellsGone
    <2>4. ASSUME NEW p \in Profiles, CoreRemoves(p)
          PROVE  /\ status'[m] = "gone" => status[m] = "gone" \/ TellsGone(e, m)'
                 /\ e.kind # "message"
      <3>1. /\ status' = [k \in Msgs |-> IF ProfileOf[k] = p THEN "gone" ELSE status[k]]
            /\ e.kind = "accounts" /\ profiles' = profiles \ {p}
        BY <1>0, <1>1, <1>2, <2>4 DEF CoreRemoves, Tell
      <3>q. QED BY <1>0, <3>1 DEF TellsGone
    <2>q. QED BY <2>1, <2>2, <2>3, <2>4
  <1>q. QED BY <1>4, <1>5 DEF GoneInv

\* An event is handled: what it tells of m, or what is told of m later.
LEMMA GoneTaken ==
    ASSUME HubInv, NEW kind_, Handles(kind_), UNCHANGED profiles, NEW m
    PROVE  /\ ToldLater(m) => ToldLater(m)'
           /\ Told(m) => TellsGone(Head(events), m) \/ Told(m)'
           /\ Head(events).kind = "message" /\ Head(events).msg = m /\ ToldLater(m) => Told(m)'
  <1>1. events \in Seq(Event) /\ events # <<>> /\ events' = Tail(events)
    BY DEF HubInv, NamesType, Handles
  <1>2. /\ Head(events) = events[1] /\ 1 \in DOMAIN events
        /\ \A i \in DOMAIN events' : i \in Nat /\ i + 1 \in DOMAIN events /\ events'[i] = events[i + 1]
        /\ \A i \in DOMAIN events : i = 1 \/ (i - 1 \in DOMAIN events' /\ events'[i - 1] = events[i])
        /\ \A i \in DOMAIN events : i \in Nat
    BY <1>1
  <1>3. ToldLater(m) => ToldLater(m)'
    <2> SUFFICES ASSUME ToldLater(m), NEW i \in DOMAIN events',
                        events'[i].kind = "message", events'[i].msg = m
                 PROVE  \E j \in DOMAIN events' : j > i /\ TellsGone(events'[j], m)
      BY DEF ToldLater, TellsGone
    <2>1. PICK j \in DOMAIN events : j > i + 1 /\ TellsGone(events[j], m)
      BY <1>2 DEF ToldLater
    <2>2. j - 1 \in DOMAIN events' /\ events'[j - 1] = events[j] /\ j - 1 > i
      BY <1>2, <2>1
    <2>q. QED BY <2>1, <2>2 DEF TellsGone
  <1>4. Told(m) => TellsGone(Head(events), m) \/ Told(m)'
    BY <1>2 DEF Told, TellsGone
  <1>5. Head(events).kind = "message" /\ Head(events).msg = m /\ ToldLater(m) => Told(m)'
    <2> SUFFICES ASSUME Head(events).kind = "message", Head(events).msg = m, ToldLater(m) PROVE Told(m)'
      OBVIOUS
    <2>1. PICK j \in DOMAIN events : j > 1 /\ TellsGone(events[j], m)
      BY <1>2 DEF ToldLater
    <2>2. j - 1 \in DOMAIN events' /\ events'[j - 1] = events[j]
      BY <1>2, <2>1
    <2>q. QED BY <2>1, <2>2 DEF Told, TellsGone
  <1>q. QED BY <1>3, <1>4, <1>5

LEMMA GoneArrived == ASSUME LostInv, GoneInv, Arrived PROVE GoneInv'
  <1>0. /\ HubInv /\ Handles("message") /\ Head(events).kind = "message"
        /\ UNCHANGED <<queue, running, swept, rows, status, profiles, slipped, unswept>>
    BY DEF Arrived, LostInv, Handles, hubVars, goneVars
  <1>1. PICK h : h = Head(events).msg
    OBVIOUS
  <1>2. /\ lookups \subseteq lookups'
        /\ \A t \in lookups' \ lookups : t.kind = "arrived" /\ t.keys = {h}
    BY <1>1 DEF Arrived, NewLookup
  <1>3. ASSUME NEW m \in Msgs PROVE GoneKnown(m)'
    <2> SUFFICES ASSUME status[m] = "gone"
                 PROVE  ToldLater(m)' /\ (m \notin Spared => Followed(m)')
      BY <1>0 DEF GoneKnown, Spared
    <2>1. /\ ToldLater(m)
          /\ m \notin Spared => /\ Busy(m) => AboutToGo(m)
                                /\ rows[m] # "none" => AboutToGo(m) \/ ToSweep(m)
      BY DEF GoneInv, GoneKnown, Followed
    <2>2. /\ ToldLater(m)' /\ (Told(m) => Told(m)')
          /\ h = m => Told(m)'
      BY <1>0, <1>1, <2>1, GoneTaken DEF TellsGone
    <2>3. AboutToGo(m) => AboutToGo(m)'
      BY <1>0, <1>2, <2>2 DEF AboutToGo, GoesWith
    <2>4. Busy(m)' => Busy(m) \/ h = m
      BY <1>0, <1>2 DEF Busy, Live, Looks
    <2>5. ToSweep(m) => ToSweep(m)'
      BY <1>0, <1>2 DEF ToSweep
    <2>q. QED BY <1>0, <2>1, <2>2, <2>3, <2>4, <2>5 DEF AboutToGo, Followed
  <1>q. QED BY <1>3 DEF GoneInv

\* What was told to be gone has no row, and no job unless it runs or is looked up.
LEMMA GoneDeleted == ASSUME LostInv, GoneInv, Deleted PROVE GoneInv'
  <1>0. /\ HubInv /\ Handles("deleted") /\ UNCHANGED <<swept, lookups, status, profiles>>
        /\ rows \in [Msgs -> Rows]
    BY DEF Deleted, LostInv, World
  <1>1. PICK h : /\ h = Head(events).msg /\ queue' = Without({h}) /\ running' = Stopped({h})
                 /\ rows' = [rows EXCEPT ![h] = "none"]
                 /\ slipped' = IF (running # NoJob /\ running.job.key = h) \/ h \in LookedUp
                               THEN slipped \cup {h} ELSE slipped
                 /\ unswept' = unswept \ {h}
    BY DEF Deleted
  <1>2. /\ \A m : RunsIn(running', m) = RunsIn(running, m)
        /\ \A m : m # h => WaitsIn(queue', m) = WaitsIn(queue, m)
        /\ ~WaitsIn(queue', h)
    BY <1>0, <1>1, DropStates
  <1>3. ASSUME NEW m \in Msgs PROVE GoneKnown(m)'
    <2> SUFFICES ASSUME status[m] = "gone"
                 PROVE  ToldLater(m)' /\ (m \notin Spared' => Followed(m)')
      BY <1>0 DEF GoneKnown
    <2>1. /\ ToldLater(m)
          /\ m \notin Spared => /\ Busy(m) => AboutToGo(m)
                                /\ rows[m] # "none" => AboutToGo(m) \/ ToSweep(m)
      BY DEF GoneInv, GoneKnown, Followed
    <2>2. /\ ToldLater(m)' /\ (Told(m) => TellsGone(Head(events), m) \/ Told(m)')
      BY <1>0, <2>1, GoneTaken
    <2>3. ASSUME m = h, m \notin Spared' PROVE Followed(m)'
      <3>1. ~RunsIn(running, m) /\ m \notin LookedUp
        BY <1>1, <2>3 DEF RunsIn, Spared
      <3>2. ~Busy(m)'
        BY <1>0, <1>2, <2>3, <3>1 DEF Busy, Live, LiveIn, RunsIn, WaitsIn, Looks, LookedUp
      <3>q. QED BY <1>0, <1>1, <2>3, <3>2 DEF Followed
    <2>4. ASSUME m # h, m \notin Spared' PROVE Followed(m)'
      <3>1. Told(m) => Told(m)'
        BY <1>0, <1>1, <2>2, <2>4 DEF TellsGone, Handles
      <3>2. AboutToGo(m) => AboutToGo(m)'
        BY <1>0, <3>1 DEF AboutToGo, GoesWith
      <3>3. Busy(m)' => Busy(m)
        BY <1>0, <1>2, <2>4 DEF Busy, Live, LiveIn, RunsIn, WaitsIn, Looks
      <3>4. rows'[m] = rows[m] /\ (ToSweep(m) => ToSweep(m)')
        BY <1>0, <1>1, <2>4 DEF ToSweep
      <3>5. m \notin Spared
        BY <1>1, <2>4 DEF Spared
      <3>q. QED BY <2>1, <3>2, <3>3, <3>4, <3>5 DEF Followed
    <2>q. QED BY <2>2, <2>3, <2>4
  <1>q. QED BY <1>3 DEF GoneInv

\* The profiles are looked up.
LEMMA GoneAccounts == ASSUME LostInv, GoneInv, AccountsChanged PROVE GoneInv'
  <1>0. /\ HubInv /\ Handles("accounts")
        /\ UNCHANGED <<queue, running, swept, rows, status, profiles, slipped, unswept>>
    BY DEF AccountsChanged, LostInv, hubVars, ghostVars, goneVars
  <1>u. PICK u : u = NewLookup("accounts", "listing", {})
    OBVIOUS
  <1>1. /\ lookups' = lookups \cup {u}
        /\ u.kind = "accounts" /\ u.phase = "listing" /\ u.keys = {}
    BY <1>u DEF AccountsChanged, NewLookup
  <1>2. ASSUME NEW m \in Msgs PROVE GoneKnown(m)'
    <2> SUFFICES ASSUME status[m] = "gone"
                 PROVE  ToldLater(m)' /\ (m \notin Spared => Followed(m)')
      BY <1>0 DEF GoneKnown, Spared
    <2>1. /\ ToldLater(m)
          /\ m \notin Spared => /\ Busy(m) => AboutToGo(m)
                                /\ rows[m] # "none" => AboutToGo(m) \/ ToSweep(m)
      BY DEF GoneInv, GoneKnown, Followed
    <2>2. /\ ToldLater(m)' /\ (Told(m) => TellsGone(Head(events), m) \/ Told(m)')
      BY <1>0, <2>1, GoneTaken
    <2>3. TellsGone(Head(events), m) => GoesWith(u, m)'
      BY <1>0, <1>1 DEF TellsGone, GoesWith, Handles
    <2>4. AboutToGo(m) => AboutToGo(m)'
      BY <1>0, <1>1, <2>2, <2>3 DEF AboutToGo, GoesWith
    <2>5. Busy(m)' => Busy(m)
      BY <1>0, <1>1 DEF Busy, Live, Looks
    <2>6. ToSweep(m) => ToSweep(m)'
      BY <1>0, <1>1 DEF ToSweep
    <2>q. QED BY <1>0, <2>1, <2>2, <2>4, <2>5, <2>6 DEF Followed
  <1>q. QED BY <1>2 DEF GoneInv

\* A tap, the settings and the other things the reader does give no job to what is gone,
\* unless it is slipped; a sweep starts once the core is connected.
LEMMA GoneTouched ==
    ASSUME LostInv, GoneInv,
           \/ \E c \in Settings : SetConditions(c)
           \/ \E m \in Views : Transcribe(m) \/ Cancel(m) \/ Watch(m)
           \/ TranscribeChat \/ Connected
    PROVE  GoneInv'
  <1>0. HubInv /\ Jobs(queue, running) /\ OneEach(queue, running)
    BY DEF LostInv, HubInv
  <1>1. ASSUME NEW c \in Settings, SetConditions(c) PROVE GoneInv'
    <2>1. PICK kept, run : /\ kept = {j \in queue : Keeps(j.kind, c)}
                           /\ run = IF running # NoJob /\ ~Keeps(running.job.kind, c)
                                    THEN Stopped({running.job.key}) ELSE running
                           /\ ThenPump(kept, run, c)
      BY <1>1 DEF SetConditions
    <2>2. /\ UNCHANGED <<status, profiles, events, swept, slipped, unswept, rows>>
          /\ lookups' = lookups \cup Scan(Keeps("Backlog", c) /\ ~Keeps("Backlog", conditions))
      BY <1>1 DEF SetConditions, coreVars, goneVars
    <2>3. /\ \A m : RunsIn(run, m) = RunsIn(running, m)
          /\ Jobs(kept, run) /\ OneEach(kept, run)
      <3>1. CASE run = running
        BY <1>0, <2>1, <3>1 DEF Jobs, OneEach
      <3>2. CASE run # running
        <4>1. run = Stopped({running.job.key}) /\ kept \subseteq queue
          BY <2>1, <3>2
        <4>2. run \in Run /\ run.job = running.job /\ running # NoJob
          BY <1>0, <2>1, <3>2, <4>1 DEF Jobs, Stopped, Run
        <4>q. QED BY <1>0, <4>1, <4>2, DropStates DEF Jobs, OneEach
      <3>q. QED BY <3>1, <3>2
    <2>4. \A m : LiveIn(queue', running', m) = LiveIn(kept, run, m)
      BY <2>1, <2>3, PumpStates
    <2>5. ASSUME NEW m, Live(m)' PROVE Live(m)
      <3>1. LiveIn(kept, run, m)
        BY <2>4, <2>5 DEF Live
      <3>2. RunsIn(run, m) \/ WaitsIn(kept, m)
        BY <3>1 DEF LiveIn, RunsIn, WaitsIn
      <3>q. QED BY <2>1, <2>3, <3>2 DEF Live, LiveIn, RunsIn, WaitsIn
    <2>6. \A t \in lookups' \ lookups : t.keys = {}
      BY <2>2 DEF Scan, NewLookup
    <2>7. \A m \in Msgs : /\ Live(m)' => Busy(m)
                          /\ \A t \in lookups' \ lookups : ~Looks(t, m)
                          /\ rows'[m] = rows[m]
      BY <2>2, <2>5, <2>6 DEF Busy, Looks
    <2>q. QED BY <2>2, <2>7, GoneStays DEF Spared
  <1>2. ASSUME NEW h \in Views, Transcribe(h) PROVE GoneInv'
    <2>1. /\ UNCHANGED <<status, profiles, events, swept, rows, unswept>>
          /\ slipped' = IF status[h] = "gone" THEN slipped \cup {h} ELSE slipped
          /\ \/ ThenPump(WithJobs({h}, "Manual"), running, conditions) /\ UNCHANGED lookups
             \/ /\ UNCHANGED <<queue, running>>
                /\ lookups' = lookups \cup {NewLookup("tap", "loading", {h})}
          /\ ~(running # NoJob /\ running.job.key = h)
      BY <1>2 DEF Transcribe, coreVars, hubVars
    <2>2. h \in Msgs /\ {h} \in SUBSET Msgs /\ "Manual" \in Kinds
      BY TranscriptAssumption DEF Kinds
    <2>3. ASSUME NEW m, m # h, Live(m)' PROVE Live(m)
      <3>1. CASE ThenPump(WithJobs({h}, "Manual"), running, conditions)
        <4>1. Jobs(WithJobs({h}, "Manual"), running) /\ OneEach(WithJobs({h}, "Manual"), running)
          BY <1>0, <2>1, <2>2, EnqueueKeeps
        <4>2. LiveIn(queue', running', m) = LiveIn(WithJobs({h}, "Manual"), running, m)
          BY <3>1, <4>1, PumpStates
        <4>3. WaitsIn(WithJobs({h}, "Manual"), m) = (m \in {h} \/ WaitsIn(queue, m))
          BY <1>0, <2>2, EnqueueWaits
        <4>q. QED BY <2>3, <4>2, <4>3 DEF Live, LiveIn, WaitsIn
      <3>2. CASE UNCHANGED <<queue, running>>
        BY <2>3, <3>2 DEF Live
      <3>q. QED BY <2>1, <3>1, <3>2
    <2>4. lookups \subseteq lookups' /\ \A t \in lookups' \ lookups : t.keys = {h}
      BY <2>1 DEF NewLookup
    <2>5. \A m \in Msgs : status[m] = "gone" /\ m \notin Spared' =>
                          /\ m # h
                          /\ Live(m)' => Busy(m)
                          /\ \A t \in lookups' \ lookups : ~Looks(t, m)
                          /\ rows'[m] = rows[m]
      BY <2>1, <2>3, <2>4 DEF Busy, Looks, Spared
    <2>q. QED BY <2>1, <2>4, <2>5, GoneStays DEF Spared
  <1>3. ASSUME NEW h \in Views, Cancel(h) PROVE GoneInv'
    <2>1. /\ UNCHANGED <<status, profiles, events, swept, rows, slipped, unswept, lookups>>
          /\ queue' = Without({h}) /\ running' = Stopped({h})
      BY <1>3 DEF Cancel, coreVars, goneVars
    <2>2. \A m : Live(m)' => Live(m)
      <3>1. /\ \A m : RunsIn(running', m) = RunsIn(running, m)
            /\ \A m : WaitsIn(queue', m) => WaitsIn(queue, m)
        BY <1>0, <2>1, DropStates DEF Without, WaitsIn
      <3>q. QED BY <3>1 DEF Live, LiveIn, RunsIn, WaitsIn
    <2>3. \A m \in Msgs : Live(m)' => Busy(m)
      BY <2>2 DEF Busy
    <2>q. QED BY <2>1, <2>3, GoneStays DEF Spared
  <1>4. ASSUME NEW h \in Views, Watch(h) PROVE GoneInv'
    <2>1. UNCHANGED <<status, profiles, events, swept, rows, slipped, unswept, lookups, queue, running>>
      BY <1>4 DEF Watch, coreVars, hubVars, ghostVars, goneVars
    <2>2. \A m \in Msgs : Live(m)' => Busy(m)
      BY <2>1 DEF Busy, Live
    <2>q. QED BY <2>1, <2>2, GoneStays DEF Spared
  <1>5. CASE TranscribeChat
    <2>1. /\ UNCHANGED <<status, profiles, events, swept, rows, slipped, unswept, queue, running>>
          /\ lookups' = lookups \cup {NewLookup("chat", "listing", {})}
      BY <1>5 DEF TranscribeChat, coreVars, hubVars, ghostVars, goneVars
    <2>2. \A m \in Msgs : /\ Live(m)' => Busy(m)
                          /\ \A t \in lookups' \ lookups : ~Looks(t, m)
      BY <2>1 DEF Busy, Live, Looks, NewLookup
    <2>q. QED BY <2>1, <2>2, GoneStays DEF Spared
  <1>6. CASE Connected
    <2>1. PICK new, scan : /\ new = (IF swept THEN {} ELSE {NewLookup("sweep", "listing", {})})
                           /\ scan = Scan(Keeps("Backlog", conditions))
                           /\ lookups' = lookups \cup new \cup scan
      BY <1>6 DEF Connected
    <2>2. UNCHANGED <<status, profiles, events, rows, slipped, unswept, queue, running>>
      BY <1>6 DEF Connected, coreVars, ghostVars, goneVars
    <2>u. PICK u : u = NewLookup("sweep", "listing", {})
      OBVIOUS
    <2>3. /\ \A t \in new \cup scan : t.keys = {}
          /\ ~swept => u \in new
          /\ u.kind = "sweep" /\ u.phase = "listing"
      BY <2>1, <2>u DEF Scan, NewLookup
    <2>4. ASSUME NEW m \in Msgs PROVE GoneKnown(m)'
      <3>1. Busy(m)' => Busy(m)
        BY <2>1, <2>2, <2>3 DEF Busy, Live, Looks
      <3>2. (AboutToGo(m) => AboutToGo(m)') /\ (ToldLater(m) => ToldLater(m)')
        BY <2>1, <2>2 DEF AboutToGo, Told, TellsGone, GoesWith, ToldLater
      <3>3. ToSweep(m) => ToSweep(m)'
        BY <2>1, <2>3 DEF ToSweep, Sweeps
      <3>q. QED BY <2>2, <3>1, <3>2, <3>3 DEF GoneInv, GoneKnown, Followed, Spared
    <2>q. QED BY <2>4 DEF GoneInv
  <1>q. QED BY <1>1, <1>2, <1>3, <1>4, <1>5, <1>6

\* A task goes on.
LEMMA GoneTask ==
    ASSUME GoneInv, NEW t \in lookups, NEW u, lookups' = (lookups \ {t}) \cup {u},
           UNCHANGED <<queue, running, status, profiles, events, swept>>,
           \A m \in Msgs : status[m] = "gone" /\ m \notin Spared' =>
              /\ m \in Spared => rows'[m] = "none" /\ ~Busy(m)
              /\ Looks(u, m) => Looks(t, m)
              /\ rows'[m] # "none" => rows[m] # "none"
              /\ GoesWith(t, m) => GoesWith(u, m) \/ (rows'[m] = "none" /\ ~Busy(m))
              /\ rows'[m] # "none" /\ Sweeps(t, m) => Sweeps(u, m)
    PROVE  GoneInv'
  <1>1. ASSUME NEW m \in Msgs PROVE GoneKnown(m)'
    <2>1. GoneKnown(m)
      BY DEF GoneInv
    <2>2. ASSUME status[m] = "gone", m \notin Spared'
          PROVE  /\ m \in Spared => rows'[m] = "none" /\ ~Busy(m)'
                 /\ Busy(m)' => Busy(m)
                 /\ rows'[m] # "none" => rows[m] # "none"
                 /\ (\E v \in lookups : GoesWith(v, m)) => AboutToGo(m)' \/ (rows'[m] = "none" /\ ~Busy(m)')
                 /\ rows'[m] # "none" /\ (\E v \in lookups : Sweeps(v, m)) => ToSweep(m)'
      <3>1. Live(m)' = Live(m)
        BY DEF Live
      <3>2. Busy(m)' => Busy(m)
        BY <2>2, <3>1 DEF Busy
      <3>3. \A v : GoesWith(v, m)' = GoesWith(v, m)
        BY DEF GoesWith
      <3>4. ASSUME NEW v \in lookups, GoesWith(v, m)
            PROVE  AboutToGo(m)' \/ (rows'[m] = "none" /\ ~Busy(m)')
        BY <2>2, <3>2, <3>3, <3>4 DEF AboutToGo
      <3>5. ASSUME NEW v \in lookups, Sweeps(v, m), rows'[m] # "none" PROVE ToSweep(m)'
        BY <2>2, <3>5 DEF ToSweep
      <3>q. QED BY <2>2, <3>2, <3>4, <3>5
    <2>q. QED BY <2>1, <2>2, GoneLookups
  <1>q. QED BY <1>1 DEF GoneInv

\* A task that ends gives a job or a row only to what was looked up.
LEMMA GoneEnds ==
    ASSUME GoneInv, NEW t \in lookups, t.phase = "answered" \/ t.kind = "arrived", lookups' = lookups \ {t},
           UNCHANGED <<status, profiles, events, swept, slipped, unswept>>,
           \A m \in Msgs : /\ Live(m)' => Busy(m)
                           /\ rows'[m] # "none" => rows[m] # "none" \/ Busy(m)
    PROVE  GoneInv'
  <1>1. ASSUME NEW m \in Msgs PROVE GoneKnown(m)'
    <2>1. GoneKnown(m)
      BY DEF GoneInv
    <2>2. Busy(m)' => Busy(m)
      BY DEF Busy
    <2>3. ~GoesWith(t, m) /\ ~Sweeps(t, m)
      BY DEF GoesWith, Sweeps
    <2>4. /\ (\E v \in lookups : GoesWith(v, m)) => AboutToGo(m)'
          /\ (\E v \in lookups : Sweeps(v, m)) => ToSweep(m)'
      BY <2>3 DEF AboutToGo, ToSweep, GoesWith
    <2>q. QED BY <2>1, <2>2, <2>4, GoneLookups DEF Spared
  <1>q. QED BY <1>1 DEF GoneInv

\* Asked of the core: only what it still has is named; the profiles it still has are known.
LEMMA GoneListing == ASSUME LostInv, GoneInv, NEW t \in lookups, Listing(t) PROVE GoneInv'
  <1>1. /\ UNCHANGED <<queue, running, rows, status, profiles, events, swept, slipped, unswept>>
        /\ t.phase = "listing" /\ t \in Lookup
    BY DEF Listing, hubVars, coreVars, ghostVars, goneVars, LostInv, HubInv, NamesType
  <1>2. PICK u : /\ lookups' = (lookups \ {t}) \cup {u}
                 /\ u = [t EXCEPT !.phase = "known", !.profiles = profiles,
                                  !.keys = IF Many(t) THEN Voices ELSE {}]
    BY DEF Listing, Becomes
  <1>3. /\ u.kind = t.kind /\ u.profiles = profiles /\ u.phase = "known"
        /\ u.keys = (IF Many(t) THEN Voices ELSE {})
    BY <1>1, <1>2 DEF Lookup
  <1>4. \A m \in Msgs : status[m] = "gone" =>
                        /\ ~Looks(u, m)
                        /\ GoesWith(t, m) => GoesWith(u, m)
                        /\ Sweeps(t, m) => Sweeps(u, m)
    BY <1>3 DEF Looks, Voices, GoesWith, Sweeps
  <1>q. QED BY <1>1, <1>2, <1>4, GoneTask DEF Spared

\* Asked of the store: a lookup of the profiles clears what is gone with them.
LEMMA GoneOfKnown == ASSUME LostInv, GoneInv, NEW t \in lookups, Known(t) PROVE GoneInv'
  <1>1. /\ UNCHANGED <<queue, running, status, profiles, events, swept>>
        /\ t.phase = "known" /\ t \in Lookup
    BY DEF Known, hubVars, coreVars, LostInv, HubInv, NamesType
  <1>2. CASE t.kind = "arrived" \/ Many(t)
    <2>1. UNCHANGED <<rows, slipped, unswept>>
      BY <1>2 DEF Known, Many
    <2>2. PICK u : /\ lookups' = (lookups \ {t}) \cup {u}
                   /\ \/ u = [t EXCEPT !.phase = "answered", !.found = "none"]
                      \/ u = [t EXCEPT !.phase = "loading"]
                      \/ u = [t EXCEPT !.phase = "loading", !.keys = {m \in @ : rows[m] = "none"}]
      BY <1>2 DEF Known, Becomes, Many
    <2>3. u.kind = t.kind /\ u.keys \subseteq t.keys
      BY <1>1, <2>2 DEF Lookup
    <2>4. \A m \in Msgs : (Looks(u, m) => Looks(t, m)) /\ ~GoesWith(t, m) /\ ~Sweeps(t, m)
      BY <1>2, <2>3 DEF Looks, GoesWith, Sweeps, Many
    <2>q. QED BY <1>1, <2>1, <2>2, <2>4, GoneTask DEF Spared
  <1>3. CASE t.kind \in {"sweep", "accounts"}
    <2>1. /\ rows' = [m \in Msgs |-> IF m \in GoneIn(t.profiles) THEN "none" ELSE rows[m]]
          /\ slipped' = slipped \cup {m \in GoneIn(t.profiles) : Live(m) \/ m \in LookedUp}
          /\ unswept' = unswept \ GoneIn(t.profiles)
      BY <1>3 DEF Known, Many
    <2>2. PICK u : /\ lookups' = (lookups \ {t}) \cup {u}
                   /\ u = IF t.kind = "sweep"
                          THEN [t EXCEPT !.phase = "loading", !.keys = {m \in Msgs : rows'[m] # "none"}]
                          ELSE [t EXCEPT !.phase = "answered"]
      BY <1>3 DEF Known, Becomes, Many
    <2>3. /\ u.kind = t.kind
          /\ t.kind = "sweep" => u.phase = "loading" /\ u.keys = {m \in Msgs : rows'[m] # "none"}
          /\ t.kind = "accounts" => u.keys = t.keys
      BY <1>1, <1>3, <2>2 DEF Lookup
    <2>4. ASSUME NEW m \in GoneIn(t.profiles), m \notin Spared' PROVE rows'[m] = "none" /\ ~Busy(m)
      <3>1. m \in Msgs /\ ~Live(m) /\ m \notin LookedUp
        BY <2>1, <2>4 DEF GoneIn, Spared
      <3>q. QED BY <2>1, <2>4, <3>1 DEF Busy, Looks, LookedUp
    <2>5. \A m \in Msgs : GoesWith(t, m) => m \in GoneIn(t.profiles)
      BY <1>1 DEF GoesWith, GoneIn
    <2>6. \A m \in Msgs : /\ Looks(u, m) => Looks(t, m)
                          /\ rows'[m] # "none" => rows[m] # "none"
                          /\ rows'[m] # "none" /\ Sweeps(t, m) => Sweeps(u, m)
      BY <1>3, <2>1, <2>3 DEF Looks, Sweeps
    \* Of those spared so far, what is left is cleared now.
    <2>7. ASSUME NEW m \in Msgs, m \in Spared, m \notin Spared' PROVE rows'[m] = "none" /\ ~Busy(m)
      <3>1. m \in GoneIn(t.profiles)
        BY <2>1, <2>7 DEF Spared
      <3>q. QED BY <2>4, <2>7, <3>1
    <2>8. \A m \in Msgs : m \notin Spared' =>
             /\ m \in Spared => rows'[m] = "none" /\ ~Busy(m)
             /\ GoesWith(t, m) => GoesWith(u, m) \/ (rows'[m] = "none" /\ ~Busy(m))
      BY <2>4, <2>5, <2>7
    <2>q. QED BY <1>1, <2>2, <2>6, <2>8, GoneTask DEF Spared
  <1>q. QED BY <1>2, <1>3 DEF Known

\* The core is asked for the messages: a sweep clears those it looked through.
LEMMA GoneLoading == ASSUME LostInv, GoneInv, NEW t \in lookups, Loading(t) PROVE GoneInv'
  <1>1. /\ UNCHANGED <<queue, running, status, profiles, events, swept, slipped, unswept>>
        /\ t.phase = "loading" /\ t \in Lookup
    BY DEF Loading, hubVars, coreVars, ghostVars, goneVars, LostInv, HubInv, NamesType
  <1>2. CASE t.kind = "arrived" /\ ~(t.keys \subseteq Voices)
    <2>1. lookups' = lookups \ {t} /\ UNCHANGED rows
      BY <1>2 DEF Loading, Ends, Many
    <2>2. \A m \in Msgs : Live(m)' => Busy(m)
      BY <1>1 DEF Live, Busy
    <2>q. QED BY <1>1, <1>2, <2>1, <2>2, GoneEnds DEF Spared
  <1>3. CASE ~(t.kind = "arrived" /\ ~(t.keys \subseteq Voices))
    <2>1. PICK u : /\ lookups' = (lookups \ {t}) \cup {u}
                   /\ \/ u = [t EXCEPT !.phase = "answered"]
                      \/ u = [t EXCEPT !.phase = "answered",
                                       !.found = IF t.keys \subseteq Voices THEN "some" ELSE "none"]
                      \/ u = [t EXCEPT !.phase = "answered", !.keys = @ \cap Voices]
      BY <1>3 DEF Loading, Becomes, Many
    <2>2. u.kind = t.kind /\ u.keys \subseteq t.keys
      BY <1>1, <2>1 DEF Lookup
    <2>3. \A m \in Msgs : (Looks(u, m) => Looks(t, m)) /\ ~GoesWith(t, m)
      BY <1>1, <2>2 DEF Looks, GoesWith
    <2>4. ASSUME NEW m \in Msgs, status[m] = "gone"
          PROVE  /\ rows'[m] # "none" => rows[m] # "none"
                 /\ rows'[m] # "none" => ~Sweeps(t, m)
      <3>1. CASE t.kind = "sweep"
        <4>1. rows' = [k \in Msgs |-> IF k \in t.keys /\ status[k] = "gone" THEN "none" ELSE rows[k]]
          BY <3>1 DEF Loading, Many
        <4>q. QED BY <1>1, <2>4, <4>1 DEF Sweeps
      <3>2. CASE t.kind # "sweep"
        BY <3>2 DEF Loading, Sweeps
      <3>q. QED BY <3>1, <3>2
    <2>q. QED BY <1>1, <2>1, <2>3, <2>4, GoneTask DEF Spared
  <1>q. QED BY <1>2, <1>3

\* A call fails: of what is gone, what only that call would have cleared is spared.
LEMMA GoneFails == ASSUME LostInv, GoneInv, NEW t \in lookups, Fails(t) PROVE GoneInv'
  <1>1. /\ UNCHANGED <<queue, running, status, profiles, events, swept>>
        /\ t \in Lookup /\ t.phase \in {"listing", "loading"}
    BY DEF Fails, hubVars, coreVars, LostInv, HubInv, NamesType
  <1>2. CASE t.kind = "tap" \/ Many(t)
    <2>1. PICK u : /\ lookups' = (lookups \ {t}) \cup {u} /\ UNCHANGED <<rows, slipped, unswept>>
                   /\ u = [t EXCEPT !.phase = "answered", !.found = "error"]
      BY <1>2 DEF Fails, Becomes, Many, ghostVars, goneVars
    <2>2. u.kind = t.kind /\ u.keys = t.keys
      BY <1>1, <2>1 DEF Lookup
    <2>3. \A m \in Msgs : (Looks(u, m) => Looks(t, m)) /\ ~GoesWith(t, m) /\ ~Sweeps(t, m)
      BY <1>2, <2>2 DEF Looks, GoesWith, Sweeps, Many
    <2>q. QED BY <1>1, <2>1, <2>3, GoneTask DEF Spared
  <1>3. CASE t.kind = "arrived"
    <2>1. lookups' = lookups \ {t} /\ UNCHANGED <<rows, slipped, unswept>>
      BY <1>3 DEF Fails, Ends, Many, goneVars
    <2>2. \A m \in Msgs : Live(m)' => Busy(m)
      BY <1>1 DEF Live, Busy
    <2>q. QED BY <1>1, <1>3, <2>1, <2>2, GoneEnds DEF Spared
  <1>4. CASE t.kind \in {"accounts", "sweep"}
    <2>1. lookups' = lookups \ {t}
      BY <1>4 DEF Fails, Ends, Many
    <2>2. \A m \in Msgs : (Busy(m)' => Busy(m)) /\ (Told(m) => Told(m)') /\ (ToldLater(m) => ToldLater(m)')
      BY <1>1, <2>1 DEF Busy, Live, Told, ToldLater, TellsGone
    <2>3. /\ rows' \in [Msgs -> Rows] /\ Spared \subseteq Spared'
          /\ \A m \in Msgs : rows'[m] # "none" => rows'[m] = rows[m]
      BY <1>4 DEF Fails, Many, Spared, Rows, LostInv, World
    \* Whom it would have cleared.
    <2>4. ASSUME NEW m \in Msgs, status[m] = "gone", m \notin Spared'
          PROVE  /\ GoesWith(t, m) => rows'[m] = "none" /\ ~Busy(m)
                 /\ Sweeps(t, m) => rows'[m] = "none"
      <3>1. CASE t.kind = "accounts"
        <4>1. GoesWith(t, m) => m \in GoneIn(profiles)
          BY DEF GoesWith, GoneIn
        <4>2. /\ unswept' = unswept \cup {k \in GoneIn(profiles) :
                                            rows[k] # "none" \/ Live(k) \/ k \in LookedUp}
              /\ UNCHANGED rows
          BY <3>1 DEF Fails, Many
        <4>3. Busy(m) => Live(m) \/ m \in LookedUp
          BY DEF Busy, Looks, LookedUp
        <4>q. QED BY <2>4, <3>1, <4>1, <4>2, <4>3 DEF Sweeps, Spared
      <3>2. CASE t.kind = "sweep"
        <4>1. PICK ms : /\ rows' = [k \in Msgs |-> IF k \in ms THEN "none" ELSE rows[k]]
                        /\ unswept' = unswept \cup (ToDelete(t) \ ms)
          BY <3>2 DEF Fails, Many
        <4>2. CASE m \in ms
          BY <3>2, <4>1, <4>2 DEF GoesWith
        <4>3. CASE m \notin ms
          <5>1. m \notin ToDelete(t) /\ rows'[m] = rows[m]
            BY <2>4, <4>1, <4>3 DEF Spared
          <5>q. QED BY <1>1, <2>4, <3>2, <5>1 DEF ToDelete, Sweeps, GoesWith
        <4>q. QED BY <4>2, <4>3
      <3>q. QED BY <1>4, <3>1, <3>2
    <2>5. ASSUME NEW m \in Msgs PROVE GoneKnown(m)'
      <3>1. GoneKnown(m)
        BY DEF GoneInv
      <3>2. ASSUME NEW v \in lookups, v # t
            PROVE  (GoesWith(v, m) => AboutToGo(m)') /\ (Sweeps(v, m) => ToSweep(m)')
        BY <1>1, <2>1, <3>2 DEF AboutToGo, ToSweep, GoesWith
      <3>3. ASSUME status[m] = "gone", m \notin Spared'
            PROVE  /\ (\E v \in lookups : GoesWith(v, m)) => AboutToGo(m)' \/ (rows'[m] = "none" /\ ~Busy(m)')
                   /\ rows'[m] # "none" /\ (\E v \in lookups : Sweeps(v, m)) => ToSweep(m)'
        BY <2>2, <2>4, <3>2, <3>3
      <3>q. QED BY <1>1, <2>2, <2>3, <3>1, <3>3, GoneLookups
    <2>q. QED BY <2>5 DEF GoneInv
  <1>q. QED BY <1>2, <1>3, <1>4 DEF Fails

LEMMA GoneArrivalFound == ASSUME LostInv, GoneInv, NEW t \in lookups, ArrivalFound(t) PROVE GoneInv'
  <1>1. /\ UNCHANGED <<status, profiles, events, swept, slipped, unswept>> /\ lookups' = lookups \ {t}
        /\ t.kind = "arrived" /\ t.phase = "answered" /\ t \in Lookup /\ UNCHANGED rows
    BY DEF ArrivalFound, Ends, coreVars, goneVars, LostInv, HubInv, NamesType, QueueOne, QueueAll
  <1>2. \A m \in Msgs : Live(m)' => Live(m) \/ m \in t.keys
    <2>1. CASE QueueOne(t.keys, "New")
      <3>1. t.keys \in SUBSET Msgs /\ "New" \in Kinds /\ HubInv
        BY <1>1 DEF Lookup, Kinds, LostInv
      <3>q. QED BY <2>1, <3>1, QueueStates
    <2>2. CASE UNCHANGED <<queue, running>>
      BY <2>2 DEF Live
    <2>q. QED BY <2>1, <2>2 DEF ArrivalFound
  <1>3. \A m \in Msgs : Live(m)' => Busy(m)
    BY <1>1, <1>2 DEF Busy, Looks
  <1>q. QED BY <1>1, <1>3, GoneEnds DEF Spared

LEMMA GoneTapFound == ASSUME LostInv, GoneInv, NEW t \in lookups, TapFound(t) PROVE GoneInv'
  <1>1. /\ UNCHANGED <<status, profiles, events, swept, slipped, unswept>> /\ lookups' = lookups \ {t}
        /\ t.kind = "tap" /\ t.phase = "answered" /\ t \in Lookup /\ LookupKnows(t)
        /\ rows \in [Msgs -> Rows]
    BY DEF TapFound, Ends, coreVars, goneVars, LostInv, World, HubInv, NamesType
  <1>2. PICK k \in Msgs : t.keys = {k}
    BY <1>1 DEF LookupKnows
  <1>3. CASE t.found = "some"
    <2>1. QueueOne({k}, "Manual") /\ UNCHANGED rows
      BY <1>2, <1>3 DEF TapFound, QueueOne, QueueAll
    <2>2. {k} \in SUBSET Msgs /\ "Manual" \in Kinds /\ HubInv
      BY DEF Kinds, LostInv
    <2>3. \A m : Live(m)' => Live(m) \/ m \in {k}
      BY <2>1, <2>2, QueueStates
    <2>4. \A m \in Msgs : Live(m)' => Busy(m)
      BY <1>1, <1>2, <2>3 DEF Busy, Looks
    <2>q. QED BY <1>1, <2>1, <2>4, GoneEnds DEF Spared
  <1>4. CASE t.found # "some"
    <2>1. k = CHOOSE m \in t.keys : TRUE
      BY <1>2
    <2>2. rows' = [rows EXCEPT ![k] = "failed"] /\ UNCHANGED <<queue, running>>
      BY <1>4, <2>1 DEF TapFound, Write
    <2>3. \A m \in Msgs : /\ Live(m)' => Busy(m)
                          /\ rows'[m] # "none" => rows[m] # "none" \/ Busy(m)
      BY <1>1, <1>2, <2>2 DEF Busy, Looks, Live
    <2>q. QED BY <1>1, <2>3, GoneEnds DEF Spared
  <1>q. QED BY <1>3, <1>4

LEMMA GoneManyFound == ASSUME LostInv, GoneInv, NEW t \in lookups, ManyFound(t) PROVE GoneInv'
  <1>1. /\ UNCHANGED <<status, profiles, events, swept, slipped, unswept>> /\ lookups' = lookups \ {t}
        /\ t.kind # "sweep" /\ t.phase = "answered" /\ t \in Lookup /\ UNCHANGED rows
    BY DEF ManyFound, Many, Ends, coreVars, goneVars, LostInv, HubInv, NamesType, QueueAll
  <1>2. \A m \in Msgs : Live(m)' => Live(m) \/ m \in t.keys
    <2>1. CASE UNCHANGED <<queue, running>>
      BY <2>1 DEF Live
    <2>2. CASE \E ms \in SUBSET t.keys, kind_ \in Kinds : QueueAll(ms, kind_)
      <3>1. PICK ms \in SUBSET t.keys, kind_ \in Kinds : QueueAll(ms, kind_)
        BY <2>2
      <3>2. ms \in SUBSET Msgs /\ HubInv
        BY <1>1 DEF Lookup, LostInv
      <3>q. QED BY <3>1, <3>2, QueueStates
    <2>3. (t.keys \ Own) \in SUBSET t.keys /\ t.keys \in SUBSET t.keys /\ {"Manual", "Backlog"} \subseteq Kinds
      BY DEF Kinds
    <2>q. QED BY <2>1, <2>2, <2>3 DEF ManyFound
  <1>3. \A m \in Msgs : Live(m)' => Busy(m)
    BY <1>1, <1>2 DEF Busy, Looks
  <1>q. QED BY <1>1, <1>3, GoneEnds DEF Spared

LEMMA GoneAfter == ASSUME LostInv, GoneInv, NEW t \in lookups, AfterAccounts(t) PROVE GoneInv'
  <1>1. /\ UNCHANGED <<status, profiles, events, swept, slipped, unswept, rows>> /\ lookups' = lookups \ {t}
        /\ t.phase = "answered" /\ HubInv
    BY DEF AfterAccounts, Ends, coreVars, goneVars, LostInv
  <1>2. PICK gone : queue' = Without(gone) /\ running' = Stopped(gone)
    BY DEF AfterAccounts
  <1>3. /\ \A m : RunsIn(running', m) = RunsIn(running, m)
        /\ \A m : WaitsIn(queue', m) => WaitsIn(queue, m)
    BY <1>1, <1>2, DropStates DEF Without, WaitsIn
  <1>4. \A m \in Msgs : Live(m)' => Busy(m)
    BY <1>3 DEF Busy, Live, LiveIn, RunsIn, WaitsIn
  <1>q. QED BY <1>1, <1>4, GoneEnds DEF Spared

\* A run that ended: its message had a job.
LEMMA GoneRunEnded == ASSUME LostInv, GoneInv, RunEnded PROVE GoneInv'
  <1>p. PICK m, again : /\ m = running.job.key
                        /\ again = IF running.result = "cancelled" /\ running.requeue
                                   THEN {running.job} ELSE {}
    OBVIOUS
  <1>1. /\ ThenPump(queue \cup again, NoJob, conditions) /\ running # NoJob
        /\ UNCHANGED <<lookups, status, profiles, events, swept, slipped, unswept>>
        /\ HubInv /\ rows \in [Msgs -> Rows]
    BY <1>p DEF RunEnded, coreVars, ghostVars, goneVars, LostInv, World
  <1>2. running \in Run /\ running.job \in Job /\ m \in Msgs
    BY <1>p, <1>1 DEF HubInv, Jobs, Run, Job
  <1>3. Jobs(queue \cup again, NoJob) /\ OneEach(queue \cup again, NoJob)
    BY <1>p, <1>1, <1>2 DEF HubInv, Jobs, OneEach
  <1>4. \A k : Live(k)' = LiveIn(queue \cup again, NoJob, k)
    BY <1>1, <1>3, PumpStates DEF Live
  <1>5. \A k : Live(k)' => Live(k)
    BY <1>p, <1>1, <1>4 DEF Live, LiveIn
  <1>6. \/ UNCHANGED rows
        \/ \E row : rows' = [rows EXCEPT ![m] = row]
    BY <1>p DEF RunEnded, Write
  <1>7. \A k \in Msgs : /\ Live(k)' => Busy(k)
                        /\ rows'[k] # "none" => rows[k] # "none" \/ Busy(k)
    BY <1>p, <1>1, <1>5, <1>6 DEF Busy, Live, LiveIn
  <1>q. QED BY <1>1, <1>7, GoneStays DEF Spared

LEMMA GoneInit == Init => GoneInv
  BY DEF Init, GoneInv, GoneKnown, Followed, Busy, Live, LiveIn, ToSweep, ToldLater

LEMMA GoneStep == LostInv /\ GoneInv /\ [Next]_vars => GoneInv'
  <1> SUFFICES ASSUME LostInv, GoneInv, [Next]_vars PROVE GoneInv'
    OBVIOUS
  <1>1. CASE UNCHANGED vars \/ StorePosts \/ Apply \/ ApplyDeleted \/ Speech
    <2>1. UNCHANGED <<queue, rows, status, profiles, events, swept, lookups, slipped, unswept>>
      BY <1>1 DEF vars, StorePosts, Apply, ApplyDeleted, Speech, RunEnds, hubVars, coreVars, ghostVars, goneVars
    <2>2. \A m : Live(m)' => Live(m)
      <3>1. CASE running' = running
        BY <2>1, <3>1 DEF Live
      <3>2. CASE running # NoJob /\ \E result : running' = [running EXCEPT !.result = result]
        BY <2>1, <3>2 DEF Live, LiveIn, LostInv, HubInv, Jobs, Run
      <3>q. QED BY <1>1, <3>1, <3>2 DEF vars, StorePosts, Apply, ApplyDeleted, Speech, RunEnds, hubVars
    <2>3. \A m \in Msgs : Live(m)' => Busy(m)
      BY <2>2 DEF Busy
    <2>q. QED BY <2>1, <2>3, GoneStays DEF Spared
  <1>2. CASE Environment
    BY <1>2, GoneCore, GoneTouched DEF Environment
  <1>3. CASE QtThread
    BY <1>1, <1>3, GoneArrived, GoneDeleted, GoneAccounts, GoneArrivalFound, GoneTapFound,
       GoneManyFound, GoneAfter, GoneRunEnded DEF QtThread
  <1>4. CASE Tasks
    BY <1>4, GoneListing, GoneOfKnown, GoneLoading DEF Tasks
  <1>5. CASE \E t \in lookups : Fails(t)
    BY <1>5, GoneFails
  <1>q. QED BY <1>1, <1>2, <1>3, <1>4, <1>5 DEF Next

\* The text of a message that is gone does not stay, however its deletion crosses its arrival,
\* taps, searches, sweeps and runs: once nothing is under way, it has a row only if it was being
\* made or looked up when its row was deleted, the reader tapped it afterwards, or it was left by
\* a sweep, or by the last look at the profiles, that failed (deleted, swept, accounts_changed).
THEOREM GoneAreSwept == Spec => []GoneLeavesNoRow
  <1>1. GoneInv => GoneLeavesNoRow
    <2> SUFFICES ASSUME GoneInv, Quiet, swept, NEW m \in Msgs, status[m] = "gone", rows[m] # "none"
                 PROVE  m \in slipped \cup unswept
      BY DEF GoneLeavesNoRow
    <2>1. ~AboutToGo(m) /\ ~ToSweep(m)
      BY DEF AboutToGo, Told, ToSweep, Quiet
    <2>q. QED BY <2>1 DEF GoneInv, GoneKnown, Followed, Spared
  <1>2. Init => LostInv /\ GoneInv
    BY LostInit, GoneInit
  <1>3. LostInv /\ GoneInv /\ [Next]_vars => LostInv' /\ GoneInv'
    BY LostStep, GoneStep
  <1>q. QED BY <1>1, <1>2, <1>3, PTL DEF Spec

-----------------------------------------------------------------------------
(* Views show what is *)

\* What is on its way to the views, in the order it will be applied.
Pend == posted \o replies

\* Notes s name m, ask for it again, and say of it last that its row is row_.
About(s, m)   == \E i \in DOMAIN s : s[i].key = m
AgainIn(s, m) == \E i \in DOMAIN s : s[i].key = m /\ s[i].row = "again"
LastIn(s, m, row_) ==
    \E i \in DOMAIN s : /\ s[i].key = m /\ s[i].row = row_
                        /\ \A j \in DOMAIN s : j > i => s[j].key # m

\* Notes s and t say the same of m.
SameNotes(s, t, m) ==
    /\ About(s, m) <=> About(t, m)
    /\ AgainIn(s, m) <=> AgainIn(t, m)
    /\ \A row_ : LastIn(s, m, row_) <=> LastIn(t, m, row_)

\* What is shown of m does not depend on what the store answers.
Fixed(m) == ~conditions.enabled \/ Live(m)

\* A sweep has taken the row of m, which is gone, and has told nobody yet, or has failed.
Hides(t, m) ==
    \/ t.kind = "sweep" /\ t.phase = "loading" /\ ProfileOf[m] \notin t.profiles
    \/ /\ t.kind \in {"sweep", "accounts"} /\ t.phase = "answered"
       /\ ProfileOf[m] \notin t.profiles \/ m \in t.keys
Hidden(m) == \E t \in lookups : Hides(t, m)
Stale(m) == rows[m] = "none" /\ status[m] = "gone" /\ (m \in untold \/ Hidden(m))

\* A view of m shows what is, or will once what is on its way has come.
InSync(m) ==
    \/ AgainIn(Pend, m)
    \/ Stale(m)
    \/ ~About(Pend, m) /\ shown[m] = ToShow(m)
    \/ Fixed(m) /\ About(Pend, m)
    \/ ~Fixed(m) /\ LastIn(Pend, m, rows[m])

SyncInv == \A m \in Views : InSync(m)

\* A finite set in some order holds each of its members, once.
LEMMA OrderedAll ==
    ASSUME NEW S, IsFiniteSet(S)
    PROVE  /\ \A x \in S : \E i \in DOMAIN SetToSeq(S) : SetToSeq(S)[i] = x
           /\ \A i, j \in DOMAIN SetToSeq(S) : SetToSeq(S)[i] = SetToSeq(S)[j] => i = j
           /\ \A i \in DOMAIN SetToSeq(S) : SetToSeq(S)[i] \in S
  <1>1. Cardinality(S) \in Nat /\ ExistsBijection(1..Cardinality(S), S)
    BY FS_CardinalityType
  <1>2. PICK f \in [1..Cardinality(S) -> S] : IsInjective(f)
    BY <1>1 DEF ExistsBijection, Bijection, Injection
  <1>3. SetToSeq(S) \in [1..Cardinality(S) -> S] /\ IsInjective(SetToSeq(S))
    BY <1>2 DEF SetToSeq
  <1>4. SetToSeq(S) \in Injection(1..Cardinality(S), S)
    BY <1>3 DEF Injection
  <1>5. Cardinality(1..Cardinality(S)) = Cardinality(S)
    BY <1>1, FS_Interval
  <1>6. SetToSeq(S) \in Surjection(1..Cardinality(S), S)
    BY <1>4, <1>5, FS_Injection
  <1>7. \A x \in S : \E i \in DOMAIN SetToSeq(S) : SetToSeq(S)[i] = x
    BY <1>3, <1>6 DEF Surjection
  <1>q. QED BY <1>3, <1>7 DEF IsInjective

\* Notes s say row_ of each of ms, and nothing of others.
TellOf(s, ms, row_) ==
    /\ \A m \in ms : About(s, m) /\ LastIn(s, m, row_[m])
    /\ \A m : m \notin ms => ~About(s, m) /\ ~AgainIn(s, m) /\ \A r : ~LastIn(s, m, r)
    /\ s \in Seq(Note)

LEMMA NotesTell ==
    ASSUME NEW ms \in SUBSET Views, NEW row_, \A m \in ms : row_[m] \in Rows
    PROVE  TellOf(SetToSeq({[key |-> m, row |-> row_[m]] : m \in ms}), ms, row_)
  <1>s. PICK s : s = SetToSeq({[key |-> m, row |-> row_[m]] : m \in ms})
    OBVIOUS
  <1>1. PICK S : S = {[key |-> m, row |-> row_[m]] : m \in ms}
    OBVIOUS
  <1>2. PICK f : f = [m \in ms |-> [key |-> m, row |-> row_[m]]]
    OBVIOUS
  <1>3. f \in Surjection(ms, S)
    BY <1>1, <1>2 DEF Surjection
  <1>4. IsFiniteSet(ms)
    BY TranscriptAssumption, FS_Subset
  <1>5. IsFiniteSet(S)
    BY <1>3, <1>4, FS_Surjection
  <1>6. s = SetToSeq(S) /\ s \in Seq(Note)
    BY <1>1, <1>s, NotesOf
  <1>7. /\ \A x \in S : \E i \in DOMAIN s : s[i] = x
        /\ \A i, j \in DOMAIN s : s[i] = s[j] => i = j
        /\ \A i \in DOMAIN s : s[i] \in S
    BY <1>5, <1>6, OrderedAll
  <1>8. \A x \in S : x.key \in ms /\ x = [key |-> x.key, row |-> row_[x.key]] /\ x.row = row_[x.key]
    BY <1>1
  <1>9. ASSUME NEW m \in ms PROVE About(s, m) /\ LastIn(s, m, row_[m])
    <2>1. PICK i \in DOMAIN s : s[i] = [key |-> m, row |-> row_[m]]
      BY <1>1, <1>7
    <2>d. s[i].key = m /\ s[i].row = row_[m] /\ \A j \in DOMAIN s : j \in Nat
      BY <1>6, <2>1
    <2>2. ASSUME NEW j \in DOMAIN s, s[j].key = m PROVE j = i
      BY <1>7, <1>8, <2>1, <2>2
    <2>3. \A j \in DOMAIN s : j > i => s[j].key # m
      BY <2>d, <2>2
    <2>q. QED BY <2>d, <2>3 DEF About, LastIn
  <1>10. \A i \in DOMAIN s : s[i].key \in ms /\ s[i].row \in Rows
    BY <1>7, <1>8
  <1>11. \A m : m \notin ms => ~About(s, m) /\ ~AgainIn(s, m) /\ \A r : ~LastIn(s, m, r)
    BY <1>10 DEF About, AgainIn, LastIn
  <1>12. TellOf(s, ms, row_)
    BY <1>6, <1>9, <1>11 DEF TellOf
  <1>q. QED BY <1>s, <1>12

\* One run of notes after another.
LEMMA NotesJoin ==
    ASSUME NEW s \in Seq(Note), NEW t \in Seq(Note), NEW m
    PROVE  /\ About(s \o t, m) <=> About(s, m) \/ About(t, m)
           /\ AgainIn(s \o t, m) <=> AgainIn(s, m) \/ AgainIn(t, m)
           /\ \A r : LastIn(s \o t, m, r) <=> \/ LastIn(t, m, r)
                                              \/ LastIn(s, m, r) /\ ~About(t, m)
  <1>1. /\ \A i \in DOMAIN s : i \in DOMAIN (s \o t) /\ (s \o t)[i] = s[i] /\ i \in Nat /\ i <= Len(s)
        /\ \A i \in DOMAIN t : /\ i \in Nat /\ i >= 1 /\ i + Len(s) \in DOMAIN (s \o t)
                               /\ (s \o t)[i + Len(s)] = t[i]
        /\ \A i \in DOMAIN (s \o t) : i \in DOMAIN s \/ i - Len(s) \in DOMAIN t
        /\ Len(s) \in Nat
    OBVIOUS
  <1>2. PICK u : u = s \o t
    OBVIOUS
  <1>3. /\ \A i \in DOMAIN s : i \in DOMAIN u /\ u[i] = s[i] /\ i \in Nat /\ i <= Len(s)
        /\ \A i \in DOMAIN t : i \in Nat /\ i >= 1 /\ i + Len(s) \in DOMAIN u /\ u[i + Len(s)] = t[i]
        /\ \A i \in DOMAIN u : i \in Nat /\ (i \in DOMAIN s \/ i - Len(s) \in DOMAIN t)
        /\ Len(s) \in Nat
    BY <1>1, <1>2
  <1>4. \A i \in DOMAIN u : i \in DOMAIN s \/ (i - Len(s) \in DOMAIN t /\ u[i] = t[i - Len(s)])
    <2>1. ASSUME NEW i \in DOMAIN u, i - Len(s) \in DOMAIN t PROVE u[i] = t[i - Len(s)]
      <3>1. (i - Len(s)) + Len(s) = i
        BY <1>3
      <3>q. QED BY <1>3, <2>1, <3>1
    <2>q. QED BY <1>3, <2>1
  <1>5. About(u, m) <=> About(s, m) \/ About(t, m)
    BY <1>3, <1>4 DEF About
  <1>6. AgainIn(u, m) <=> AgainIn(s, m) \/ AgainIn(t, m)
    BY <1>3, <1>4 DEF AgainIn
  <1>7. ASSUME NEW r, LastIn(u, m, r) PROVE LastIn(t, m, r) \/ (LastIn(s, m, r) /\ ~About(t, m))
    <2>1. PICK i \in DOMAIN u : /\ u[i].key = m /\ u[i].row = r
                                /\ \A j \in DOMAIN u : j > i => u[j].key # m
      BY <1>7 DEF LastIn
    <2>2. CASE i \in DOMAIN s
      <3>1. \A j \in DOMAIN s : j > i => s[j].key # m
        BY <1>3, <2>1
      <3>2. \A j \in DOMAIN t : t[j].key # m
        <4> SUFFICES ASSUME NEW j \in DOMAIN t PROVE t[j].key # m
          OBVIOUS
        <4>1. j + Len(s) \in DOMAIN u /\ j + Len(s) > i /\ u[j + Len(s)] = t[j]
          BY <1>3, <2>2
        <4>q. QED BY <2>1, <4>1
      <3>3. s[i].key = m /\ s[i].row = r
        BY <1>3, <2>1, <2>2
      <3>q. QED BY <2>2, <3>1, <3>2, <3>3 DEF LastIn, About
    <2>3. CASE i - Len(s) \in DOMAIN t /\ u[i] = t[i - Len(s)]
      <3>1. ASSUME NEW j \in DOMAIN t, j > i - Len(s) PROVE t[j].key # m
        <4>1. j + Len(s) \in DOMAIN u /\ j + Len(s) > i /\ u[j + Len(s)] = t[j]
          BY <1>3, <3>1
        <4>q. QED BY <2>1, <4>1
      <3>q. QED BY <2>1, <2>3, <3>1 DEF LastIn
    <2>q. QED BY <1>4, <2>2, <2>3
  <1>8. ASSUME NEW r, LastIn(t, m, r) PROVE LastIn(u, m, r)
    <2>1. PICK i \in DOMAIN t : /\ t[i].key = m /\ t[i].row = r
                                /\ \A j \in DOMAIN t : j > i => t[j].key # m
      BY <1>8 DEF LastIn
    <2>2. i + Len(s) \in DOMAIN u /\ u[i + Len(s)] = t[i]
      BY <1>3
    <2>3. ASSUME NEW j \in DOMAIN u, j > i + Len(s) PROVE u[j].key # m
      <3>1. j - Len(s) \in DOMAIN t /\ u[j] = t[j - Len(s)] /\ j - Len(s) > i
        BY <1>3, <1>4, <2>3
      <3>q. QED BY <2>1, <3>1
    <2>q. QED BY <2>1, <2>2, <2>3 DEF LastIn
  <1>9. ASSUME NEW r, LastIn(s, m, r), ~About(t, m) PROVE LastIn(u, m, r)
    BY <1>3, <1>4, <1>9 DEF LastIn, About
  <1>q. QED BY <1>2, <1>5, <1>6, <1>7, <1>8, <1>9

\* The first of the notes is taken.
LEMMA NotesTaken ==
    ASSUME NEW s \in Seq(Note), s # <<>>, NEW m
    PROVE  /\ Head(s).key # m => SameNotes(Tail(s), s, m)
           /\ Head(s).key = m => About(s, m)
           /\ Head(s).row # "again" => (AgainIn(Tail(s), m) <=> AgainIn(s, m))
           /\ \A r : LastIn(s, m, r) => \/ LastIn(Tail(s), m, r)
                                        \/ Head(s).row = r /\ ~About(Tail(s), m)
  <1>1. PICK u, h : u = Tail(s) /\ h = Head(s)
    OBVIOUS
  <1>2. /\ 1 \in DOMAIN s /\ h = s[1]
        /\ \A i \in DOMAIN u : i \in Nat /\ i + 1 \in DOMAIN s /\ u[i] = s[i + 1] /\ i >= 1
        /\ \A i \in DOMAIN s : i \in Nat /\ i >= 1 /\ (i = 1 \/ (i - 1 \in DOMAIN u /\ u[i - 1] = s[i]))
    BY <1>1
  <1>3. h.key # m => SameNotes(u, s, m)
    <2> SUFFICES ASSUME h.key # m PROVE SameNotes(u, s, m)
      OBVIOUS
    <2>1. /\ About(u, m) => About(s, m)
          /\ AgainIn(u, m) => AgainIn(s, m)
      BY <1>2 DEF About, AgainIn
    <2>4. /\ About(s, m) => About(u, m)
          /\ AgainIn(s, m) => AgainIn(u, m)
      <3>1. ASSUME NEW i \in DOMAIN s, s[i].key = m PROVE i - 1 \in DOMAIN u /\ u[i - 1] = s[i]
        BY <1>2, <3>1
      <3>q. QED BY <3>1 DEF About, AgainIn
    <2>2. ASSUME NEW r, LastIn(u, m, r) PROVE LastIn(s, m, r)
      <3>1. PICK i \in DOMAIN u : /\ u[i].key = m /\ u[i].row = r
                                  /\ \A j \in DOMAIN u : j > i => u[j].key # m
        BY <2>2 DEF LastIn
      <3>2. ASSUME NEW j \in DOMAIN s, j > i + 1 PROVE s[j].key # m
        <4>1. j - 1 \in DOMAIN u /\ u[j - 1] = s[j] /\ j - 1 > i
          BY <1>2, <3>2
        <4>q. QED BY <3>1, <4>1
      <3>3. i + 1 \in DOMAIN s /\ s[i + 1] = u[i]
        BY <1>2
      <3>q. QED BY <3>1, <3>2, <3>3 DEF LastIn
    <2>3. ASSUME NEW r, LastIn(s, m, r) PROVE LastIn(u, m, r)
      <3>1. PICK i \in DOMAIN s : /\ s[i].key = m /\ s[i].row = r
                                  /\ \A j \in DOMAIN s : j > i => s[j].key # m
        BY <2>3 DEF LastIn
      <3>2. i - 1 \in DOMAIN u /\ u[i - 1] = s[i]
        BY <1>2, <3>1
      <3>3. \A j \in DOMAIN u : j > i - 1 => u[j].key # m
        BY <1>2, <3>1
      <3>q. QED BY <3>1, <3>2, <3>3 DEF LastIn
    <2>q. QED BY <2>1, <2>2, <2>3, <2>4 DEF SameNotes
  <1>4. h.key = m => About(s, m)
    BY <1>2 DEF About
  <1>5. h.row # "again" => (AgainIn(u, m) <=> AgainIn(s, m))
    BY <1>2 DEF AgainIn
  <1>6. ASSUME NEW r, LastIn(s, m, r) PROVE LastIn(u, m, r) \/ (h.row = r /\ ~About(u, m))
    <2>1. PICK i \in DOMAIN s : /\ s[i].key = m /\ s[i].row = r
                                /\ \A j \in DOMAIN s : j > i => s[j].key # m
      BY <1>6 DEF LastIn
    <2>2. CASE i = 1
      BY <1>2, <2>1, <2>2 DEF About
    <2>3. CASE i # 1
      <3>1. i - 1 \in DOMAIN u /\ u[i - 1] = s[i]
        BY <1>2, <2>3
      <3>2. \A j \in DOMAIN u : j > i - 1 => u[j].key # m
        BY <1>2, <2>1
      <3>q. QED BY <2>1, <3>1, <3>2 DEF LastIn
    <2>q. QED BY <2>2, <2>3
  <1>q. QED BY <1>1, <1>3, <1>4, <1>5, <1>6

\* refresh: each view it names hears what is; the others hear what they would have heard.
LEMMA RefreshTells ==
    ASSUME replies \in Seq(Note), rows' \in [Msgs -> Rows], NEW ms,
           NEW left \in Seq(Note), NEW before \in Seq(Note), Refresh(ms, left, before)
    PROVE  /\ \A m \in ms \cap Views :
                 IF conditions'.enabled /\ ~LiveIn(queue', running', m)
                 THEN LastIn(posted' \o replies', m, rows'[m]) ELSE About(posted' \o replies', m)
           /\ \A m : m \notin ms => SameNotes(posted' \o replies', left \o (replies \o before), m)
  <1>1. PICK asked, rest, none :
           /\ asked = {m \in ms \cap Views : conditions'.enabled /\ ~LiveIn(queue', running', m)}
           /\ rest = (ms \cap Views) \ asked /\ none = [m \in Views |-> "none"]
    OBVIOUS
  <1>2. PICK A, S, B : /\ A = SetToSeq({[key |-> m, row |-> rows'[m]] : m \in asked})
                       /\ S = {[key |-> m, row |-> "none"] : m \in rest}
                       /\ B = SetToSeq(S)
    OBVIOUS
  <1>3. replies' = (replies \o before) \o A /\ posted' = left \o B
    BY <1>1, <1>2 DEF Refresh
  <1>4. asked \in SUBSET Views /\ \A m \in asked : rows'[m] \in Rows
    BY <1>1, TranscriptAssumption
  <1>a. TellOf(SetToSeq({[key |-> m, row |-> rows'[m]] : m \in asked}), asked, rows')
    BY <1>4, NotesTell
  <1>b. TellOf(A, asked, rows')
    BY <1>2, <1>a
  <1>5. /\ \A m \in asked : About(A, m) /\ LastIn(A, m, rows'[m])
        /\ \A m : m \notin asked => ~About(A, m) /\ ~AgainIn(A, m) /\ \A r : ~LastIn(A, m, r)
        /\ A \in Seq(Note)
    BY <1>b DEF TellOf
  <1>6. S = {[key |-> m, row |-> none[m]] : m \in rest}
    BY <1>1, <1>2
  <1>7. rest \in SUBSET Views /\ \A m \in rest : none[m] \in Rows
    BY <1>1 DEF Rows
  <1>8. TellOf(SetToSeq({[key |-> m, row |-> none[m]] : m \in rest}), rest, none)
    BY <1>7, NotesTell
  <1>d. TellOf(B, rest, none)
    BY <1>2, <1>6, <1>8
  <1>9. /\ \A m \in rest : About(B, m)
        /\ \A m : m \notin rest => ~About(B, m) /\ ~AgainIn(B, m) /\ \A r : ~LastIn(B, m, r)
        /\ B \in Seq(Note)
    BY <1>d DEF TellOf
  <1>10. PICK mid, p, q : mid = replies \o before /\ p = left \o B /\ q = mid \o A
    OBVIOUS
  <1>11. mid \in Seq(Note) /\ p \in Seq(Note) /\ q \in Seq(Note) /\ posted' = p /\ replies' = q
    BY <1>3, <1>5, <1>9, <1>10
  <1>12. ASSUME NEW m \in ms \cap Views
         PROVE  IF conditions'.enabled /\ ~LiveIn(queue', running', m)
                THEN LastIn(p \o q, m, rows'[m]) ELSE About(p \o q, m)
    <2>1. CASE m \in asked
      <3>1. LastIn(A, m, rows'[m])
        BY <1>5, <2>1
      <3>2. LastIn(mid \o A, m, rows'[m])
        BY <1>5, <1>11, <3>1, NotesJoin
      <3>3. LastIn(p \o q, m, rows'[m])
        BY <1>10, <1>11, <3>2, NotesJoin
      <3>q. QED BY <1>1, <2>1, <3>3
    <2>2. CASE m \in rest
      <3>1. About(left \o B, m)
        BY <1>9, <2>2, NotesJoin
      <3>2. About(p \o q, m)
        BY <1>10, <1>11, <3>1, NotesJoin
      <3>q. QED BY <1>1, <2>2, <3>2
    <2>q. QED BY <1>1, <2>1, <2>2
  <1>13. ASSUME NEW m, m \notin ms PROVE SameNotes(p \o q, left \o mid, m)
    <2>1. m \notin asked /\ m \notin rest
      BY <1>1, <1>13
    <2>2. SameNotes(p, left, m)
      BY <1>9, <1>10, <2>1, NotesJoin DEF SameNotes
    <2>3. SameNotes(q, mid, m)
      BY <1>5, <1>10, <1>11, <2>1, NotesJoin DEF SameNotes
    <2>4. /\ About(p \o q, m) <=> About(p, m) \/ About(q, m)
          /\ AgainIn(p \o q, m) <=> AgainIn(p, m) \/ AgainIn(q, m)
          /\ \A r : LastIn(p \o q, m, r) <=> LastIn(q, m, r) \/ (LastIn(p, m, r) /\ ~About(q, m))
      BY <1>11, NotesJoin
    <2>5. /\ About(left \o mid, m) <=> About(left, m) \/ About(mid, m)
          /\ AgainIn(left \o mid, m) <=> AgainIn(left, m) \/ AgainIn(mid, m)
          /\ \A r : LastIn(left \o mid, m, r) <=> LastIn(mid, m, r) \/ (LastIn(left, m, r) /\ ~About(mid, m))
      BY <1>11, NotesJoin
    <2>q. QED BY <2>2, <2>3, <2>4, <2>5 DEF SameNotes
  <1>q. QED BY <1>10, <1>11, <1>12, <1>13

\* The job of m stays where it is, and so does what is kept and shown of m.
HubStays(m) ==
    /\ RunsIn(running', m) <=> RunsIn(running, m)
    /\ WaitsIn(queue', m) <=> WaitsIn(queue, m)
Stays(m) ==
    /\ conditions'.enabled = conditions.enabled
    /\ HubStays(m)
    /\ shown'[m] = shown[m]
    /\ rows'[m] = rows[m] \/ Stale(m)'
    /\ Stale(m) => Stale(m)'

\* A view that hears what it would have heard, of what stays, is in sync as before.
LEMMA SyncKept ==
    ASSUME NEW m \in Views, InSync(m), Stays(m), SameNotes(Pend', Pend, m)
    PROVE  InSync(m)'
  <1>1. CASE rows'[m] = rows[m]
    <2>1. (Fixed(m)' <=> Fixed(m)) /\ ToShow(m)' = ToShow(m)
      BY <1>1 DEF Stays, HubStays, RunsIn, WaitsIn, Fixed, Live, LiveIn, ToShow
    <2>2. /\ About(Pend', m) <=> About(Pend, m)
          /\ AgainIn(Pend', m) <=> AgainIn(Pend, m)
          /\ LastIn(Pend', m, rows[m]) <=> LastIn(Pend, m, rows[m])
      BY DEF SameNotes
    <2>q. QED BY <1>1, <2>1, <2>2 DEF InSync, Stays
  <1>2. CASE Stale(m)'
    BY <1>2 DEF InSync
  <1>q. QED BY <1>1, <1>2 DEF Stays

\* A view that hears what is, is in sync.
LEMMA SyncHeard ==
    ASSUME NEW m \in Views,
           IF conditions'.enabled /\ ~LiveIn(queue', running', m)
           THEN LastIn(Pend', m, rows'[m]) ELSE About(Pend', m)
    PROVE  InSync(m)'
  BY DEF InSync, Fixed, Live

\* refresh, of views whose message may have changed.
LEMMA SyncRefresh ==
    ASSUME ShowType, SyncInv, rows' \in [Msgs -> Rows], NEW ms, Refresh(ms, posted, <<>>),
           \A m \in Views : m \in ms \/ Stays(m)
    PROVE  SyncInv'
  <1>1. replies \in Seq(Note) /\ posted \in Seq(Note) /\ <<>> \in Seq(Note) /\ replies \o <<>> = replies
    BY DEF ShowType
  <1>2. /\ \A m \in ms \cap Views :
               IF conditions'.enabled /\ ~LiveIn(queue', running', m)
               THEN LastIn(Pend', m, rows'[m]) ELSE About(Pend', m)
        /\ \A m : m \notin ms => SameNotes(Pend', Pend, m)
    BY <1>1, RefreshTells DEF Pend
  <1>3. ASSUME NEW m \in Views PROVE InSync(m)'
    <2>1. CASE m \in ms
      BY <1>2, <2>1, SyncHeard
    <2>2. CASE m \notin ms
      BY <1>2, <2>2, SyncKept DEF SyncInv
    <2>q. QED BY <2>1, <2>2
  <1>q. QED BY <1>3 DEF SyncInv

\* Nothing that is on its way changes.
LEMMA SyncStays ==
    ASSUME SyncInv, UNCHANGED <<posted, replies>>, \A m \in Views : Stays(m)
    PROVE  SyncInv'
  <1>1. \A m \in Views : SameNotes(Pend', Pend, m)
    BY DEF Pend, SameNotes
  <1>q. QED BY <1>1, SyncKept DEF SyncInv

\* What is hidden stays so while the lookup that hides it goes on.
LEMMA HiddenKept ==
    ASSUME NEW t, lookups \ {t} \subseteq lookups', NEW m, Hides(t, m) => Hidden(m)'
    PROVE  Hidden(m) => Hidden(m)'
  BY DEF Hidden, Hides

\* Rows may go, of what is gone, if a sweep will tell of it or has failed.
LEMMA SyncSwept ==
    ASSUME SyncInv, UNCHANGED <<conditions, queue, running, posted, replies, shown>>,
           untold \subseteq untold',
           \A m \in Msgs : /\ status[m] = "gone" => status'[m] = "gone"
                           /\ \/ rows'[m] = rows[m]
                              \/ /\ rows'[m] = "none" /\ status'[m] = "gone"
                                 /\ m \in untold' \/ Hidden(m)'
                           /\ Hidden(m) => m \in untold' \/ Hidden(m)'
    PROVE  SyncInv'
  <1>1. ASSUME NEW m \in Views PROVE Stays(m)
    <2>1. m \in Msgs /\ HubStays(m)
      BY TranscriptAssumption DEF HubStays, RunsIn, WaitsIn
    <2>2. (Stale(m) => Stale(m)') /\ (rows'[m] = rows[m] \/ Stale(m)')
      BY <2>1 DEF Stale
    <2>q. QED BY <2>1, <2>2 DEF Stays
  <1>q. QED BY <1>1, SyncStays

\* The core, its events, and lookups that start.
LEMMA SyncStarts ==
    ASSUME SyncInv,
           \/ \E m \in Msgs : \/ \E how \in {"partial", "there"} : CoreArrives(m, how)
                              \/ CoreDownloads(m) \/ CoreDeletes(m)
           \/ \E p \in Profiles : CoreRemoves(p)
           \/ Arrived \/ AccountsChanged \/ TranscribeChat \/ Connected,
           status \in [Msgs -> {"absent", "partial", "there", "gone"}]
    PROVE  SyncInv'
  <1>1. /\ UNCHANGED <<conditions, queue, running, posted, replies, shown, rows, untold>>
        /\ lookups \subseteq lookups'
    BY DEF CoreArrives, CoreDownloads, CoreDeletes, CoreRemoves, Arrived, AccountsChanged,
           TranscribeChat, Connected, hubVars, showVars, ghostVars, goneVars
  <1>2. \A m \in Msgs : status[m] = "gone" => status'[m] = "gone"
    <2>1. ASSUME NEW k \in Msgs, NEW how \in {"partial", "there"}, CoreArrives(k, how)
          PROVE  \A m \in Msgs : status[m] = "gone" => status'[m] = "gone"
      BY <2>1 DEF CoreArrives
    <2>2. ASSUME NEW k \in Msgs, CoreDownloads(k) \/ CoreDeletes(k)
          PROVE  \A m \in Msgs : status[m] = "gone" => status'[m] = "gone"
      BY <2>2 DEF CoreDownloads, CoreDeletes
    <2>3. ASSUME NEW p \in Profiles, CoreRemoves(p)
          PROVE  \A m \in Msgs : status[m] = "gone" => status'[m] = "gone"
      BY <2>3 DEF CoreRemoves
    <2>4. CASE Arrived \/ AccountsChanged \/ TranscribeChat \/ Connected
      BY <2>4 DEF Arrived, AccountsChanged, TranscribeChat, Connected, coreVars
    <2>q. QED BY <2>1, <2>2, <2>3, <2>4
  <1>3. \A m : Hidden(m) => Hidden(m)'
    BY <1>1 DEF Hidden, Hides
  <1>q. QED BY <1>1, <1>2, <1>3, SyncSwept

\* One answer more.
LEMMA AnswerTells ==
    ASSUME NEW s \in Seq(Note), NEW t \in Seq(Note), NEW h, NEW row_ \in Rows \cup {"again"}
    PROVE  /\ s \o (t \o Answer(h, row_)) = (s \o t) \o Answer(h, row_)
           /\ \A m : m # h => SameNotes((s \o t) \o Answer(h, row_), s \o t, m)
           /\ h \in Views => /\ About((s \o t) \o Answer(h, row_), h)
                             /\ LastIn((s \o t) \o Answer(h, row_), h, row_)
                             /\ row_ = "again" => AgainIn((s \o t) \o Answer(h, row_), h)
  <1>1. PICK a, st : a = Answer(h, row_) /\ st = s \o t
    OBVIOUS
  <1>2. a \in Seq(Note) /\ st \in Seq(Note)
    BY <1>1, AnswerNotes
  <1>3. s \o (t \o a) = st \o a
    BY <1>1, <1>2
  <1>4. ASSUME NEW m, m # h PROVE SameNotes(st \o a, st, m)
    <2>1. ~About(a, m) /\ ~AgainIn(a, m) /\ \A r : ~LastIn(a, m, r)
      BY <1>1, <1>4 DEF Answer, About, AgainIn, LastIn
    <2>q. QED BY <1>2, <2>1, NotesJoin DEF SameNotes
  <1>5. CASE h \in Views
    <2>1. a = <<[key |-> h, row |-> row_]>>
      BY <1>1, <1>5 DEF Answer
    <2>2. About(a, h) /\ LastIn(a, h, row_) /\ (row_ = "again" => AgainIn(a, h))
      BY <2>1 DEF About, AgainIn, LastIn
    <2>3. About(st \o a, h) /\ LastIn(st \o a, h, row_) /\ (row_ = "again" => AgainIn(st \o a, h))
      BY <1>2, <2>2, NotesJoin
    <2>q. QED BY <1>1, <1>3, <1>4, <2>3
  <1>q. QED BY <1>1, <1>3, <1>4, <1>5

\* What was told to be gone: its views are refreshed when the store has answered.
LEMMA SyncDeleted == ASSUME LostInv, ShowType, SyncInv, Deleted PROVE SyncInv'
  <1>0. /\ HubInv /\ UNCHANGED <<conditions, lookups, posted, shown, status>>
        /\ rows \in [Msgs -> Rows] /\ replies \in Seq(Note) /\ posted \in Seq(Note)
    BY DEF Deleted, LostInv, World, ShowType
  <1>1. PICK h : /\ h = Head(events).msg /\ queue' = Without({h}) /\ running' = Stopped({h})
                 /\ rows' = [rows EXCEPT ![h] = "none"]
                 /\ replies' = replies \o Answer(h, "again") /\ UNCHANGED untold
    BY DEF Deleted
  <1>2. /\ \A m : RunsIn(running', m) = RunsIn(running, m)
        /\ \A m : m # h => WaitsIn(queue', m) = WaitsIn(queue, m)
    BY <1>0, <1>1, DropStates
  <1>3. /\ \A m : m # h => SameNotes(Pend', Pend, m)
        /\ h \in Views => AgainIn(Pend', h)
    <2>1. PICK row_ \in Rows \cup {"again"} : row_ = "again"
      OBVIOUS
    <2>2. Pend' = posted \o (replies \o Answer(h, row_))
      BY <1>0, <1>1, <2>1 DEF Pend
    <2>3. /\ posted \o (replies \o Answer(h, row_)) = (posted \o replies) \o Answer(h, row_)
          /\ \A m : m # h => SameNotes((posted \o replies) \o Answer(h, row_), posted \o replies, m)
          /\ h \in Views => AgainIn((posted \o replies) \o Answer(h, row_), h)
      BY <1>0, <2>1, AnswerTells
    <2>q. QED BY <2>2, <2>3 DEF Pend
  <1>4. ASSUME NEW m \in Views PROVE InSync(m)'
    <2>1. CASE m = h
      BY <1>3, <2>1 DEF InSync
    <2>2. CASE m # h
      <3>1. HubStays(m)
        BY <1>2, <2>2 DEF HubStays
      <3>2. rows'[m] = rows[m] /\ (Stale(m) => Stale(m)')
        BY <1>0, <1>1, <2>2, TranscriptAssumption DEF Stale, Hidden, Hides
      <3>q. QED BY <1>0, <1>3, <2>2, <3>1, <3>2, SyncKept DEF SyncInv, Stays
    <2>q. QED BY <2>1, <2>2
  <1>q. QED BY <1>4 DEF SyncInv

\* Settings: a switch of the whole refreshes every view, else what is dropped is.
LEMMA SyncSettings ==
    ASSUME LostInv, LostInv', ShowType, SyncInv, NEW c \in Settings, SetConditions(c)
    PROVE  SyncInv'
  <1>1. PICK kept, run, dropped, ms :
           /\ kept = {j \in queue : Keeps(j.kind, c)}
           /\ dropped = {j.key : j \in queue \ kept}
           /\ run = IF running # NoJob /\ ~Keeps(running.job.kind, c)
                    THEN Stopped({running.job.key}) ELSE running
           /\ ThenPump(kept, run, c)
           /\ ms = (IF conditions.enabled = c.enabled THEN dropped ELSE Views) \cup Started
           /\ Refresh(ms, posted, <<>>)
    BY DEF SetConditions
  <1>2. /\ UNCHANGED <<shown, rows, status, untold>> /\ conditions' = c
        /\ lookups \subseteq lookups'
        /\ HubInv /\ Jobs(queue, running) /\ OneEach(queue, running) /\ rows' \in [Msgs -> Rows]
    BY DEF SetConditions, coreVars, goneVars, LostInv, HubInv, World
  <1>3. /\ \A m : RunsIn(run, m) = RunsIn(running, m)
        /\ Jobs(kept, run) /\ OneEach(kept, run)
        /\ run # NoJob <=> running # NoJob
    <2>1. CASE run = running
      BY <1>1, <1>2, <2>1 DEF Jobs, OneEach
    <2>2. CASE run # running
      <3>1. run = Stopped({running.job.key}) /\ kept \subseteq queue /\ running # NoJob
        BY <1>1, <2>2
      <3>2. run \in Run /\ run.job = running.job
        BY <1>2, <3>1 DEF Jobs, Stopped, Run
      <3>q. QED BY <1>2, <3>1, <3>2, DropStates DEF Jobs, OneEach
    <2>q. QED BY <2>1, <2>2
  <1>4. \A m : run # NoJob \/ ~RunsIn(running', m)
               => /\ RunsIn(running', m) = RunsIn(run, m)
                  /\ WaitsIn(queue', m) = WaitsIn(kept, m)
    BY <1>1, <1>3, PumpStates
  <1>5. ASSUME NEW m \in Views, m \notin ms PROVE Stays(m)
    <2>1. conditions.enabled = c.enabled /\ m \notin dropped /\ m \notin Started
      BY <1>1, <1>5
    <2>2. run # NoJob \/ ~RunsIn(running', m)
      BY <1>3, <2>1 DEF Started, RunsIn
    <2>3. WaitsIn(kept, m) <=> WaitsIn(queue, m)
      BY <1>1, <2>1 DEF WaitsIn
    <2>4. HubStays(m)
      BY <1>3, <1>4, <2>2, <2>3 DEF HubStays
    <2>5. Stale(m) => Stale(m)'
      BY <1>2 DEF Stale, Hidden, Hides
    <2>q. QED BY <1>2, <2>1, <2>4, <2>5 DEF Stays
  <1>q. QED BY <1>1, <1>2, <1>5, SyncRefresh

\* pump, of a queue that jobs have joined: the others stay, but for the one that starts.
LEMMA JoinedStates ==
    ASSUME HubInv, NEW ms \in SUBSET Msgs, NEW kind_ \in Kinds,
           \A m \in ms : ~(running # NoJob /\ running.job.key = m),
           ThenPump(WithJobs(ms, kind_), running, conditions)
    PROVE  \A m : m \notin Started /\ (m \notin ms \/ WaitsIn(queue, m)) => HubStays(m)
  <1>1. Jobs(WithJobs(ms, kind_), running) /\ OneEach(WithJobs(ms, kind_), running)
    BY EnqueueKeeps
  <1>2. \A m : running # NoJob \/ ~RunsIn(running', m)
               => /\ RunsIn(running', m) = RunsIn(running, m)
                  /\ WaitsIn(queue', m) = WaitsIn(WithJobs(ms, kind_), m)
    BY <1>1, PumpStates
  <1>3. \A m : WaitsIn(WithJobs(ms, kind_), m) = (m \in ms \/ WaitsIn(queue, m))
    BY EnqueueWaits
  <1>4. ASSUME NEW m, m \notin Started, m \notin ms \/ WaitsIn(queue, m) PROVE HubStays(m)
    <2>1. running # NoJob \/ ~RunsIn(running', m)
      BY <1>4 DEF Started, RunsIn
    <2>2. WaitsIn(WithJobs(ms, kind_), m) <=> WaitsIn(queue, m)
      BY <1>3, <1>4
    <2>q. QED BY <1>2, <2>1, <2>2 DEF HubStays
  <1>q. QED BY <1>4

\* Taps and watches.
LEMMA SyncTouched ==
    ASSUME LostInv, LostInv', ShowType, SyncInv, NEW h \in Views, Transcribe(h) \/ Cancel(h) \/ Watch(h)
    PROVE  SyncInv'
  <1>0. HubInv /\ rows' \in [Msgs -> Rows] /\ h \in Msgs
    BY TranscriptAssumption DEF LostInv, World
  <1>1. CASE Transcribe(h)
    <2>1. /\ UNCHANGED <<conditions, shown, rows, status>> /\ UNCHANGED untold
          /\ lookups \subseteq lookups'
          /\ ~(running # NoJob /\ running.job.key = h)
      BY <1>1 DEF Transcribe, coreVars, hubVars
    <2>2. CASE ThenPump(WithJobs({h}, "Manual"), running, conditions) /\ Refresh({h} \cup Started, posted, <<>>)
      <3>1. {h} \in SUBSET Msgs /\ "Manual" \in Kinds /\ \A m \in {h} : ~(running # NoJob /\ running.job.key = m)
        BY <1>0, <2>1 DEF Kinds
      <3>2. \A m : m \notin Started /\ (m \notin {h} \/ WaitsIn(queue, m)) => HubStays(m)
        BY <1>0, <2>2, <3>1, JoinedStates
      <3>3. ASSUME NEW m \in Views, m \notin {h} \cup Started PROVE Stays(m)
        BY <2>1, <3>2, <3>3 DEF Stays, Stale, Hidden, Hides
      <3>q. QED BY <1>0, <2>2, <3>3, SyncRefresh
    <2>3. CASE UNCHANGED <<queue, running, replies, posted>>
      <3>1. ASSUME NEW m \in Views PROVE Stays(m)
        BY <2>1, <2>3 DEF Stays, Stale, Hidden, Hides, HubStays
      <3>q. QED BY <2>3, <3>1, SyncStays
    <2>q. QED BY <1>1, <2>2, <2>3 DEF Transcribe, hubVars
  <1>2. CASE Cancel(h)
    <2>1. /\ UNCHANGED <<conditions, shown, rows, status, untold, lookups>>
          /\ queue' = Without({h}) /\ running' = Stopped({h})
          /\ Refresh({h}, posted, <<>>)
      BY <1>2 DEF Cancel, coreVars, goneVars
    <2>2. /\ \A m : RunsIn(running', m) = RunsIn(running, m)
          /\ \A m : m \notin {h} => WaitsIn(queue', m) = WaitsIn(queue, m)
      BY <1>0, <2>1, DropStates
    <2>3. ASSUME NEW m \in Views, m \notin {h} PROVE Stays(m)
      BY <2>1, <2>2, <2>3 DEF Stays, Stale, Hidden, Hides, HubStays
    <2>q. QED BY <1>0, <2>1, <2>3, SyncRefresh
  <1>3. CASE Watch(h)
    <2>1. /\ UNCHANGED <<conditions, queue, running, rows, status, untold, lookups>>
          /\ shown' = [shown EXCEPT ![h] = "none"] /\ shown \in [Views -> Shown]
          /\ Refresh({h}, posted, <<>>)
      BY <1>3 DEF Watch, coreVars, hubVars, ghostVars, goneVars, ShowType
    <2>2. ASSUME NEW m \in Views, m \notin {h} PROVE Stays(m)
      BY <2>1, <2>2 DEF Stays, Stale, Hidden, Hides, HubStays
    <2>q. QED BY <1>0, <2>1, <2>2, SyncRefresh
  <1>q. QED BY <1>1, <1>2, <1>3

\* Tasks: a sweep that takes rows tells of it later, or has failed.
LEMMA SyncListing == ASSUME LostInv, SyncInv, NEW t \in lookups, Listing(t) PROVE SyncInv'
  <1>1. /\ UNCHANGED <<conditions, queue, running, posted, replies, shown, rows, status, untold>>
        /\ t \in Lookup
    BY DEF Listing, hubVars, showVars, coreVars, ghostVars, goneVars, LostInv, HubInv, NamesType
  <1>2. PICK u : /\ lookups' = (lookups \ {t}) \cup {u}
                 /\ u = [t EXCEPT !.phase = "known", !.profiles = profiles,
                                  !.keys = IF Many(t) THEN Voices ELSE {}]
    BY DEF Listing, Becomes
  <1>3. \A m : ~Hides(t, m)
    BY DEF Listing, Hides
  <1>4. \A m : Hidden(m) => Hidden(m)'
    BY <1>2, <1>3, HiddenKept
  <1>q. QED BY <1>1, <1>4, SyncSwept

LEMMA SyncKnown == ASSUME LostInv, SyncInv, NEW t \in lookups, Known(t) PROVE SyncInv'
  <1>1. /\ UNCHANGED <<conditions, queue, running, posted, replies, shown, status, untold>>
        /\ t \in Lookup /\ LookupKnows(t) /\ t.phase = "known"
        /\ \A m \in Msgs : ProfileOf[m] \notin profiles => status[m] = "gone"
    BY DEF Known, hubVars, showVars, coreVars, LostInv, World, HubInv, NamesType
  <1>2. \E u : lookups' = (lookups \ {t}) \cup {u}
    BY DEF Known, Becomes
  <1>3. \A m : Hidden(m) => Hidden(m)'
    <2>1. \A m : ~Hides(t, m)
      BY <1>1 DEF Hides
    <2>q. QED BY <1>2, <2>1, HiddenKept
  <1>4. CASE UNCHANGED rows
    BY <1>1, <1>3, <1>4, SyncSwept
  <1>5. CASE t.kind \in {"sweep", "accounts"}
    <2>1. rows' = [m \in Msgs |-> IF m \in GoneIn(t.profiles) THEN "none" ELSE rows[m]]
      BY <1>5 DEF Known, Many
    <2>2. PICK u : /\ lookups' = (lookups \ {t}) \cup {u}
                   /\ u = IF t.kind = "sweep"
                          THEN [t EXCEPT !.phase = "loading", !.keys = {m \in Msgs : rows'[m] # "none"}]
                          ELSE [t EXCEPT !.phase = "answered"]
      BY <1>5 DEF Known, Becomes, Many
    <2>3. /\ u.kind = t.kind /\ u.profiles = t.profiles
          /\ u.phase = (IF t.kind = "sweep" THEN "loading" ELSE "answered")
      BY <1>1, <2>2 DEF Lookup
    <2>4. \A m \in GoneIn(t.profiles) : Hidden(m)'
      BY <1>5, <2>2, <2>3 DEF Hidden, Hides, GoneIn
    <2>5. \A m \in GoneIn(t.profiles) : status[m] = "gone"
      BY <1>1, <1>5 DEF LookupKnows, GoneIn
    <2>6. \A m \in Msgs : rows'[m] = rows[m]
                          \/ (rows'[m] = "none" /\ status'[m] = "gone" /\ Hidden(m)')
      BY <1>1, <2>1, <2>4, <2>5
    <2>q. QED BY <1>1, <1>3, <2>6, SyncSwept
  <1>q. QED BY <1>4, <1>5 DEF Known

LEMMA SyncLoading == ASSUME LostInv, SyncInv, NEW t \in lookups, Loading(t) PROVE SyncInv'
  <1>1. /\ UNCHANGED <<conditions, queue, running, posted, replies, shown, status, untold>>
        /\ t \in Lookup
    BY DEF Loading, hubVars, showVars, coreVars, ghostVars, goneVars, LostInv, HubInv, NamesType
  <1>2. CASE t.kind = "arrived" /\ ~(t.keys \subseteq Voices)
    <2>1. lookups' = lookups \ {t} /\ UNCHANGED rows
      BY <1>2 DEF Loading, Ends, Many
    <2>2. \A m : Hidden(m) => Hidden(m)'
      BY <1>2, <2>1, HiddenKept DEF Hides
    <2>q. QED BY <1>1, <2>1, <2>2, SyncSwept
  <1>3. CASE ~(t.kind = "arrived" /\ ~(t.keys \subseteq Voices))
    <2>1. CASE t.kind # "sweep"
      <3>1. UNCHANGED rows /\ \E u : lookups' = (lookups \ {t}) \cup {u}
        BY <1>3, <2>1 DEF Loading, Becomes
      <3>2. \A m : ~Hides(t, m)
        BY <2>1 DEF Hides, Loading
      <3>3. \A m : Hidden(m) => Hidden(m)'
        BY <3>1, <3>2, HiddenKept
      <3>q. QED BY <1>1, <3>1, <3>3, SyncSwept
    <2>2. CASE t.kind = "sweep"
      <3>1. PICK u : lookups' = (lookups \ {t}) \cup {u} /\ u = [t EXCEPT !.phase = "answered"]
        BY <2>2 DEF Loading, Becomes, Many
      <3>2. u.kind = "sweep" /\ u.phase = "answered" /\ u.profiles = t.profiles /\ u.keys = t.keys
        BY <1>1, <2>2, <3>1 DEF Lookup
      <3>3. \A m : Hides(t, m) \/ m \in t.keys => Hidden(m)'
        BY <3>1, <3>2 DEF Hidden, Hides
      <3>4. \A m : Hidden(m) => Hidden(m)'
        BY <3>1, <3>3, HiddenKept
      <3>5. rows' = [m \in Msgs |-> IF m \in t.keys /\ status[m] = "gone" THEN "none" ELSE rows[m]]
        BY <2>2 DEF Loading, Many
      <3>6. \A m \in Msgs : rows'[m] = rows[m]
                            \/ (rows'[m] = "none" /\ status'[m] = "gone" /\ Hidden(m)')
        BY <1>1, <3>3, <3>5
      <3>q. QED BY <1>1, <3>4, <3>6, SyncSwept
    <2>q. QED BY <2>1, <2>2
  <1>q. QED BY <1>2, <1>3

\* A sweep that fails has told nobody of the rows it took.
LEMMA SyncFails == ASSUME LostInv, SyncInv, NEW t \in lookups, Fails(t) PROVE SyncInv'
  <1>1. /\ UNCHANGED <<conditions, queue, running, posted, replies, shown, status>>
        /\ t \in Lookup /\ LookupKnows(t) /\ t.phase \in {"listing", "loading"}
        /\ \A m \in Msgs : ProfileOf[m] \notin profiles => status[m] = "gone"
    BY DEF Fails, hubVars, showVars, coreVars, LostInv, World, HubInv, NamesType
  <1>2. CASE t.kind # "sweep"
    <2>1. UNCHANGED <<rows, untold>> /\ lookups \ {t} \subseteq lookups'
      BY <1>2 DEF Fails, Becomes, Ends, ghostVars, goneVars
    <2>2. \A m : ~Hides(t, m)
      BY <1>1, <1>2 DEF Hides
    <2>3. \A m : Hidden(m) => Hidden(m)'
      BY <2>1, <2>2, HiddenKept
    <2>q. QED BY <1>1, <2>1, <2>3, SyncSwept
  <1>3. CASE t.kind = "sweep"
    <2>1. PICK ms : /\ rows' = [m \in Msgs |-> IF m \in ms THEN "none" ELSE rows[m]]
                    /\ \A m \in ms : status[m] = "gone"
                    /\ untold' = untold \cup ms \cup {m \in GoneIn(t.profiles) : t.phase = "loading"}
      BY <1>3 DEF Fails, Many, ToDelete
    <2>2. lookups' = lookups \ {t}
      BY <1>3 DEF Fails, Ends, Many
    <2>3. ASSUME NEW m \in Msgs, Hidden(m) PROVE m \in untold' \/ Hidden(m)'
      <3>1. CASE Hides(t, m)
        BY <1>1, <2>1, <3>1 DEF Hides, GoneIn
      <3>2. CASE ~Hides(t, m)
        BY <2>2, <2>3, <3>2, HiddenKept
      <3>q. QED BY <3>1, <3>2
    <2>4. \A m \in Msgs : rows'[m] = rows[m]
                          \/ (rows'[m] = "none" /\ status'[m] = "gone" /\ m \in untold')
      BY <1>1, <2>1
    <2>5. untold \subseteq untold'
      BY <2>1
    <2>q. QED BY <1>1, <2>3, <2>4, <2>5, SyncSwept
  <1>q. QED BY <1>2, <1>3

\* QueueAll and QueueOne refresh what they queue and what they start.
LEMMA SyncQueues ==
    ASSUME LostInv, LostInv', ShowType, SyncInv, NEW ms \in SUBSET Msgs, NEW kind_ \in Kinds,
           QueueAll(ms, kind_) \/ QueueOne(ms, kind_),
           UNCHANGED <<conditions, shown, status, untold>>, \A m : Hidden(m) => Hidden(m)'
    PROVE  SyncInv'
  <1>1. /\ HubInv /\ rows' \in [Msgs -> Rows] /\ Taken(ms, kind_) \in SUBSET Msgs
        /\ \A m \in Taken(ms, kind_) : ~(running # NoJob /\ running.job.key = m)
        /\ UNCHANGED rows
    BY DEF LostInv, World, Taken, Accepts, QueueAll, QueueOne
  <1>2. CASE QueueAll(ms, kind_)
    <2>1. PICK told : /\ told = Queued(Taken(ms, kind_), kind_) \cup Started
                      /\ Refresh(told, posted, <<>>)
                      /\ ThenPump(WithJobs(Taken(ms, kind_), kind_), running, conditions)
      BY <1>2 DEF QueueAll
    <2>2. \A m : m \notin Started /\ (m \notin Taken(ms, kind_) \/ WaitsIn(queue, m)) => HubStays(m)
      BY <1>1, <2>1, JoinedStates
    <2>3. ASSUME NEW m \in Views, m \notin told PROVE Stays(m)
      <3>1. m \notin Started /\ (m \notin Taken(ms, kind_) \/ WaitsIn(queue, m))
        BY <2>1, <2>3 DEF Queued, WaitsIn
      <3>q. QED BY <1>1, <2>2, <3>1 DEF Stays, Stale
    <2>q. QED BY <1>1, <2>1, <2>3, SyncRefresh
  <1>3. CASE UNCHANGED <<queue, running, replies, posted>>
    <2>1. ASSUME NEW m \in Views PROVE Stays(m)
      BY <1>1, <1>3 DEF Stays, Stale, HubStays
    <2>q. QED BY <1>3, <2>1, SyncStays
  <1>q. QED BY <1>2, <1>3 DEF QueueOne

LEMMA SyncArrivalFound ==
    ASSUME LostInv, LostInv', ShowType, SyncInv, NEW t \in lookups, ArrivalFound(t)
    PROVE  SyncInv'
  <1>1. /\ UNCHANGED <<conditions, shown, status, untold>> /\ lookups' = lookups \ {t}
        /\ t.kind = "arrived" /\ t \in Lookup
    BY DEF ArrivalFound, Ends, coreVars, goneVars, LostInv, HubInv, NamesType
  <1>2. \A m : Hidden(m) => Hidden(m)'
    BY <1>1, HiddenKept DEF Hides
  <1>3. CASE QueueOne(t.keys, "New")
    <2>1. t.keys \in SUBSET Msgs /\ "New" \in Kinds
      BY <1>1 DEF Lookup, Kinds
    <2>q. QED BY <1>1, <1>2, <1>3, <2>1, SyncQueues
  <1>4. CASE UNCHANGED <<queue, running, replies, posted, rows>>
    BY <1>1, <1>2, <1>4, SyncSwept
  <1>q. QED BY <1>3, <1>4 DEF ArrivalFound

\* A tap that found nothing leaves a row, and its view hears of it.
LEMMA SyncTapFound ==
    ASSUME LostInv, LostInv', ShowType, SyncInv, NEW t \in lookups, TapFound(t)
    PROVE  SyncInv'
  <1>1. /\ UNCHANGED <<conditions, shown, status, untold>> /\ lookups' = lookups \ {t}
        /\ t.kind = "tap" /\ t \in Lookup /\ LookupKnows(t)
        /\ rows \in [Msgs -> Rows] /\ replies \in Seq(Note) /\ posted \in Seq(Note)
    BY DEF TapFound, Ends, coreVars, goneVars, LostInv, World, HubInv, NamesType, ShowType
  <1>2. \A m : Hidden(m) => Hidden(m)'
    BY <1>1, HiddenKept DEF Hides
  <1>3. PICK h \in Msgs : t.keys = {h}
    BY <1>1 DEF LookupKnows
  <1>4. CASE t.found = "some"
    <2>1. QueueOne({h}, "Manual") /\ {h} \in SUBSET Msgs /\ "Manual" \in Kinds
      BY <1>3, <1>4 DEF TapFound, Kinds
    <2>q. QED BY <1>1, <1>2, <2>1, SyncQueues
  <1>5. CASE t.found # "some"
    <2>1. h = CHOOSE m \in t.keys : TRUE
      BY <1>3
    <2>2. /\ rows' = [rows EXCEPT ![h] = "failed"] /\ UNCHANGED <<queue, running, posted>>
          /\ replies' = replies \o Answer(h, "failed")
      BY <1>5, <2>1 DEF TapFound, Write
    <2>3. PICK row_ \in Rows \cup {"again"} : row_ = "failed"
      BY DEF Rows
    <2>4. Pend' = posted \o (replies \o Answer(h, row_))
      BY <2>2, <2>3 DEF Pend
    <2>5. /\ posted \o (replies \o Answer(h, row_)) = (posted \o replies) \o Answer(h, row_)
          /\ \A m : m # h => SameNotes((posted \o replies) \o Answer(h, row_), posted \o replies, m)
          /\ h \in Views => /\ About((posted \o replies) \o Answer(h, row_), h)
                            /\ LastIn((posted \o replies) \o Answer(h, row_), h, row_)
      BY <1>1, AnswerTells
    <2>6. /\ \A m : m # h => SameNotes(Pend', Pend, m)
          /\ h \in Views => About(Pend', h) /\ LastIn(Pend', h, rows'[h])
      BY <1>1, <2>2, <2>3, <2>4, <2>5 DEF Pend
    <2>7. ASSUME NEW m \in Views PROVE InSync(m)'
      <3>1. CASE m = h
        BY <2>6, <3>1, SyncHeard
      <3>2. CASE m # h
        <4>1. rows'[m] = rows[m]
          BY <1>1, <2>2, <3>2, TranscriptAssumption
        <4>2. Stays(m)
          BY <1>1, <1>2, <2>2, <4>1 DEF Stays, Stale, HubStays
        <4>q. QED BY <2>6, <3>2, <4>2, SyncKept DEF SyncInv
      <3>q. QED BY <3>1, <3>2
    <2>q. QED BY <2>7 DEF SyncInv
  <1>q. QED BY <1>4, <1>5

LEMMA SyncManyFound ==
    ASSUME LostInv, LostInv', ShowType, SyncInv, NEW t \in lookups, ManyFound(t)
    PROVE  SyncInv'
  <1>1. /\ UNCHANGED <<conditions, shown, status, untold>> /\ lookups' = lookups \ {t}
        /\ Many(t) /\ t \in Lookup
    BY DEF ManyFound, Ends, coreVars, goneVars, LostInv, HubInv, NamesType
  <1>2. \A m : Hidden(m) => Hidden(m)'
    BY <1>1, HiddenKept DEF Hides, Many
  <1>3. CASE UNCHANGED <<queue, running, replies, posted, rows>>
    BY <1>1, <1>2, <1>3, SyncSwept
  <1>4. CASE QueueAll(t.keys, "Manual")
    <2>1. t.keys \in SUBSET Msgs /\ "Manual" \in Kinds
      BY <1>1 DEF Lookup, Kinds
    <2>q. QED BY <1>1, <1>2, <1>4, <2>1, SyncQueues
  <1>5. CASE QueueAll(t.keys \ Own, "Backlog")
    <2>1. (t.keys \ Own) \in SUBSET Msgs /\ "Backlog" \in Kinds
      BY <1>1 DEF Lookup, Kinds
    <2>q. QED BY <1>1, <1>2, <1>5, <2>1, SyncQueues
  <1>q. QED BY <1>3, <1>4, <1>5 DEF ManyFound

\* Every view is refreshed.
LEMMA SyncAfter ==
    ASSUME LostInv', ShowType, SyncInv, NEW t \in lookups, AfterAccounts(t)
    PROVE  SyncInv'
  <1>1. Refresh(Views, posted, <<>>) /\ rows' \in [Msgs -> Rows]
    BY DEF AfterAccounts, LostInv, World
  <1>2. \A m \in Views : m \in Views \/ Stays(m)
    OBVIOUS
  <1>q. QED BY <1>1, <1>2, SyncRefresh

\* A run that ended: its view hears of the row, or of the job taken back; so does the next.
LEMMA SyncRunEnded ==
    ASSUME LostInv, LostInv', ShowType, SyncInv, RunEnded
    PROVE  SyncInv'
  <1>p. PICK h, again, next :
           /\ h = running.job.key
           /\ again = IF running.result = "cancelled" /\ running.requeue THEN {running.job} ELSE {}
           /\ next = IF running' = NoJob THEN {} ELSE {running'.job.key}
    OBVIOUS
  <1>1. /\ ThenPump(queue \cup again, NoJob, conditions) /\ running # NoJob
        /\ UNCHANGED <<conditions, lookups, shown, status, untold>>
        /\ HubInv /\ rows \in [Msgs -> Rows] /\ rows' \in [Msgs -> Rows]
        /\ replies \in Seq(Note) /\ posted \in Seq(Note)
    BY <1>p DEF RunEnded, coreVars, ghostVars, goneVars, LostInv, World, ShowType
  <1>2. running \in Run /\ running.job \in Job /\ h \in Msgs
    BY <1>p, <1>1 DEF HubInv, Jobs, Run, Job
  <1>3. Jobs(queue \cup again, NoJob) /\ OneEach(queue \cup again, NoJob)
    BY <1>p, <1>1, <1>2 DEF HubInv, Jobs, OneEach
  <1>4. \A k : ~RunsIn(running', k) => WaitsIn(queue', k) = WaitsIn(queue \cup again, k)
    BY <1>1, <1>3, PumpStates
  <1>5. ASSUME NEW k, k # h, k \notin next PROVE HubStays(k)
    <2>1. ~RunsIn(running', k) /\ ~RunsIn(running, k)
      BY <1>p, <1>5 DEF RunsIn
    <2>2. WaitsIn(queue \cup again, k) <=> WaitsIn(queue, k)
      BY <1>p, <1>5 DEF WaitsIn
    <2>q. QED BY <1>4, <2>1, <2>2 DEF HubStays
  <1>6. CASE running.result = "cancelled"
    <2>1. UNCHANGED rows /\ Refresh({h} \cup next, posted, <<>>)
      BY <1>p, <1>6 DEF RunEnded
    <2>2. ASSUME NEW m \in Views, m \notin {h} \cup next PROVE Stays(m)
      BY <1>1, <1>5, <2>1, <2>2 DEF Stays, Stale, Hidden, Hides
    <2>q. QED BY <1>1, <2>1, <2>2, SyncRefresh
  <1>7. CASE running.result # "cancelled"
    <2>1. PICK row_ \in Rows \cup {"again"} :
             rows' = [rows EXCEPT ![h] = row_] /\ Refresh(next, posted, Answer(h, row_))
      <3>1. PICK row_ : row_ = IF running.result = "ok" THEN "done" ELSE "failed"
        OBVIOUS
      <3>2. rows' = [rows EXCEPT ![h] = row_] /\ Refresh(next, posted, Answer(h, row_))
        BY <1>p, <1>7, <3>1 DEF RunEnded, Write
      <3>3. row_ \in Rows \cup {"again"}
        BY <3>1 DEF Rows
      <3>q. QED BY <3>2, <3>3
    <2>2. Answer(h, row_) \in Seq(Note)
      BY AnswerNotes
    <2>3. PICK all : all = posted \o (replies \o Answer(h, row_))
      OBVIOUS
    <2>4. /\ \A m \in next \cap Views :
                 IF conditions'.enabled /\ ~LiveIn(queue', running', m)
                 THEN LastIn(Pend', m, rows'[m]) ELSE About(Pend', m)
          /\ \A m : m \notin next => SameNotes(Pend', all, m)
      BY <1>1, <2>1, <2>2, <2>3, RefreshTells DEF Pend
    <2>5. /\ \A m : m # h => SameNotes(all, Pend, m)
          /\ h \in Views => About(all, h) /\ LastIn(all, h, row_)
      <3>1. /\ posted \o (replies \o Answer(h, row_)) = (posted \o replies) \o Answer(h, row_)
            /\ \A m : m # h => SameNotes((posted \o replies) \o Answer(h, row_), posted \o replies, m)
            /\ h \in Views => /\ About((posted \o replies) \o Answer(h, row_), h)
                              /\ LastIn((posted \o replies) \o Answer(h, row_), h, row_)
        BY <1>1, AnswerTells
      <3>q. QED BY <2>3, <3>1 DEF Pend
    <2>6. ASSUME NEW m \in Views PROVE InSync(m)'
      <3>1. CASE m \in next
        BY <2>4, <3>1, SyncHeard
      <3>2. CASE m = h /\ m \notin next
        <4>1. SameNotes(Pend', all, m) /\ About(all, m) /\ LastIn(all, m, row_) /\ rows'[m] = row_
          BY <1>1, <1>2, <2>1, <2>4, <2>5, <3>2
        <4>2. About(Pend', m) /\ LastIn(Pend', m, rows'[m])
          BY <4>1 DEF SameNotes
        <4>q. QED BY <4>2, SyncHeard
      <3>3. CASE m # h /\ m \notin next
        <4>1. SameNotes(Pend', all, m) /\ SameNotes(all, Pend, m) /\ rows'[m] = rows[m]
          BY <1>1, <2>1, <2>4, <2>5, <3>3, TranscriptAssumption
        <4>2. SameNotes(Pend', Pend, m)
          BY <4>1 DEF SameNotes
        <4>3. Stays(m)
          BY <1>1, <1>5, <3>3, <4>1 DEF Stays, Stale, Hidden, Hides
        <4>q. QED BY <4>2, <4>3, SyncKept DEF SyncInv
      <3>q. QED BY <3>1, <3>2, <3>3
    <2>q. QED BY <2>6 DEF SyncInv
  <1>q. QED BY <1>6, <1>7

\* The first of the notes posted is the first that is on its way.
LEMMA PendTaken ==
    ASSUME ShowType, posted # <<>>
    PROVE  /\ Pend \in Seq(Note) /\ Pend # <<>> /\ Head(Pend) = Head(posted)
           /\ Tail(Pend) = Tail(posted) \o replies
           /\ Head(posted) \in Note /\ Tail(posted) \in Seq(Note)
  <1>1. replies \in Seq(Note) /\ posted \in Seq(Note) /\ Pend = posted \o replies
    BY DEF ShowType, Pend
  <1>2. Pend \in Seq(Note) /\ Len(posted) >= 1 /\ Len(Pend) = Len(posted) + Len(replies)
    BY <1>1
  <1>3. Pend # <<>> /\ Head(Pend) = Head(posted)
    BY <1>1, <1>2
  <1>4. Tail(Pend) = Tail(posted) \o replies
    BY <1>1, <1>2
  <1>q. QED BY <1>1, <1>2, <1>3, <1>4

\* An answer applied shows what is, if it was the last about its message.
LEMMA SyncApply == ASSUME LostInv, ShowType, SyncInv, Apply PROVE SyncInv'
  <1>1. /\ UNCHANGED <<conditions, queue, running, lookups, rows, replies, status, untold>>
        /\ posted # <<>> /\ posted' = Tail(posted) /\ HubInv /\ shown \in [Views -> Shown]
    BY DEF Apply, hubVars, coreVars, ghostVars, goneVars, LostInv, ShowType
  <1>2. PICK n : n = Head(posted)
    OBVIOUS
  <1>3. /\ Pend \in Seq(Note) /\ Pend # <<>> /\ Head(Pend) = n /\ Tail(Pend) = Pend'
        /\ n \in Note
    BY <1>1, <1>2, PendTaken DEF Pend
  <1>4. /\ n.row # "again" /\ n.key \in Views /\ \A m \in Views : m # n.key => shown'[m] = shown[m]
        /\ ~conditions.enabled => shown'[n.key] = "none"
        /\ conditions.enabled /\ ~Live(n.key) => shown'[n.key] = n.row
        /\ conditions.enabled /\ Live(n.key) => shown'[n.key] = ToShow(n.key)
    <2>1. PICK v : v = (IF ~conditions.enabled THEN "none"
                        ELSE CASE running # NoJob /\ running.job.key = n.key -> "running"
                               [] \E j \in queue : j.key = n.key             -> "queued"
                               [] OTHER                                      -> n.row)
      OBVIOUS
    <2>2. n.row # "again" /\ n.key \in Views /\ shown' = [shown EXCEPT ![n.key] = v]
      BY <1>2, <1>3, <2>1 DEF Apply, Note
    <2>3. ~((running # NoJob /\ running.job.key = n.key) /\ \E j \in queue : j.key = n.key)
      BY <1>1 DEF HubInv, OneEach
    <2>4. /\ ~conditions.enabled => v = "none"
          /\ conditions.enabled /\ ~Live(n.key) => v = n.row
          /\ conditions.enabled /\ Live(n.key) => v = ToShow(n.key)
      BY <2>1, <2>3 DEF Live, LiveIn, ToShow
    <2>q. QED BY <1>1, <2>2, <2>4
  <1>5. \A m : ToShow(m)' = ToShow(m) /\ (Fixed(m)' <=> Fixed(m)) /\ (Stale(m)' <=> Stale(m))
    BY <1>1 DEF ToShow, Fixed, Live, Stale, Hidden, Hides
  <1>6. ASSUME NEW m \in Views, m # n.key PROVE InSync(m)'
    <2>1. SameNotes(Pend', Pend, m)
      BY <1>3, <1>6, NotesTaken
    <2>2. Stays(m)
      BY <1>1, <1>4, <1>5, <1>6 DEF Stays, HubStays
    <2>q. QED BY <2>1, <2>2, SyncKept DEF SyncInv
  <1>7. ASSUME NEW m \in Views, m = n.key PROVE InSync(m)'
    <2>1. /\ About(Pend, m)
          /\ AgainIn(Pend', m) <=> AgainIn(Pend, m)
          /\ LastIn(Pend, m, rows[m]) => \/ LastIn(Pend', m, rows[m])
                                         \/ n.row = rows[m] /\ ~About(Pend', m)
      BY <1>3, <1>4, <1>7, NotesTaken
    <2>2. \/ AgainIn(Pend, m) \/ Stale(m) \/ Fixed(m)
          \/ ~Fixed(m) /\ LastIn(Pend, m, rows[m])
      BY <2>1 DEF SyncInv, InSync
    <2>3. CASE Fixed(m)
      <3>1. shown'[m] = ToShow(m)
        BY <1>4, <1>7, <2>3 DEF Fixed, ToShow
      <3>q. QED BY <1>5, <2>3, <3>1 DEF InSync
    <2>4. CASE ~Fixed(m) /\ LastIn(Pend, m, rows[m])
      <3>1. shown'[m] = n.row /\ ToShow(m) = rows[m]
        BY <1>4, <1>7, <2>4 DEF Fixed, ToShow, Live, LiveIn
      <3>q. QED BY <1>1, <1>5, <2>1, <2>4, <3>1 DEF InSync
    <2>5. CASE AgainIn(Pend, m) \/ Stale(m)
      BY <1>5, <2>1, <2>5 DEF InSync
    <2>q. QED BY <2>2, <2>3, <2>4, <2>5
  <1>q. QED BY <1>6, <1>7 DEF SyncInv

\* A deletion the store has answered: its view is refreshed.
LEMMA SyncApplyDeleted == ASSUME LostInv, ShowType, SyncInv, ApplyDeleted PROVE SyncInv'
  <1>1. /\ UNCHANGED <<conditions, queue, running, lookups, rows, shown, status, untold>>
        /\ posted # <<>> /\ rows' \in [Msgs -> Rows] /\ replies \in Seq(Note)
    BY DEF ApplyDeleted, hubVars, coreVars, ghostVars, goneVars, LostInv, World, ShowType
  <1>2. PICK n, left : n = Head(posted) /\ left = Tail(posted)
    OBVIOUS
  <1>3. /\ Pend \in Seq(Note) /\ Pend # <<>> /\ Head(Pend) = n /\ Tail(Pend) = left \o replies
        /\ n \in Note /\ left \in Seq(Note)
    BY <1>1, <1>2, PendTaken
  <1>4. Refresh({n.key}, left, <<>>) /\ <<>> \in Seq(Note) /\ replies \o <<>> = replies
    BY <1>1, <1>2 DEF ApplyDeleted
  <1>5. /\ \A m \in {n.key} \cap Views :
               IF conditions'.enabled /\ ~LiveIn(queue', running', m)
               THEN LastIn(Pend', m, rows'[m]) ELSE About(Pend', m)
        /\ \A m : m \notin {n.key} => SameNotes(Pend', left \o replies, m)
    BY <1>1, <1>3, <1>4, RefreshTells DEF Pend
  <1>6. ASSUME NEW m \in Views PROVE InSync(m)'
    <2>1. CASE m = n.key
      BY <1>5, <2>1, SyncHeard
    <2>2. CASE m # n.key
      <3>0. SameNotes(Tail(Pend), Pend, m)
        BY <1>3, <2>2, NotesTaken
      <3>1. SameNotes(Pend', left \o replies, m) /\ SameNotes(left \o replies, Pend, m)
        BY <1>3, <1>5, <2>2, <3>0
      <3>2. SameNotes(Pend', Pend, m)
        BY <3>1 DEF SameNotes
      <3>3. Stays(m)
        BY <1>1 DEF Stays, HubStays, Stale, Hidden, Hides
      <3>q. QED BY <3>2, <3>3, SyncKept DEF SyncInv
    <2>q. QED BY <2>1, <2>2
  <1>q. QED BY <1>6 DEF SyncInv

\* The store posts an answer; a run ends on its thread.
LEMMA SyncElse ==
    ASSUME LostInv, ShowType, SyncInv, StorePosts \/ Speech \/ UNCHANGED vars
    PROVE  SyncInv'
  <1>1. CASE StorePosts
    <2>1. /\ UNCHANGED <<conditions, queue, running, lookups, rows, shown, status, untold>>
          /\ replies # <<>> /\ replies' = Tail(replies) /\ posted' = Append(posted, Head(replies))
          /\ replies \in Seq(Note) /\ posted \in Seq(Note)
      BY <1>1 DEF StorePosts, hubVars, coreVars, ghostVars, goneVars, ShowType
    <2>2. posted' \o replies' = posted \o replies
      BY <2>1
    <2>3. ASSUME NEW m \in Views PROVE InSync(m)'
      <3>1. SameNotes(Pend', Pend, m)
        BY <2>2 DEF SameNotes, Pend
      <3>2. Stays(m)
        BY <2>1 DEF Stays, HubStays, Stale, Hidden, Hides
      <3>q. QED BY <3>1, <3>2, SyncKept DEF SyncInv
    <2>q. QED BY <2>3 DEF SyncInv
  <1>2. CASE Speech \/ UNCHANGED vars
    <2>1. /\ UNCHANGED <<conditions, queue, lookups, rows, shown, status, untold, posted, replies>>
          /\ \A m : RunsIn(running', m) <=> RunsIn(running, m)
      <3>1. CASE Speech
        <4>1. PICK result \in {"ok", "failed", "cancelled"} : RunEnds(result)
          BY <3>1 DEF Speech
        <4>2. running \in Run /\ running' = [running EXCEPT !.result = result]
          BY <4>1 DEF RunEnds, LostInv, HubInv, Jobs
        <4>3. running' \in Run /\ running'.job = running.job
          BY <4>2 DEF Run
        <4>4. running # NoJob /\ running' # NoJob
          BY <4>2, <4>3, NoJobAssumption
        <4>q. QED BY <4>1, <4>3, <4>4 DEF RunEnds, RunsIn, showVars, coreVars, ghostVars, goneVars
      <3>2. CASE UNCHANGED vars
        BY <3>2 DEF vars, hubVars, showVars, coreVars, ghostVars, goneVars
      <3>q. QED BY <1>2, <3>1, <3>2
    <2>2. \A m \in Views : Stays(m)
      BY <2>1 DEF Stays, HubStays, WaitsIn, Stale, Hidden, Hides
    <2>q. QED BY <2>1, <2>2, SyncStays
  <1>q. QED BY <1>1, <1>2

LEMMA SyncInit == Init => SyncInv
  <1> SUFFICES ASSUME Init, NEW m \in Views PROVE InSync(m)
    BY DEF SyncInv
  <1>1. /\ queue = {} /\ running = NoJob /\ posted = <<>> /\ replies = <<>>
        /\ shown[m] = IF conditions.enabled THEN rows[m] ELSE "none"
    BY DEF Init
  <1>2. ~About(Pend, m)
    BY <1>1 DEF About, Pend
  <1>3. shown[m] = ToShow(m)
    BY <1>1 DEF ToShow
  <1>q. QED BY <1>2, <1>3 DEF InSync

LEMMA SyncStep == LostInv /\ LostInv' /\ ShowType /\ SyncInv /\ [Next]_vars => SyncInv'
  <1> SUFFICES ASSUME LostInv, LostInv', ShowType, SyncInv, [Next]_vars PROVE SyncInv'
    OBVIOUS
  <1>0. status \in [Msgs -> {"absent", "partial", "there", "gone"}]
    BY DEF LostInv, World
  <1>1. CASE Environment
    BY <1>0, <1>1, SyncStarts, SyncSettings, SyncTouched DEF Environment
  <1>2. CASE QtThread
    BY <1>0, <1>2, SyncStarts, SyncDeleted, SyncArrivalFound, SyncTapFound, SyncManyFound,
       SyncAfter, SyncRunEnded, SyncApply, SyncApplyDeleted DEF QtThread
  <1>3. CASE Tasks
    BY <1>3, SyncListing, SyncKnown, SyncLoading DEF Tasks
  <1>4. CASE \E t \in lookups : Fails(t)
    BY <1>4, SyncFails
  <1>5. CASE StorePosts \/ Speech \/ UNCHANGED vars
    BY <1>5, SyncElse
  <1>q. QED BY <1>1, <1>2, <1>3, <1>4, <1>5 DEF Next

\* A view at rest shows the state of its message, however answers of the store cross changes of
\* the queue, of the settings and of the rows (refresh, apply); it may lag only where a sweep that
\* failed took the row of a message that is gone.
THEOREM ViewsShowWhatIs == Spec => []ShownInSync
  <1>1. SyncInv => ShownInSync
    <2> SUFFICES ASSUME SyncInv, replies = <<>>, posted = <<>>, NEW m \in Views, ~Hidden(m)
                 PROVE  shown[m] = ToShow(m) \/ (m \in untold /\ status[m] = "gone" /\ rows[m] = "none")
      BY DEF ShownInSync, Hidden, Hides
    <2>1. ~About(Pend, m) /\ ~AgainIn(Pend, m) /\ ~LastIn(Pend, m, rows[m])
      BY DEF Pend, About, AgainIn, LastIn
    <2>q. QED BY <2>1 DEF SyncInv, InSync, Stale
  <1>2. Init => LostInv /\ ShowType /\ SyncInv
    BY LostInit, SyncInit, ShowInit
  <1>3. LostInv /\ ShowType /\ SyncInv /\ [Next]_vars => LostInv' /\ ShowType' /\ SyncInv'
    BY LostStep, ShowStep, SyncStep
  <1>q. QED BY <1>1, <1>2, <1>3, PTL DEF Spec
=============================================================================
