-------------------------- MODULE OfflineIoProofs ---------------------------
(***************************************************************************)
(* Proofs about the supervised server and the window that pauses its IO,   *)
(* for every restart limit, every set of accounts and every bound on the   *)
(* calls in flight.                                                        *)
(***************************************************************************)
EXTENDS OfflineIo, TLAPS

\* The part of TypeOK about the chain of restarts.
ChainType ==
    /\ runtime \in BOOLEAN
    /\ tasks \in [TaskKinds -> Nat]
    /\ queue \in Seq(Callbacks)

\* Runs takes a callback from the queue.
LEMMA RunsTakes ==
    ASSUME NEW callback \in Callbacks, queue \in Seq(Callbacks), Runs(callback)
    PROVE  queue' \in Seq(Callbacks) /\ Len(queue') = Len(queue) - 1 /\ Len(queue) > 0
  BY DEF Runs

\* Post puts one into it.
LEMMA PostAdds ==
    ASSUME NEW callback \in Callbacks, queue \in Seq(Callbacks), Post(callback)
    PROVE  queue' \in Seq(Callbacks) /\ Len(queue') = Len(queue) + 1
  BY DEF Post

\* A callback that waits is the chain's one link.
LEMMA OneLink ==
    ASSUME ChainType, OneChain, Len(queue) > 0
    PROVE  runtime /\ tasks["spawn"] = 0 /\ tasks["drain"] = 0 /\ tasks["sleep"] = 0 /\ Len(queue) = 1
  <1>1. runtime
    BY DEF ChainType, OneChain, TaskKinds
  <1>2. /\ tasks["spawn"] \in Nat /\ tasks["drain"] \in Nat /\ tasks["sleep"] \in Nat
        /\ Len(queue) \in Nat
        /\ tasks["spawn"] + tasks["drain"] + tasks["sleep"] + Len(queue) = 1
    BY <1>1 DEF ChainType, OneChain, TaskKinds
  <1>3. tasks["spawn"] = 0
    BY <1>2
  <1>4. tasks["drain"] = 0
    BY <1>2
  <1>5. tasks["sleep"] = 0
    BY <1>2
  <1>6. Len(queue) = 1
    BY <1>2, <1>3, <1>4, <1>5
  <1>q. QED BY <1>1, <1>3, <1>4, <1>5, <1>6

\* schedule_restart, when the callback that ran it was the chain's one link.
LEMMA ScheduleKeepsChain ==
    ASSUME ChainType, OneChain, ScheduleRestart,
           queue' \in Seq(Callbacks), Len(queue') = Len(queue) - 1, Len(queue) > 0
    PROVE  ChainType' /\ OneChain'
  <1>1. runtime /\ tasks["spawn"] = 0 /\ tasks["drain"] = 0 /\ tasks["sleep"] = 0 /\ Len(queue) = 1
    BY OneLink
  <1>2. CASE Tried >= RestartLimit
    <2>1. runtime' = FALSE /\ tasks' = tasks
      BY <1>1, <1>2 DEF ScheduleRestart, RestartOrGiveUp
    <2>2. runtime' \in BOOLEAN /\ ~runtime'
      BY <2>1
    <2>3. tasks' \in [TaskKinds -> Nat]
      BY <2>1 DEF ChainType
    <2>4. Len(queue') = 0
      BY <1>1
    <2>5. tasks'["spawn"] = 0 /\ tasks'["drain"] = 0 /\ tasks'["sleep"] = 0
      BY <1>1, <2>1
    <2>6. OneChain'
      BY <2>2, <2>4, <2>5 DEF OneChain
    <2>q. QED BY <2>2, <2>3, <2>6 DEF ChainType
  <1>3. CASE ~(Tried >= RestartLimit)
    <2>1. runtime' = TRUE /\ tasks' = [tasks EXCEPT !["sleep"] = @ + 1]
      BY <1>1, <1>3 DEF ScheduleRestart, RestartOrGiveUp, Begin
    <2>q. QED BY <1>1, <2>1 DEF ChainType, OneChain, TaskKinds
  <1>q. QED BY <1>2, <1>3

\* No step breaks the chain, or makes two of it.
LEMMA ChainStep == ChainType /\ OneChain /\ [Next]_vars => ChainType' /\ OneChain'
  <1> SUFFICES ASSUME ChainType, OneChain, [Next]_vars
               PROVE  ChainType' /\ OneChain'
    OBVIOUS
  <1> USE DEF ChainType, OneChain, TaskKinds, Callbacks
  <1>1. CASE Start
    <2>1. ~runtime /\ queue' = queue
      BY <1>1 DEF Start
    <2>2. CASE runtime' = runtime /\ tasks' = tasks
      BY <2>1, <2>2
    <2>3. CASE runtime' = TRUE /\ tasks' = [tasks EXCEPT !["spawn"] = @ + 1]
      BY <2>1, <2>3
    <2>q. QED BY <1>1, <2>2, <2>3 DEF Start, Begin
  <1>2. CASE SpawnEnds
    BY <1>2, PostAdds DEF SpawnEnds, Finish, shimVars, askedVars
  <1>3. CASE StreamEnds
    BY <1>3, PostAdds DEF StreamEnds, Finish, shimVars
  <1>4. CASE SleepOver
    BY <1>4, PostAdds DEF SleepOver, Finish, shimVars
  <1>5. CASE Stopped
    BY <1>5, RunsTakes, ScheduleKeepsChain DEF Stopped
  <1>6. CASE SpawnFailed
    <2>1. queue' \in Seq(Callbacks) /\ Len(queue') = Len(queue) - 1 /\ Len(queue) > 0
      BY <1>6, RunsTakes DEF SpawnFailed
    <2>2. CASE supervising
      BY <1>6, <2>1, <2>2, ScheduleKeepsChain DEF SpawnFailed
    <2>3. CASE ~supervising
      <3>1. runtime' = FALSE /\ tasks' = tasks
        BY <1>6, <2>3 DEF SpawnFailed
      <3>2. Len(queue) = 1 /\ tasks["spawn"] = 0 /\ tasks["drain"] = 0 /\ tasks["sleep"] = 0
        BY <2>1
      <3>3. runtime' \in BOOLEAN /\ ~runtime'
        BY <3>1
      <3>q. QED BY <2>1, <3>1, <3>2, <3>3
    <2>q. QED BY <2>2, <2>3
  <1>7. CASE Retry
    <2>1. queue' \in Seq(Callbacks) /\ Len(queue') = Len(queue) - 1 /\ Len(queue) > 0
      BY <1>7, RunsTakes DEF Retry
    <2>q. QED BY <1>7, <2>1 DEF Retry, Begin, shimVars
  <1>8. CASE WindowReady
    <2>1. queue' \in Seq(Callbacks) /\ Len(queue') = Len(queue) - 1 /\ Len(queue) > 0
      BY <1>8, RunsTakes DEF WindowReady, Ready
    <2>2. runtime' = runtime /\ tasks' = [tasks EXCEPT !["drain"] = @ + 1]
      BY <1>8 DEF WindowReady, Ready, Begin
    <2>q. QED BY <2>1, <2>2
  <1>9. CASE UNCHANGED <<runtime, tasks, queue>>
    BY <1>9
  <1>10. StartAllIo \/ StopAllIo \/ UNCHANGED coreVars => UNCHANGED <<runtime, tasks, queue>>
    BY DEF StartAllIo, StopAllIo, coreVars, shimVars, chainVars
  <1>11. ASSUME NEW a \in Accounts, StartAccountIo(a) PROVE UNCHANGED <<runtime, tasks, queue>>
    BY <1>11 DEF StartAccountIo, shimVars, chainVars
  <1>12. Obeys \/ ServerDies \/ UptimeHealthy => UNCHANGED <<runtime, tasks, queue>>
    BY DEF Obeys, ServerObeys, ServerDies, UptimeHealthy, shimVars, chainVars
  <1>13. ResumeIo \/ PauseIo => UNCHANGED <<runtime, tasks, queue>>
    BY <1>10 DEF ResumeIo, PauseIo
  <1>14. AppActive \/ Settle \/ Lose => UNCHANGED <<runtime, tasks, queue>>
    BY <1>13 DEF AppActive, Settle, Lose
  <1>15. ASSUME NEW state, Heard(state) PROVE UNCHANGED <<runtime, tasks, queue>>
    BY <1>15, <1>10 DEF Heard
  <1>16. UNCHANGED vars => UNCHANGED <<runtime, tasks, queue>>
    BY <1>10 DEF vars
  <1>q. QED
    BY <1>1, <1>2, <1>3, <1>4, <1>5, <1>6, <1>7, <1>8, <1>9, <1>11, <1>12, <1>14, <1>15,
       <1>16, OfflineIoAssumption
    DEF Next, CoreNext, Task, Callback

\* For every restart limit, exactly one link of the chain of restarts is under way
\* while the runtime is held, and none otherwise: no server is forgotten, and
\* none is started beside another.
THEOREM Supervised == Spec => []OneChain
  <1>1. ASSUME Init PROVE ChainType /\ OneChain
    <2>1. runtime = FALSE /\ queue = <<>> /\ tasks = [t \in TaskKinds |-> 0]
      BY <1>1 DEF Init, CoreInit
    <2>2. runtime \in BOOLEAN /\ ~runtime
      BY <2>1
    <2>q. QED BY <2>1, <2>2 DEF ChainType, OneChain, TaskKinds
  <1>q. QED BY <1>1, ChainStep, PTL DEF Spec

-----------------------------------------------------------------------------
(* What the window wants, and what the shim remembers *)

\* The part of TypeOK about it.
WishType == ioAll \in BOOLEAN /\ askedForIo \in BOOLEAN /\ ioPaused \in BOOLEAN

\* IO is only paused once it was asked for.  WindowAgrees is not inductive without
\* it: the first "ready" would start IO that the window holds for paused.
PausedWasAsked == ioPaused => askedForIo

WishInv == WishType /\ lost \in BOOLEAN /\ PausedWasAsked /\ WindowAgrees

\* No step parts what the shim remembers from what the window wants.
LEMMA WishStep == WishInv /\ [Next]_vars => WishInv'
  <1> SUFFICES ASSUME WishInv, [Next]_vars PROVE WishInv'
    OBVIOUS
  <1> USE DEF WishInv, WishType, PausedWasAsked, WindowAgrees
  <1>1. CASE UNCHANGED <<ioAll, windowVars, lost>>
    BY <1>1 DEF windowVars
  <1>2. CoreNext => UNCHANGED ioAll
    BY DEF CoreNext, Start, Task, SpawnEnds, StreamEnds, SleepOver, Callback, SpawnFailed,
           Stopped, Retry, Obeys, ServerObeys, ServerDies, UptimeHealthy, askedVars
  <1>3. CASE CoreNext /\ WindowIdle
    BY <1>1, <1>2, <1>3 DEF WindowIdle, windowVars, watchVars
  <1>4. CASE \E a \in ApiAccounts : StartAccountIo(a) /\ WindowIdle
    BY <1>1, <1>4 DEF StartAccountIo, WindowIdle, windowVars, watchVars
  <1>5. CASE WindowReady
    <2>1. /\ askedForIo' = TRUE /\ ioPaused' = (ioPaused \/ lost) /\ lost' = lost
          /\ ioAll' = (Reply = "start" \/ (ioAll /\ Reply # "stop"))
      BY <1>5 DEF WindowReady, Ready, watchVars
    <2>2. CASE lost
      <3>1. Reply = (IF ioPaused THEN "none" ELSE "stop")
        BY <2>2 DEF Reply
      <3>2. ~ioAll' /\ ioPaused'
        BY <2>1, <2>2, <3>1
      <3>q. QED BY <2>1, <3>2
    <2>3. CASE ~lost
      <3>1. Reply = (IF askedForIo THEN "none" ELSE "start")
        BY <2>3 DEF Reply
      <3>2. ioPaused' = ioPaused /\ (ioAll' <=> ~ioPaused)
        BY <2>1, <2>3, <3>1
      <3>q. QED BY <2>1, <3>2
    <2>q. QED BY <2>2, <2>3
  <1>6. ResumeIo => WishType' /\ PausedWasAsked' /\ WindowAgrees'
    <2>1. CASE ResumeIo /\ ioAll' = TRUE /\ ioPaused' = FALSE /\ ioPaused /\ askedForIo' = askedForIo
      BY <2>1
    <2>2. CASE UNCHANGED <<ioAll, windowVars>>
      BY <2>2 DEF windowVars
    <2>q. QED BY <2>1, <2>2 DEF ResumeIo, StartAllIo, coreVars, askedVars
  <1>7. PauseIo => WishType' /\ PausedWasAsked' /\ WindowAgrees'
    <2>1. CASE PauseIo /\ ioAll' = FALSE /\ ioPaused' = TRUE /\ askedForIo /\ askedForIo' = askedForIo
      BY <2>1
    <2>2. CASE UNCHANGED <<ioAll, windowVars>>
      BY <2>2 DEF windowVars
    <2>q. QED BY <2>1, <2>2 DEF PauseIo, StopAllIo, coreVars, askedVars
  <1>8. CASE AppActive
    BY <1>6, <1>8 DEF AppActive, watchVars
  <1>9. CASE Settle
    BY <1>6, <1>9 DEF Settle
  <1>10. CASE Lose
    BY <1>7, <1>10 DEF Lose
  <1>11. CASE \E state \in Online \cup Offline : Heard(state)
    <2>1. PICK state \in Online \cup Offline : Heard(state)
      BY <1>11
    <2>2. UNCHANGED <<ioAll, windowVars>>
      BY <2>1 DEF Heard, coreVars, askedVars
    <2>3. lost' = FALSE \/ lost' = lost
      BY <2>1 DEF Heard
    <2>4. lost' \in BOOLEAN
      BY <2>3
    <2>q. QED BY <2>2, <2>4 DEF windowVars
  <1>12. CASE UNCHANGED vars
    BY <1>1, <1>12 DEF vars, coreVars, askedVars, watchVars
  <1>q. QED
    BY <1>3, <1>4, <1>5, <1>8, <1>9, <1>10, <1>11, <1>12 DEF Next

\* What holds initially.
LEMMA InitWish == ASSUME Init PROVE WishInv
  <1>1. ioAll = FALSE /\ askedForIo = FALSE /\ ioPaused = FALSE /\ lost = FALSE
    BY DEF Init, CoreInit
  <1>2. WishType /\ lost \in BOOLEAN
    BY <1>1 DEF WishType
  <1>3. PausedWasAsked /\ WindowAgrees
    BY <1>1 DEF PausedWasAsked, WindowAgrees
  <1>q. QED BY <1>2, <1>3 DEF WishInv

\* Whatever dies, restarts, is lost or returns in whatever order, the IO the shim
\* will start on the next server is what the window wants now.
THEOREM WishRemembered == Spec => []WindowAgrees
  <1>1. WishInv => WindowAgrees
    BY DEF WishInv
  <1>q. QED BY <1>1, InitWish, WishStep, PTL DEF Spec

-----------------------------------------------------------------------------
(* When the shim gives up *)

Started == queue = <<"started">>
Failed  == queue = <<"failed">>
Over    == queue = <<"stopped">>
Drained == tasks["drain"] = 1

\* A failure the shim has not counted yet.
Due == IF Failed \/ (server = "dead" /\ (Drained \/ Started \/ Over)) THEN 1 ELSE 0

CountType ==
    /\ attempt \in 0 .. RestartLimit
    /\ failures \in Nat
    /\ server \in {"none", "up", "dead"}

\* What the place in the chain says of the server and of its uptime.
Placed ==
    /\ server = "up" => runtime /\ (Drained \/ Started)
    /\ Drained \/ Started => server # "none"
    /\ Failed => server = "none"
    /\ Over => server = "dead"
    /\ startedAt # "none" => Drained \/ Over
    /\ status = "stopped" => ~runtime

\* The failures are those the next decision counts, and the one due.
\* GivesUpInTime is not inductive without it: it says nothing before the end.
Counted ==
    /\ runtime => failures = Tried + Due
    /\ ~runtime => failures <= RestartLimit + 1
    /\ status = "stopped" => failures = RestartLimit + 1

CountInv == ChainType /\ OneChain /\ CountType /\ Placed /\ Counted

\* The callback that runs is the chain's one link.
LEMMA OnlyCallback ==
    ASSUME ChainType, OneChain, NEW callback \in Callbacks, Runs(callback)
    PROVE  /\ runtime /\ queue = <<callback>> /\ queue' = <<>>
           /\ tasks = [t \in TaskKinds |-> 0]
  <1>1. Len(queue) > 0
    BY DEF Runs, ChainType
  <1>2. runtime /\ tasks["spawn"] = 0 /\ tasks["drain"] = 0 /\ tasks["sleep"] = 0 /\ Len(queue) = 1
    BY <1>1, OneLink
  <1>3. Head(queue) = callback /\ queue' = Tail(queue)
    BY DEF Runs
  <1>q. QED BY <1>2, <1>3 DEF ChainType, TaskKinds

\* So is the task that ends.
LEMMA OnlyTask ==
    ASSUME ChainType, OneChain, NEW task \in TaskKinds, tasks[task] > 0
    PROVE  /\ runtime /\ queue = <<>>
           /\ tasks = [t \in TaskKinds |-> IF t = task THEN 1 ELSE 0]
  <1>1. runtime /\ Len(queue) = 0 /\ \A t \in TaskKinds : tasks[t] = IF t = task THEN 1 ELSE 0
    BY DEF ChainType, OneChain, TaskKinds
  <1>q. QED BY <1>1 DEF ChainType

\* schedule_restart counts the failure that is due.
LEMMA ScheduleCounts ==
    ASSUME CountInv, ScheduleRestart, runtime, Due = 1, server # "up",
           queue' = <<>>, tasks = [t \in TaskKinds |-> 0],
           UNCHANGED <<server, failures>>
    PROVE  CountType' /\ Placed' /\ Counted'
  <1> USE DEF CountInv
  <1>1. Tried \in 0 .. RestartLimit /\ failures = Tried + 1
    BY SupervisorAssumption DEF Tried, CountType, Counted
  <1>2. startedAt' = "none" /\ ~Started' /\ ~Failed' /\ ~Over'
    BY DEF ScheduleRestart, Started, Failed, Over
  <1>3. CASE Tried >= RestartLimit
    <2>1. /\ ~runtime' /\ status' = "stopped" /\ attempt' = Tried /\ tasks' = tasks
      BY <1>3 DEF ScheduleRestart, RestartOrGiveUp
    <2>2. failures' = RestartLimit + 1
      BY <1>1, <1>3, SupervisorAssumption
    <2>3. CountType'
      BY <1>1, <2>1 DEF CountType
    <2>4. Placed'
      BY <1>2, <2>1 DEF Placed, Drained, TaskKinds
    <2>5. Counted'
      BY <2>1, <2>2, SupervisorAssumption DEF Counted
    <2>q. QED BY <2>3, <2>4, <2>5
  <1>4. CASE ~(Tried >= RestartLimit)
    <2>1. /\ runtime' /\ status' = "reconnecting" /\ attempt' = Tried + 1
          /\ tasks' = [tasks EXCEPT !["sleep"] = @ + 1]
      BY <1>4 DEF ScheduleRestart, RestartOrGiveUp, Begin
    <2>2. ~Drained'
      BY <2>1 DEF Drained, TaskKinds
    <2>3. CountType'
      BY <1>1, <1>4, <2>1, SupervisorAssumption DEF CountType
    <2>4. Placed'
      BY <1>2, <2>1, <2>2 DEF Placed
    <2>5. Due' = 0 /\ Tried' = Tried + 1
      BY <1>2, <2>1, <2>2 DEF Due, Tried
    <2>6. Counted'
      BY <1>1, <2>1, <2>5 DEF Counted
    <2>q. QED BY <2>3, <2>4, <2>6
  <1>q. QED BY <1>3, <1>4

\* Every step keeps the count.
LEMMA CountStep == CountInv /\ [Next]_vars => CountInv'
  <1> SUFFICES ASSUME CountInv, [Next]_vars
               PROVE  CountType' /\ Placed' /\ Counted'
    BY ChainStep DEF CountInv
  <1> USE DEF CountInv
  <1>1. CASE Start
    <2>1. /\ ~runtime /\ queue' = queue /\ startedAt' = startedAt /\ server' = server
      BY <1>1 DEF Start
    <2>2. Len(queue) = 0 /\ tasks["drain"] = 0 /\ server # "up"
      BY <2>1 DEF ChainType, OneChain, TaskKinds, Placed
    <2>3. ~Started /\ ~Failed /\ ~Over /\ ~Drained
      BY <2>2 DEF Started, Failed, Over, Drained
    <2>4. ~Started' /\ ~Failed' /\ ~Over'
      BY <2>1, <2>3 DEF Started, Failed, Over
    <2>5. CASE UNCHANGED <<runtime, attempt, tasks, failures>> /\ status' = "error"
      <3>1. ~Drained' /\ ~runtime'
        BY <2>1, <2>3, <2>5 DEF Drained
      <3>2. CountType' /\ Placed'
        BY <2>1, <2>2, <2>3, <2>4, <2>5, <3>1 DEF CountType, Placed
      <3>3. Counted'
        BY <2>1, <2>5, <3>1 DEF Counted
      <3>q. QED BY <3>2, <3>3
    <2>6. CASE /\ runtime' = TRUE /\ attempt' = 0 /\ failures' = 0 /\ status' = "starting"
               /\ tasks' = [tasks EXCEPT !["spawn"] = @ + 1]
      <3>1. ~Drained' /\ runtime'
        BY <2>2, <2>6 DEF Drained, ChainType, TaskKinds
      <3>2. CountType' /\ Placed'
        BY <2>1, <2>2, <2>3, <2>4, <2>6, <3>1, SupervisorAssumption DEF CountType, Placed
      <3>3. Due' = 0 /\ Tried' = 0
        BY <2>4, <2>6, <3>1 DEF Due, Tried
      <3>4. Counted'
        BY <2>6, <3>1, <3>3 DEF Counted
      <3>q. QED BY <3>2, <3>4
    <2>q. QED BY <1>1, <2>5, <2>6 DEF Start, Begin
  <1>2. CASE SpawnEnds
    <2>1. /\ runtime /\ queue = <<>> /\ tasks["drain"] = 0
          /\ tasks' = [tasks EXCEPT !["spawn"] = @ - 1]
          /\ UNCHANGED <<runtime, status, startedAt, attempt>>
      BY <1>2, OnlyTask DEF SpawnEnds, Finish, TaskKinds, shimVars
    <2>2. ~Drained /\ ~Drained' /\ startedAt = "none" /\ ~Started /\ ~Failed /\ ~Over
      BY <2>1 DEF Drained, Placed, Started, Failed, Over, ChainType, TaskKinds
    <2>3. failures = Tried /\ Tried' = Tried
      BY <2>1, <2>2 DEF Counted, Due, Tried, CountType
    <2>4. CASE server' = "up" /\ Post("started") /\ failures' = failures
      <3>1. Started' /\ ~Failed' /\ ~Over'
        BY <2>1, <2>4 DEF Post, Started, Failed, Over
      <3>2. CountType' /\ Placed'
        BY <2>1, <2>2, <2>4, <3>1 DEF CountType, Placed
      <3>3. Due' = 0
        BY <2>4, <3>1 DEF Due
      <3>4. Counted'
        BY <2>1, <2>3, <2>4, <3>2, <3>3 DEF Counted, CountType, Tried, Placed
      <3>q. QED BY <3>2, <3>4
    <2>5. CASE server' = "none" /\ Post("failed") /\ failures' = failures + 1
      <3>1. ~Started' /\ Failed' /\ ~Over'
        BY <2>1, <2>5 DEF Post, Started, Failed, Over
      <3>2. CountType' /\ Placed'
        BY <2>1, <2>2, <2>5, <3>1 DEF CountType, Placed
      <3>3. Due' = 1
        BY <3>1 DEF Due
      <3>4. Counted'
        BY <2>1, <2>3, <2>5, <3>2, <3>3 DEF Counted, CountType, Tried, Placed
      <3>q. QED BY <3>2, <3>4
    <2>q. QED BY <1>2, <2>4, <2>5 DEF SpawnEnds
  <1>3. CASE WindowReady
    <2>1. /\ runtime /\ queue = <<"started">> /\ queue' = <<>> /\ tasks = [t \in TaskKinds |-> 0]
      BY <1>3, OnlyCallback DEF WindowReady, Ready, Callbacks
    <2>2. /\ status' = "ready" /\ startedAt' = "fresh"
          /\ tasks' = [tasks EXCEPT !["drain"] = @ + 1]
          /\ UNCHANGED <<runtime, attempt, server, failures>>
      BY <1>3 DEF WindowReady, Ready, Begin, serverVars
    <2>3. Drained' /\ ~Started' /\ ~Failed' /\ ~Over' /\ ~Drained
      BY <2>1, <2>2 DEF Drained, Started, Failed, Over, TaskKinds
    <2>4. Started /\ ~Failed /\ ~Over /\ startedAt = "none"
      BY <2>1, <2>3 DEF Started, Failed, Over, Placed
    <2>5. CountType' /\ Placed'
      BY <2>1, <2>2, <2>3, <2>4 DEF CountType, Placed
    <2>6. Tried' = Tried /\ Due' = Due
      BY <2>2, <2>3, <2>4 DEF Tried, Due
    <2>7. Counted'
      BY <2>1, <2>2, <2>6 DEF Counted
    <2>q. QED BY <2>5, <2>7
  <1>4. CASE SpawnFailed
    <2>1. /\ runtime /\ queue = <<"failed">> /\ queue' = <<>> /\ tasks = [t \in TaskKinds |-> 0]
          /\ UNCHANGED <<server, failures>>
      BY <1>4, OnlyCallback DEF SpawnFailed, Callbacks, serverVars
    <2>2. Due = 1 /\ server = "none" /\ startedAt = "none"
      BY <2>1 DEF Due, Failed, Placed, Drained, Over, TaskKinds
    <2>3. CASE supervising
      BY <1>4, <2>1, <2>2, <2>3, ScheduleCounts DEF SpawnFailed
    <2>4. CASE ~supervising
      <3>1. ~runtime' /\ status' = "error" /\ UNCHANGED <<startedAt, attempt, tasks>>
        BY <1>4, <2>4 DEF SpawnFailed
      <3>2. ~Started' /\ ~Failed' /\ ~Over' /\ ~Drained'
        BY <2>1, <3>1 DEF Started, Failed, Over, Drained, TaskKinds
      <3>3. CountType' /\ Placed'
        BY <2>1, <2>2, <3>1, <3>2 DEF CountType, Placed
      <3>4. failures <= RestartLimit + 1
        BY <2>1, <2>2, SupervisorAssumption DEF Counted, Tried, CountType
      <3>5. Counted'
        BY <2>1, <3>1, <3>4 DEF Counted
      <3>q. QED BY <3>3, <3>5
    <2>q. QED BY <2>3, <2>4
  <1>5. CASE Stopped
    <2>1. /\ runtime /\ queue = <<"stopped">> /\ queue' = <<>> /\ tasks = [t \in TaskKinds |-> 0]
          /\ UNCHANGED <<server, failures>> /\ ScheduleRestart
      BY <1>5, OnlyCallback DEF Stopped, Callbacks, serverVars
    <2>2. Due = 1 /\ server = "dead"
      BY <2>1 DEF Due, Over, Placed
    <2>q. QED BY <2>1, <2>2, ScheduleCounts
  <1>6. CASE Retry
    <2>1. /\ runtime /\ queue = <<"retry">> /\ queue' = <<>> /\ tasks = [t \in TaskKinds |-> 0]
      BY <1>6, OnlyCallback DEF Retry, Callbacks
    <2>2. /\ tasks' = [tasks EXCEPT !["spawn"] = @ + 1]
          /\ UNCHANGED <<runtime, status, startedAt, attempt, server, failures>>
      BY <1>6 DEF Retry, Begin, shimVars, serverVars
    <2>3. /\ ~Drained /\ ~Started /\ ~Failed /\ ~Over
          /\ ~Drained' /\ ~Started' /\ ~Failed' /\ ~Over'
      BY <2>1, <2>2 DEF Drained, Started, Failed, Over, TaskKinds
    <2>q. QED BY <2>2, <2>3 DEF CountType, Placed, Counted, Tried, Due
  <1>7. CASE SleepOver
    <2>1. /\ runtime /\ queue = <<>> /\ tasks["drain"] = 0
          /\ tasks' = [tasks EXCEPT !["sleep"] = @ - 1] /\ queue' = Append(queue, "retry")
          /\ UNCHANGED <<runtime, status, startedAt, attempt, server, failures>>
      BY <1>7, OnlyTask DEF SleepOver, Finish, Post, TaskKinds, shimVars, serverVars
    <2>2. /\ ~Drained /\ ~Started /\ ~Failed /\ ~Over
          /\ ~Drained' /\ ~Started' /\ ~Failed' /\ ~Over'
      BY <2>1 DEF Drained, Started, Failed, Over, TaskKinds, ChainType
    <2>q. QED BY <2>1, <2>2 DEF CountType, Placed, Counted, Tried, Due
  <1>8. CASE StreamEnds
    <2>1. /\ runtime /\ queue = <<>> /\ tasks["drain"] = 1 /\ server # "up"
          /\ tasks' = [tasks EXCEPT !["drain"] = @ - 1] /\ queue' = Append(queue, "stopped")
          /\ UNCHANGED <<runtime, status, startedAt, attempt, server, failures>>
      BY <1>8, OnlyTask DEF StreamEnds, Finish, Post, TaskKinds, shimVars, serverVars
    <2>2. /\ Drained /\ ~Started /\ ~Failed /\ ~Over
          /\ ~Drained' /\ ~Started' /\ ~Failed' /\ Over'
      BY <2>1 DEF Drained, Started, Failed, Over, TaskKinds, ChainType
    <2>3. server = "dead"
      BY <2>1, <2>2 DEF Placed, CountType
    <2>q. QED BY <2>1, <2>2, <2>3 DEF CountType, Placed, Counted, Tried, Due
  <1>9. CASE ServerDies
    <2>1. /\ server = "up" /\ server' = "dead" /\ failures' = failures + 1
          /\ UNCHANGED <<runtime, status, startedAt, attempt, tasks, queue>>
      BY <1>9 DEF ServerDies, shimVars, chainVars
    <2>2. runtime /\ (Drained \/ Started) /\ ~Failed /\ ~Over
      BY <2>1 DEF Placed
    <2>3. Drained' = Drained /\ Started' = Started /\ Failed' = Failed /\ Over' = Over
      BY <2>1 DEF Drained, Started, Failed, Over
    <2>4. Due = 0 /\ Due' = 1 /\ Tried' = Tried
      BY <2>1, <2>2, <2>3 DEF Due, Tried
    <2>5. CountType' /\ Placed'
      BY <2>1, <2>2, <2>3 DEF CountType, Placed
    <2>6. Counted'
      BY <2>1, <2>2, <2>4 DEF Counted, CountType, Tried, Placed
    <2>q. QED BY <2>5, <2>6
  <1>10. CASE UptimeHealthy
    <2>1. /\ server = "up" /\ startedAt = "fresh" /\ startedAt' = "long" /\ failures' = 0
          /\ UNCHANGED <<runtime, status, attempt, tasks, queue, server>>
      BY <1>10 DEF UptimeHealthy, chainVars
    <2>2. Drained' = Drained /\ Started' = Started /\ Failed' = Failed /\ Over' = Over
      BY <2>1 DEF Drained, Started, Failed, Over
    <2>3. runtime /\ ~Failed /\ status # "stopped"
      BY <2>1 DEF Placed
    <2>4. Due' = 0 /\ Tried' = 0
      BY <2>1, <2>2, <2>3 DEF Due, Tried
    <2>5. CountType' /\ Placed'
      BY <2>1, <2>2, <2>3 DEF CountType, Placed
    <2>6. Counted'
      BY <2>1, <2>3, <2>4 DEF Counted
    <2>q. QED BY <2>5, <2>6
  <1>11. CASE UNCHANGED <<runtime, status, startedAt, attempt, tasks, queue, server, failures>>
    BY <1>11 DEF CountType, Placed, Counted, Tried, Due, Drained, Started, Failed, Over
  <1>12. StartAllIo \/ StopAllIo \/ UNCHANGED coreVars
            => UNCHANGED <<runtime, status, startedAt, attempt, tasks, queue, server, failures>>
    BY DEF StartAllIo, StopAllIo, coreVars, shimVars, chainVars, serverVars
  <1>13. ASSUME NEW a \in Accounts, StartAccountIo(a)
         PROVE  UNCHANGED <<runtime, status, startedAt, attempt, tasks, queue, server, failures>>
    BY <1>13 DEF StartAccountIo, shimVars, chainVars, serverVars
  <1>14. Obeys => UNCHANGED <<runtime, status, startedAt, attempt, tasks, queue, server, failures>>
    BY DEF Obeys, ServerObeys, shimVars, chainVars
  <1>15. AppActive \/ Settle \/ Lose
            => UNCHANGED <<runtime, status, startedAt, attempt, tasks, queue, server, failures>>
    BY <1>12 DEF AppActive, Settle, Lose, ResumeIo, PauseIo
  <1>16. ASSUME NEW state, Heard(state)
         PROVE  UNCHANGED <<runtime, status, startedAt, attempt, tasks, queue, server, failures>>
    BY <1>16, <1>12 DEF Heard
  <1>17. UNCHANGED vars
            => UNCHANGED <<runtime, status, startedAt, attempt, tasks, queue, server, failures>>
    BY <1>12 DEF vars
  <1>q. QED
    BY <1>1, <1>2, <1>3, <1>4, <1>5, <1>6, <1>7, <1>8, <1>9, <1>10, <1>11, <1>13, <1>14,
       <1>15, <1>16, <1>17, OfflineIoAssumption
    DEF Next, CoreNext, Task, Callback

\* What holds initially.
LEMMA InitCounts == ASSUME Init PROVE CountInv
  <1>1. /\ runtime = FALSE /\ status = "idle" /\ startedAt = "none" /\ attempt = 0
        /\ server = "none" /\ failures = 0 /\ queue = <<>>
        /\ tasks = [t \in TaskKinds |-> 0]
    BY DEF Init, CoreInit
  <1>2. runtime \in BOOLEAN /\ ~runtime
    BY <1>1
  <1>3. ChainType /\ OneChain
    BY <1>1, <1>2 DEF ChainType, OneChain, TaskKinds
  <1>4. CountType /\ Placed /\ Counted
    BY <1>1, <1>2, SupervisorAssumption
    DEF CountType, Placed, Counted, Drained, Started, Failed, Over, TaskKinds
  <1>q. QED BY <1>3, <1>4 DEF CountInv

\* For every restart limit, the shim gives up after exactly so many restarts
\* without a healthy run between them, whether servers die or cannot be spawned.
THEOREM GivesUp == Spec => []GivesUpInTime
  <1>1. CountInv => GivesUpInTime
    BY SupervisorAssumption DEF CountInv, CountType, Placed, Counted, GivesUpInTime, Due, Tried
  <1>q. QED BY <1>1, InitCounts, CountStep, PTL DEF Spec

-----------------------------------------------------------------------------
(* NetworkWatch, and the types *)

WatchType ==
    /\ connectivity \in {""} \cup Online \cup Offline
    /\ lost \in BOOLEAN /\ settling \in BOOLEAN /\ losing \in BOOLEAN

\* Every word of connman and every timer keeps the watch right.
LEMMA WatchStep ==
    WatchType /\ WatchAgrees /\ [Next]_vars => WatchType' /\ WatchAgrees'
  <1> SUFFICES ASSUME WatchType, WatchAgrees, [Next]_vars
               PROVE  WatchType' /\ WatchAgrees'
    OBVIOUS
  <1>1. CASE UNCHANGED watchVars
    BY <1>1 DEF watchVars, WatchType, WatchAgrees
  <1>2. CASE \E state \in Online \cup Offline : Heard(state)
    <2>1. PICK state \in Online \cup Offline : Heard(state)
      BY <1>2
    <2>2. CASE state \in Online /\ losing' = FALSE /\ lost' = FALSE /\ settling' = TRUE
      <3>1. connectivity' = state /\ state \notin Offline
        BY <2>1, <2>2 DEF Heard, Online, Offline
      <3>2. ~losing' /\ ~lost'
        BY <2>2
      <3>q. QED BY <2>2, <3>1, <3>2 DEF WatchType, WatchAgrees
    <2>3. CASE state \in Offline /\ settling' = FALSE /\ losing' = TRUE /\ lost' = lost
      <3>1. connectivity' = state /\ state \in Offline
        BY <2>1, <2>3 DEF Heard
      <3>2. ~settling' /\ losing'
        BY <2>3
      <3>q. QED BY <2>3, <3>1, <3>2 DEF WatchType, WatchAgrees
    <2>q. QED BY <2>1, <2>2, <2>3 DEF Heard
  <1>3. CASE Settle
    <2>1. settling' = FALSE /\ UNCHANGED <<connectivity, lost, losing>>
      BY <1>3 DEF Settle
    <2>q. QED BY <2>1 DEF WatchType, WatchAgrees
  <1>4. CASE Lose
    <2>1. losing /\ losing' = FALSE /\ lost' = TRUE /\ UNCHANGED <<connectivity, settling>>
      BY <1>4 DEF Lose
    <2>q. QED BY <2>1 DEF WatchType, WatchAgrees
  <1>q. QED BY <1>1, <1>2, <1>3, <1>4 DEF Next, WindowIdle, WindowReady, AppActive, vars

\* What holds initially.
LEMMA InitWatch == ASSUME Init PROVE WatchType /\ WatchAgrees
  <1>1. connectivity = "" /\ lost = FALSE /\ settling = FALSE /\ losing = FALSE
    BY DEF Init
  <1>2. connectivity \notin Offline
    BY <1>1 DEF Offline
  <1>q. QED BY <1>1, <1>2 DEF WatchType, WatchAgrees

\* A loss is only told while the last word is that there is no network, a return
\* only while there is one, and no outage is left untold.
THEOREM WatchRight == Spec => []WatchAgrees
  BY InitWatch, WatchStep, PTL DEF Spec

\* What is left of TypeOK.
RestType ==
    /\ connected \in BOOLEAN /\ supervising \in BOOLEAN
    /\ status \in {"idle", "starting", "ready", "reconnecting", "stopped", "error"}
    /\ startedAt \in {"none", "fresh", "long"}
    /\ ioAccounts \subseteq Accounts
    /\ calls \in [IoCalls -> Nat]
    /\ running \subseteq Accounts

\* Making calls keeps their type.
LEMMA MakeType ==
    ASSUME NEW isConnected, NEW made, NEW inFlight \in [IoCalls -> Nat],
           Make(inFlight, isConnected, made)
    PROVE  calls' \in [IoCalls -> Nat]
  BY DEF Make, With

\* Every step keeps the other types.
LEMMA RestStep == RestType /\ [Next]_vars => RestType'
  <1> SUFFICES ASSUME RestType, [Next]_vars PROVE RestType'
    OBVIOUS
  <1> USE DEF RestType
  <1>1. CASE UNCHANGED <<shimVars, ioAccounts, calls, running>>
    BY <1>1 DEF shimVars
  <1>2. CASE Start
    <2>1. UNCHANGED <<connected, startedAt, ioAccounts, calls, running>>
      BY <1>2 DEF Start, askedVars
    <2>2. /\ status' \in {"error", "starting"}
          /\ supervising' = supervising \/ supervising' = FALSE
      BY <1>2 DEF Start
    <2>3. supervising' \in BOOLEAN
      BY <2>2
    <2>q. QED BY <2>1, <2>2, <2>3
  <1>3. CASE SpawnEnds
    BY <1>3 DEF SpawnEnds, NoCalls, shimVars, askedVars
  <1>4. CASE StreamEnds \/ SleepOver \/ Retry
    BY <1>1, <1>4 DEF StreamEnds, SleepOver, Retry, askedVars, serverVars
  <1>5. ASSUME ScheduleRestart
        PROVE  /\ connected' \in BOOLEAN
               /\ status' \in {"idle", "starting", "ready", "reconnecting", "stopped", "error"}
               /\ startedAt' \in {"none", "fresh", "long"}
    <2>1. connected' = FALSE /\ startedAt' \in {startedAt, "none"}
          /\ status' \in {status, "stopped", "reconnecting"}
      BY <1>5 DEF ScheduleRestart, RestartOrGiveUp
    <2>2. connected' \in BOOLEAN
      BY <2>1
    <2>q. QED BY <2>1, <2>2
  <1>6. CASE Stopped
    BY <1>5, <1>6 DEF Stopped, askedVars, serverVars
  <1>7. CASE SpawnFailed
    <2>1. UNCHANGED <<supervising, ioAccounts, calls, running>>
      BY <1>7 DEF SpawnFailed, askedVars, serverVars
    <2>2. CASE supervising
      BY <1>5, <1>7, <2>1, <2>2 DEF SpawnFailed
    <2>3. CASE ~supervising
      <3>1. connected' = FALSE /\ status' = "error" /\ startedAt' = startedAt
        BY <1>7, <2>3 DEF SpawnFailed
      <3>2. connected' \in BOOLEAN
        BY <3>1
      <3>q. QED BY <2>1, <3>1, <3>2
    <2>q. QED BY <2>2, <2>3
  <1>8. CASE WindowReady
    <2>1. /\ connected' = TRUE /\ supervising' = TRUE /\ status' = "ready" /\ startedAt' = "fresh"
          /\ ioAccounts' \in {ioAccounts, {}} /\ running' = running
      BY <1>8 DEF WindowReady, Ready, serverVars
    <2>2. connected' \in BOOLEAN /\ supervising' \in BOOLEAN
      BY <2>1
    <2>3. PICK made, called : Make(With(calls, made), TRUE, called)
      BY <1>8 DEF WindowReady, Ready
    <2>4. With(calls, made) \in [IoCalls -> Nat]
      BY DEF With
    <2>5. calls' \in [IoCalls -> Nat]
      BY <2>3, <2>4, MakeType
    <2>q. QED BY <2>1, <2>2, <2>5
  <1>9. CASE Obeys
    <2>1. PICK call \in IoCalls : ServerObeys(call)
      BY <1>9 DEF Obeys
    <2>2. call.accounts \subseteq Accounts
      BY DEF IoCalls, StartCall, StopCall
    <2>3. calls' = [calls EXCEPT ![call] = @ - 1] /\ calls[call] > 0
      BY <2>1 DEF ServerObeys
    <2>4. calls' \in [IoCalls -> Nat]
      BY <2>3
    <2>5. running' \subseteq Accounts
      BY <2>1, <2>2 DEF ServerObeys
    <2>q. QED BY <2>1, <2>4, <2>5 DEF ServerObeys, shimVars, askedVars
  <1>10. CASE ServerDies
    BY <1>10 DEF ServerDies, NoCalls, shimVars, askedVars
  <1>11. CASE UptimeHealthy
    BY <1>11 DEF UptimeHealthy, askedVars
  <1>12. ASSUME NEW a \in Accounts, StartAccountIo(a) PROVE RestType'
    BY <1>12, MakeType DEF StartAccountIo, shimVars, serverVars
  <1>13. ASSUME StartAllIo PROVE RestType'
    BY <1>13, MakeType DEF StartAllIo, shimVars, serverVars
  <1>14. ASSUME StopAllIo PROVE RestType'
    BY <1>14, MakeType DEF StopAllIo, shimVars, serverVars
  <1>15. UNCHANGED coreVars => UNCHANGED <<shimVars, ioAccounts, calls, running>>
    BY DEF coreVars, askedVars, serverVars
  <1>16. CASE AppActive \/ Settle \/ Lose
    BY <1>1, <1>13, <1>14, <1>15, <1>16 DEF AppActive, Settle, Lose, ResumeIo, PauseIo
  <1>17. ASSUME NEW state, Heard(state) PROVE RestType'
    BY <1>1, <1>15, <1>17 DEF Heard
  <1>18. CASE UNCHANGED vars
    BY <1>1, <1>15, <1>18 DEF vars
  <1>q. QED
    BY <1>2, <1>3, <1>4, <1>6, <1>7, <1>8, <1>9, <1>10, <1>11, <1>12, <1>16, <1>17, <1>18,
       OfflineIoAssumption
    DEF Next, CoreNext, Task, Callback

\* Every variable keeps to its range, for every value of the constants.
THEOREM TypeCorrect == Spec => []TypeOK
  <1>1. ASSUME Init PROVE CountInv /\ WishInv /\ WatchType /\ WatchAgrees /\ RestType
    <2>1. CountInv
      BY <1>1, InitCounts
    <2>2. WishInv
      BY <1>1, InitWish
    <2>3. WatchType /\ WatchAgrees
      BY <1>1, InitWatch
    <2>4. connected = FALSE /\ supervising = FALSE /\ status = "idle" /\ startedAt = "none"
          /\ ioAccounts = {} /\ calls = NoCalls /\ running = {}
      BY <1>1 DEF Init, CoreInit
    <2>5. connected \in BOOLEAN /\ supervising \in BOOLEAN
      BY <2>4
    <2>6. RestType
      BY <2>4, <2>5 DEF RestType, NoCalls
    <2>q. QED BY <2>1, <2>2, <2>3, <2>6
  <1>2. CountInv /\ WishInv /\ WatchType /\ RestType => TypeOK
    BY DEF CountInv, ChainType, CountType, WishInv, WishType, WatchType, RestType, TypeOK
  <1>q. QED
    BY <1>1, <1>2, CountStep, WishStep, WatchStep, RestStep, PTL DEF Spec
=============================================================================
