----------------------------- MODULE Supervisor -----------------------------
(***************************************************************************)
(* DeltaChatCore as the owner of deltachat-rpc-server: it spawns the       *)
(* server, drains its events, replaces it after a growing wait when its    *)
(* stream ends, gives up after RestartLimit restarts without a healthy     *)
(* run, and starts again on the new server the IO it was asked for         *)
(* (piirit-shim/src/core.rs).                                              *)
(*                                                                         *)
(* Its state lives on the Qt thread; spawning, draining, waiting and each  *)
(* IO call are tasks of their own on the runtime, whose ends come back as  *)
(* callbacks queued to the Qt thread.  A handler of status_changed runs    *)
(* inside the callback that emits it: what it asks of the shim when the    *)
(* status is "ready" is a parameter of Ready.                              *)
(*                                                                         *)
(* Abstracted: paths, error texts, the length of the waits, the queries    *)
(* and settings a dead server takes with it, and maybe_network, which      *)
(* changes no state here.                                                  *)
(***************************************************************************)
EXTENDS Integers, Sequences, Functions

CONSTANTS
    RestartLimit,   \* RESTART_LIMIT
    Accounts,       \* the configured accounts
    MaxCalls        \* bound: IO calls in flight when another is made

ASSUME SupervisorAssumption ==
    /\ RestartLimit \in Nat
    /\ MaxCalls \in Nat \ {0}
    /\ Accounts # {}

VARIABLES
    \* DeltaChatCore
    runtime,        \* runtime is held: started, and neither failed nor given up
    status,         \* status; "idle" before start
    connected,      \* rpc, and with it the static CONNECTION
    startedAt,      \* server_started_at: "none", "fresh", or "long" ago
    attempt,        \* restart_attempt
    supervising,    \* supervising
    ioAll,          \* io_all
    ioAccounts,     \* io_accounts
    \* the runtime and the Qt event loop
    tasks,          \* [TaskKinds -> Nat]: the tasks of the chain of restarts
    queue,          \* the callbacks of those tasks, first in first out
    calls,          \* [IoCalls -> Nat]: IO calls in flight on the live server
    \* the server process last spawned
    server,         \* "none", "up" or "dead"
    running,        \* the accounts whose IO runs
    failures        \* deaths and failed spawns since start or the last healthy run

shimVars   == <<runtime, status, connected, startedAt, attempt, supervising>>
askedVars  == <<ioAll, ioAccounts>>
chainVars  == <<tasks, queue>>
serverVars == <<server, running, failures>>
coreVars   == <<shimVars, askedVars, chainVars, calls, serverVars>>

-----------------------------------------------------------------------------
(* Data *)

TaskKinds == {"spawn", "drain", "sleep"}
Callbacks == {"started", "failed", "stopped", "retry"}

\* start_io or start_io_for_all_accounts, and stop_io_for_all_accounts.
StartCall(accounts) == [kind |-> "start", accounts |-> accounts]
StopCall            == [kind |-> "stop", accounts |-> Accounts]
IoCalls == {StartCall(Accounts), StopCall} \cup {StartCall({a}) : a \in Accounts}

Begin(task)  == tasks' = [tasks EXCEPT ![task] = @ + 1]
Finish(task) == tasks[task] > 0 /\ tasks' = [tasks EXCEPT ![task] = @ - 1]
Post(callback) == queue' = Append(queue, callback)
Runs(callback) == queue # <<>> /\ Head(queue) = callback /\ queue' = Tail(queue)

With(inFlight, made) == [c \in IoCalls |-> IF c \in made THEN inFlight[c] + 1 ELSE inFlight[c]]
NoCalls == [c \in IoCalls |-> 0]

-----------------------------------------------------------------------------
(* Starting, and the end of a spawn *)

\* Mutant: started twice.
StartAgain ==
    /\ status' = "starting"
    /\ runtime' = TRUE /\ attempt' = 0 /\ supervising' = FALSE /\ failures' = 0
    /\ Begin("spawn")
    /\ UNCHANGED <<connected, startedAt, askedVars, queue, calls, server, running>>

\* start: nothing if started already; the runtime may not come up.
Start ==
    /\ ~runtime
    /\ \/ /\ status' = "error"
          /\ UNCHANGED <<runtime, attempt, supervising, tasks, failures>>
       \/ /\ status' = "starting"
          /\ runtime' = TRUE /\ attempt' = 0 /\ supervising' = FALSE /\ failures' = 0
          /\ Begin("spawn")
    /\ UNCHANGED <<connected, startedAt, askedVars, queue, calls, server, running>>

\* The task of spawn_server.
SpawnEnds ==
    /\ Finish("spawn")
    /\ \/ /\ server' = "up"
          /\ Post("started")
          /\ UNCHANGED failures
       \/ /\ server' = "none"
          /\ Post("failed")
          /\ failures' = failures + 1
    /\ running' = {}
    /\ calls' = NoCalls
    /\ UNCHANGED <<shimVars, askedVars>>

\* What resume_io starts on a fresh server.
Resumed == (IF ioAll THEN {StartCall(Accounts)} ELSE {})
               \cup {StartCall({a}) : a \in ioAccounts}

\* IO calls made now: without a connection none, on a dead server they fail.
Make(inFlight, isConnected, made) ==
    calls' = IF isConnected /\ server = "up" THEN With(inFlight, made) ELSE inFlight

\* Mutant: the new server starts no IO.
ReadyWithoutIo(reply) ==
    /\ Runs("started")
    /\ connected' = TRUE /\ status' = "ready"
    /\ startedAt' = "fresh" /\ supervising' = TRUE
    /\ Begin("drain")
    /\ LET called == CASE reply = "start" -> {StartCall(Accounts)}
                       [] reply = "stop"  -> {StopCall}
                       [] OTHER           -> {}
       IN Make(calls, TRUE, called)
    /\ ioAll' = (reply = "start" \/ (ioAll /\ reply # "stop"))
    /\ ioAccounts' = IF reply = "stop" THEN {} ELSE ioAccounts
    /\ UNCHANGED <<runtime, attempt, serverVars>>

\* The callback of a spawn that worked.  reply is what the handler of
\* status_changed then asks for: "start", "stop" or "none".
Ready(reply) ==
    /\ Runs("started")
    /\ connected' = TRUE /\ status' = "ready"
    /\ startedAt' = "fresh" /\ supervising' = TRUE
    /\ Begin("drain")
    /\ LET called == CASE reply = "start" -> {StartCall(Accounts)}
                       [] reply = "stop"  -> {StopCall}
                       [] OTHER           -> {}
       IN Make(With(calls, IF server = "up" THEN Resumed ELSE {}), TRUE, called)
    /\ ioAll' = (reply = "start" \/ (ioAll /\ reply # "stop"))
    /\ ioAccounts' = IF reply = "stop" THEN {} ELSE ioAccounts
    /\ UNCHANGED <<runtime, attempt, serverVars>>

-----------------------------------------------------------------------------
(* The end of a server, and the next *)

\* A restart after a wait, or the end of the supervision.
RestartOrGiveUp(tried, limit) ==
    IF tried >= limit
    THEN /\ runtime' = FALSE /\ status' = "stopped" /\ attempt' = tried
         /\ UNCHANGED tasks
    ELSE /\ attempt' = tried + 1 /\ status' = "reconnecting"
         /\ Begin("sleep")
         /\ UNCHANGED runtime

Tried == IF startedAt = "long" THEN 0 ELSE attempt

\* Mutants: the old uptime counts for every failure after it; one restart too
\* many; a wait that nothing ends.
ScheduleRestartStale ==
    /\ connected' = FALSE
    /\ IF ~runtime THEN UNCHANGED <<runtime, status, attempt, tasks>>
                   ELSE RestartOrGiveUp(Tried, RestartLimit)
    /\ UNCHANGED startedAt
ScheduleRestartLate ==
    /\ connected' = FALSE
    /\ IF ~runtime THEN UNCHANGED <<runtime, status, startedAt, attempt, tasks>>
                   ELSE startedAt' = "none" /\ RestartOrGiveUp(Tried, RestartLimit + 1)
ScheduleRestartIdle ==
    /\ connected' = FALSE /\ startedAt' = "none" /\ status' = "reconnecting"
    /\ UNCHANGED <<runtime, attempt, tasks>>

\* schedule_restart.
ScheduleRestart ==
    /\ connected' = FALSE
    /\ IF ~runtime THEN UNCHANGED <<runtime, status, startedAt, attempt, tasks>>
                   ELSE startedAt' = "none" /\ RestartOrGiveUp(Tried, RestartLimit)

\* The callback of a spawn that failed: only a server that worked once is retried.
SpawnFailed ==
    /\ Runs("failed")
    /\ IF supervising
       THEN ScheduleRestart
       ELSE /\ runtime' = FALSE /\ connected' = FALSE /\ status' = "error"
            /\ UNCHANGED <<startedAt, attempt, tasks>>
    /\ UNCHANGED <<supervising, askedVars, calls, serverVars>>

\* forward_events: the stream is over, as it is once the server is gone.
StreamEnds ==
    /\ server # "up"
    /\ Finish("drain")
    /\ Post("stopped")
    /\ UNCHANGED <<shimVars, askedVars, calls, serverVars>>

Stopped ==
    /\ Runs("stopped")
    /\ ScheduleRestart
    /\ UNCHANGED <<supervising, askedVars, calls, serverVars>>

SleepOver ==
    /\ Finish("sleep")
    /\ Post("retry")
    /\ UNCHANGED <<shimVars, askedVars, calls, serverVars>>

Retry ==
    /\ Runs("retry")
    /\ Begin("spawn")
    /\ UNCHANGED <<shimVars, askedVars, calls, serverVars>>

-----------------------------------------------------------------------------
(* IO, remembered before the call is made *)

MayCall == FoldFunction(+, 0, calls) < MaxCalls

\* start_all_account_io, start_account_io.
StartAllIo ==
    /\ MayCall
    /\ ioAll' = TRUE
    /\ Make(calls, connected, {StartCall(Accounts)})
    /\ UNCHANGED <<shimVars, ioAccounts, chainVars, serverVars>>
StartAccountIo(a) ==
    /\ MayCall
    /\ ioAccounts' = ioAccounts \cup {a}
    /\ Make(calls, connected, {StartCall({a})})
    /\ UNCHANGED <<shimVars, ioAll, chainVars, serverVars>>

\* Mutant: forgotten only if the call can be made.
StopAllIoIfConnected ==
    /\ MayCall
    /\ ioAll' = (ioAll /\ ~connected)
    /\ ioAccounts' = IF connected THEN {} ELSE ioAccounts
    /\ Make(calls, connected, {StopCall})
    /\ UNCHANGED <<shimVars, chainVars, serverVars>>

\* stop_all_account_io.
StopAllIo ==
    /\ MayCall
    /\ ioAll' = FALSE
    /\ ioAccounts' = {}
    /\ Make(calls, connected, {StopCall})
    /\ UNCHANGED <<shimVars, chainVars, serverVars>>

\* The server carries out a call, in whatever order they reach it.
ServerObeys(call) ==
    /\ server = "up"
    /\ calls[call] > 0
    /\ calls' = [calls EXCEPT ![call] = @ - 1]
    /\ running' = IF call.kind = "start" THEN running \cup call.accounts ELSE {}
    /\ UNCHANGED <<shimVars, askedVars, chainVars, server, failures>>

\* The server is gone, and every call in flight fails.
ServerDies ==
    /\ server = "up"
    /\ server' = "dead"
    /\ running' = {}
    /\ calls' = NoCalls
    /\ failures' = failures + 1
    /\ UNCHANGED <<shimVars, askedVars, chainVars>>

\* HEALTHY_UPTIME has passed since the server came up.
UptimeHealthy ==
    /\ server = "up" /\ startedAt = "fresh"
    /\ startedAt' = "long"
    /\ failures' = 0
    /\ UNCHANGED <<runtime, status, connected, attempt, supervising, askedVars,
                   chainVars, calls, server, running>>

-----------------------------------------------------------------------------
(* Steps that are nobody's but the shim's, its server's and its tasks' *)

CoreInit ==
    /\ runtime = FALSE /\ status = "idle" /\ connected = FALSE
    /\ startedAt = "none" /\ attempt = 0 /\ supervising = FALSE
    /\ ioAll = FALSE /\ ioAccounts = {}
    /\ tasks = [t \in TaskKinds |-> 0] /\ queue = <<>>
    /\ calls = NoCalls
    /\ server = "none" /\ running = {} /\ failures = 0

Callback == SpawnFailed \/ Stopped \/ Retry
Task     == SpawnEnds \/ StreamEnds \/ SleepOver
Obeys    == \E call \in IoCalls : ServerObeys(call)

CoreNext ==
    \/ Start
    \/ Task
    \/ Callback
    \/ Obeys
    \/ ServerDies
    \/ UptimeHealthy
=============================================================================
