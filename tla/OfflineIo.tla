----------------------------- MODULE OfflineIo ------------------------------
(***************************************************************************)
(* The window stops IO while the phone has no network and starts it again  *)
(* when it has (qml/piirit.qml), as NetworkWatch tells it from what        *)
(* connman announces (qml/components/NetworkWatch.qml).  Composed with the *)
(* supervised server: the core may die, come back or be given up at any    *)
(* point of an outage, and the shim must run the IO the window wants on    *)
(* whichever server there is.                                              *)
(*                                                                         *)
(* The window is QML on the Qt thread: its handlers and timers run whole,  *)
(* and call the shim directly.  Time is abstracted: a timer that runs may  *)
(* fire at any time.                                                       *)
(***************************************************************************)
EXTENDS Supervisor

CONSTANT ApiAccounts    \* the accounts whose IO is asked for singly: the window never
                        \* does, but the shim offers it

ASSUME OfflineIoAssumption == ApiAccounts \subseteq Accounts

VARIABLES
    \* the window
    askedForIo,     \* askedForIo
    ioPaused,       \* ioPaused
    \* NetworkWatch
    connectivity,   \* connectivity; "" before connman said anything
    lost,           \* lost
    settling,       \* the timer settle runs
    losing          \* the timer lost runs

windowVars == <<askedForIo, ioPaused>>
watchVars  == <<connectivity, lost, settling, losing>>
vars == <<coreVars, windowVars, watchVars>>

Online  == {"ready", "online"}
Offline == {"idle", "offline"}

-----------------------------------------------------------------------------
(* The window *)

\* What the handler of status_changed asks for when the core is ready: pauseIo
\* if there is no network, else IO the first time.
Reply == IF lost THEN (IF ioPaused THEN "none" ELSE "stop")
                 ELSE (IF askedForIo THEN "none" ELSE "start")

\* The core is ready, and the window's handler has run.
WindowReady ==
    /\ Ready(Reply)
    /\ askedForIo' = TRUE
    /\ ioPaused' = (ioPaused \/ lost)
    /\ UNCHANGED watchVars

\* resumeIo: nothing while the core is not ready.
ResumeIo ==
    \/ /\ status = "ready" /\ ioPaused
       /\ ioPaused' = FALSE
       /\ StartAllIo
       /\ UNCHANGED askedForIo
    \/ /\ status # "ready" \/ ~ioPaused
       /\ UNCHANGED <<coreVars, windowVars>>

\* pauseIo: whether the core is ready or not.
PauseIo ==
    \/ /\ askedForIo /\ ~ioPaused
       /\ ioPaused' = TRUE
       /\ StopAllIo
       /\ UNCHANGED askedForIo
    \/ /\ ~askedForIo \/ ioPaused
       /\ UNCHANGED <<coreVars, windowVars>>

\* The app comes to the front.
AppActive == ResumeIo /\ UNCHANGED watchVars

-----------------------------------------------------------------------------
(* NetworkWatch *)

\* Mutant: a return that leaves the loss pending.
HeardLossPending(state) ==
    /\ state # connectivity
    /\ connectivity' = state
    /\ \/ /\ state \in Online
          /\ lost' = FALSE /\ settling' = TRUE
          /\ UNCHANGED losing
       \/ /\ state \in Offline
          /\ settling' = FALSE /\ losing' = TRUE
          /\ UNCHANGED lost
    /\ UNCHANGED <<coreVars, windowVars>>

\* heard: a return ends a loss, a loss ends a return; settle starts anew with
\* each word of a network, lost only if it does not run.
Heard(state) ==
    /\ state # connectivity
    /\ connectivity' = state
    /\ \/ /\ state \in Online
          /\ losing' = FALSE /\ lost' = FALSE
          /\ settling' = TRUE
       \/ /\ state \in Offline
          /\ settling' = FALSE
          /\ losing' = TRUE
          /\ UNCHANGED lost
    /\ UNCHANGED <<coreVars, windowVars>>

\* networkChanged.
Settle ==
    /\ settling
    /\ settling' = FALSE
    /\ ResumeIo
    /\ UNCHANGED <<connectivity, lost, losing>>

\* networkLost.
Lose ==
    /\ losing
    /\ losing' = FALSE /\ lost' = TRUE
    /\ PauseIo
    /\ UNCHANGED <<connectivity, settling>>

-----------------------------------------------------------------------------
(* Specification *)

Init ==
    /\ CoreInit
    /\ askedForIo = FALSE /\ ioPaused = FALSE
    /\ connectivity = "" /\ lost = FALSE
    /\ settling = FALSE /\ losing = FALSE

WindowIdle == UNCHANGED <<windowVars, watchVars>>

Next ==
    \/ CoreNext /\ WindowIdle
    \/ \E a \in ApiAccounts : StartAccountIo(a) /\ WindowIdle
    \/ WindowReady
    \/ AppActive
    \/ \E state \in Online \cup Offline : Heard(state)
    \/ Settle
    \/ Lose

Spec == Init /\ [][Next]_vars

\* The runtime runs its tasks and its timers end, the Qt loop runs callbacks and
\* timers, and the server carries out what it is asked.  Nothing makes the
\* user, the network or a server's death happen.
Fairness ==
    /\ WF_vars(SpawnEnds /\ WindowIdle) /\ WF_vars(StreamEnds /\ WindowIdle)
    /\ WF_vars(SleepOver /\ WindowIdle)
    /\ WF_vars(Callback /\ WindowIdle) /\ WF_vars(WindowReady)
    /\ WF_vars(Settle) /\ WF_vars(Lose)
    /\ \A call \in IoCalls : WF_vars(ServerObeys(call) /\ WindowIdle)

FairSpec == Spec /\ Fairness

-----------------------------------------------------------------------------
(* Properties *)

\* Every variable keeps to its range.
TypeOK ==
    /\ runtime \in BOOLEAN /\ connected \in BOOLEAN /\ supervising \in BOOLEAN
    /\ status \in {"idle", "starting", "ready", "reconnecting", "stopped", "error"}
    /\ startedAt \in {"none", "fresh", "long"}
    /\ attempt \in 0 .. RestartLimit
    /\ ioAll \in BOOLEAN /\ ioAccounts \subseteq Accounts
    /\ tasks \in [TaskKinds -> Nat] /\ queue \in Seq(Callbacks)
    /\ calls \in [IoCalls -> Nat]
    /\ server \in {"none", "up", "dead"} /\ running \subseteq Accounts
    /\ failures \in Nat
    /\ askedForIo \in BOOLEAN /\ ioPaused \in BOOLEAN
    /\ connectivity \in {""} \cup Online \cup Offline
    /\ lost \in BOOLEAN /\ settling \in BOOLEAN /\ losing \in BOOLEAN

\* While the runtime is held, exactly one thing is under way that leads to the
\* next step of the supervision: a spawn, a drained stream, a wait, or the
\* callback of one of them (start, spawn_server, forward_events,
\* schedule_restart).  None and the server is never replaced; two and there
\* are two servers.
OneChain ==
    tasks["spawn"] + tasks["drain"] + tasks["sleep"] + Len(queue) = IF runtime THEN 1 ELSE 0

\* The shim gives up after RestartLimit restarts without a healthy run, neither
\* earlier nor later, whether servers die or cannot be spawned
\* (schedule_restart: "stops dead binary keeping phone awake").
GivesUpInTime ==
    /\ failures <= RestartLimit + 1
    /\ status = "stopped" => failures = RestartLimit + 1

\* What the shim starts on the next server is what the window wants now: all
\* IO if it asked for it and has not paused it, none otherwise, even when it
\* asked while the core was away (stop_all_account_io: "offline restart stays
\* stopped"; pauseIo: "Not gated on core").
WindowAgrees ==
    ioAll = (askedForIo /\ ~ioPaused)

\* A loss is told only while the last word is that there is no network, a return
\* only while there is one, and an outage that lasts is told in the end.
WatchAgrees ==
    /\ lost \/ losing => connectivity \in Offline
    /\ settling => connectivity \in Online
    /\ connectivity \in Offline => lost \/ losing

InFlight(call) == calls[call] > 0
AtRest == calls = NoCalls /\ status = "ready" /\ server = "up" /\ queue = <<>>
Crossing == InFlight(StopCall) /\ \E call \in IoCalls \ {StopCall} : InFlight(call)
AskedIo == IF ioAll THEN Accounts ELSE ioAccounts

\* At rest the server runs the IO that was asked for, on the first server and on
\* every later one, as long as no start and no stop were in flight together
\* (resume_io, start_all_account_io, stop_all_account_io).
IoAsAsked == []~Crossing => [](AtRest => running = AskedIo)

\* A server that is gone or was never up is followed by one that is up and known, or
\* the app is told that there will be none (schedule_restart, the callback of
\* spawn_server).
ServerReplaced ==
    server = "dead" \/ status = "starting" ~> \/ server = "up" /\ status = "ready"
                                             \/ status \in {"stopped", "error"}

\* "Network back: restart IO if stopped for it" (piirit.qml, resumeIo): with the
\* network announced and the word of it passed on, a core that is ready runs IO.
NetworkBackRunsIo ==
    AtRest /\ askedForIo /\ connectivity \in Online /\ ~settling => running = Accounts
=============================================================================
