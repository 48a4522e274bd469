# Piirit, specified

Piirit is a Delta Chat client for Sailfish OS: QML pages over Rust QObjects
(`src/rust/piirit-shim`), which talk JSON-RPC over stdio
(`src/rust/deltachat-jsonrpc`) to the Delta Chat core, a separate process
(`deltachat-rpc-server`). This directory holds TLA+ specifications of the parts
where order, failure and time decide what the user sees, the instances TLC checks
and the theorems TLAPS proves.

Files are named below without their directory where that is clear: `core.rs`,
`chatlist.rs`, ... are in `src/rust/piirit-shim/src/`, `client.rs` and `events.rs`
in `src/rust/deltachat-jsonrpc/src/`. `PROJECT.json` gives, for each definition
that models code, the lines it models.

## How the program runs

* Every QObject's state is touched on the Qt thread only. Methods, property
  setters and queued callbacks run one at a time; callbacks queued by one
  sender run in the order they were queued.
* Calls to the core are tokio tasks on worker threads. Their answers come back
  in any order, as queued callbacks.
* Core events are polled by a loop (`events.rs`), passed in batches to the Qt
  thread (`core.rs`, `relay`) and handed to the pages' objects (`handle_event`)
  in order.
* The core is a process of its own: it changes on its own, refuses calls, and
  may die. It is then started again after a delay.

So an action of a model is one Qt-thread callback or method run whole, or the
stretch of a task between two awaits; everything else interleaves.

## Inventory

For each part: the state it keeps, what is done to it, what is hard, what makes
it correct.

**Chat list** (`chatlist.rs`; modelled, in part). Rows (`all_rows`), the refresh
in flight (`generation`, `in_flight`, `asking`), what is owed (`awaiting`,
`again`, `restart_due`), pending announcements and restatements. QML sets
account, search and mode, pauses and reloads; events, transcript changes and
answers arrive. Hard: refreshes read the listing first and rows after it while
the core changes; a newer refresh replaces an older one; calls fail, the server
dies, events are dropped. Correct: no stale row is forgotten, no superseded
answer lands, a list at rest shows what the core has, and it gets there. Left for
a later module: the unread filter and the QML model of the rows (`reconcile`).

**RPC client and event loop** (`client.rs`, `events.rs`, `protocol.rs`,
`error.rs`; modelled). Next id, map of waiters, queue of lines, writer task,
reader task; the loop that polls. Hard: answers, timeouts, dropped calls and the
end of the server cross. Correct: a call gets its own answer, no waiter is
forgotten or left behind, events arrive once and in order, and the stream ends
exactly when the server is gone (the shim restarts the server on it).

**Core supervisor** (`core.rs`, `runtime.rs`; modelled, in part). The runtime,
the connection, the restart counter, the IO that was asked for. Spawns, drains
the events, waits and spawns again, replays the IO. Hard: spawn, drain and wait
hand over to one another across two threads, and the server may die between any
two steps. Correct: never two servers, never none for ever without the app being
told, given up in time, and the next server runs the IO the app wants. Left: the
lane of settings, the unread counts, the account list, shutdown.

**Network watch and IO pause** (`src/qml/piirit.qml`, `NetworkWatch.qml`;
modelled). connman's word, two timers, `askedForIo`, `ioPaused`. Hard: the
network comes and goes while the core dies and comes back. Correct: IO runs if
and only if it is wanted.

**Signing up and restoring** (`signup.rs`, begun and landed in `core.rs`;
modelled). The current attempt, the accounts attempts hold (`Busy`), and for each
attempt its task and the child that makes its call. Hard: a deadline against a late
success; an account picked across an await; a cancelled transfer that goes on.
Correct: no account stays held, an abandoned attempt leaves no profile, none of the
profiles the reader had is undone, and one made and announced stays, unless its account
was shared: see the gaps below, in which the code does remove it.

**Conversation** (`chat.rs`, `prefetch.rs`; modelled, in part). The rows of a chat,
the marks of what is in flight (`syncing`, `refreshing`, `pending`, ...), and a
one-chat cache taken before the page exists. It is loaded, synced with the core's
list, filled near the view, re-read row by row, and written to by what the reader does.
Hard: five kinds of reads overlap one another and a reload, and rows run ahead of the
lists that are read. Correct: rows end as the core's list, no mark is left over, no
old list takes a row away or makes the reader lose the place. Left: receipts, draft,
name and shape of the chat, files and their recoding, closing the page.

**Transcripts** (`transcripts.rs`, `transcripts/*`; modelled, in part). A queue of voice
messages, one running job, conditions (settings, charging, power saving), rows in a
store, views. Hard: conditions change or the message is deleted while its job runs or
it is looked up; answers of the store cross changes of the queue. Correct: one job
a message, none forgotten but an arrival the core refuses to show, a deleted message leaves
no text but where a sweep fails or something under way makes it again, views show what is so,
and nothing that may run waits for ever. Left: the download of the model, the tables of the
store, counts of a chat.

**Calls** (`calls.rs`, `call_host.rs`, two scripts; modelled, in part). One call, the
hosts that serve its page, their requests, a limit on ringing, the core's events and
other devices. Hard: hanging up while the host starts or the core is placing the call;
events that overtake the host's report. Correct: the core is told once that a call is
over, and never of one another device took; the app agrees with the core. Left:
microphone, camera and pictures, sounds, the end of calls when the app exits.

**Webxdc host** (`webxdc.rs`, `webxdc_host.rs`; candidate). One local host per
opened app; updates in order, realtime channels left once.

**Voice recording and playing** (`recorder.rs`, `voice.rs`, `mic_watch.rs`;
candidate). Small state machines around GStreamer and PulseAudio.

**Not to be modelled.** *Lists beside the chat list* (contacts, search, media of a
chat, chat info, profile, transports, connectivity, second device, backup): each
loads one thing under a generation counter, as the chat list does in full. *Media
files* and *text and links*: conversions without state. *Speech and video
libraries*: bindings to numeric code. *Application shell*: start, logging,
translations. *QML pages*: presentation; what they set and call is the environment
of the models.

How the parts meet: the window (QML) calls the supervisor and the lists directly on
the Qt thread; the supervisor owns the RPC client and hands each batch of its
events to the lists in the same queue in which it announces the server's end;
transcripts tell the lists of changes through a queue of their own; every QObject
makes its calls through the one connection.

The behaviours hard to test, each with its line and the properties that cover it, are
the `hazards` of `PROJECT.json`.

## Modules

| module | models | composed with |
| --- | --- | --- |
| `ChatList` | the chat list's refresh protocol | core, server, transcript store as environment |
| `MCChatList` | small instances of it | |
| `ChatListProofs`, `ChatListOrderProofs` | theorems | `ChatList` |
| `EventStream` | what the event loop promises | implemented by `RpcClient` |
| `RpcClient` | client, writer, reader, event loop | server process as environment |
| `MCRpcClient`, `RpcClientProofs` | small instances, theorems | `RpcClient` |
| `Supervisor` | `DeltaChatCore` as owner of the server | |
| `OfflineIo` | window and network watch | `EXTENDS Supervisor` |
| `OfflineIoProofs` | theorems | `OfflineIo` |
| `Signup` | attempts, their calls, the accounts they hold | the core's accounts as environment |
| `SignupProofs` | theorems | `Signup` |
| `TranscriptHub` | queue, running job, rows and views of transcripts | core, store and speech thread as environment |
| `MCTranscriptHub`, `TranscriptHubProofs` | small instances, theorems | `TranscriptHub` |
| `Conversation` | rows of one chat, and its prefetch | the core's chat as environment |
| `MCConversation`, `ConversationProofs` | small instances, theorems | `Conversation` |
| `Calls` | the app's call and its hosts | the core's calls and the page as environment |
| `MCCalls`, `CallsProofs` | small instances, theorems | `Calls` |

### ChatList

A row is the account it was read from, the version of its chat and the version
of the transcript it previews. A refresh is a record in `tasks` that goes through
`listing`, `items`, `texts` and ends `done` or `failed`; `lost` is a call whose
server is gone. `StartRefresh`, `RefreshOwing` (`refresh_announcing`) and
`Restart` are the code's functions of those names, used by every action that calls
them:

| actions | code |
| --- | --- |
| `SetAccount`, `SetQuery`, `SetMode`, `SetPaused`, `Reload`, `Act` | setters and methods QML calls |
| `Kick` | the callback `restart` queues |
| `HandleEvent`, `ActLands`, `MentionFound`, `MentionNotFound`, `TranscriptTold` | queued callbacks |
| `ReadListing`, `ReadItems`, `ReadTexts`, `Refused`, `CutOff` | the task of a refresh between its awaits |
| `ShowEarly`, `LandRows`, `LandError`, `LandStale` | `show_early` and `landed` |
| `CoreChange`, `ListingChange`, `Overflow`, `ServerDies`, `ServerGone`, `ServerBack`, `TranscriptStored`, `Tell`, `SwitchTranscripts` | the world around it |

Assumed of that world: an `EventChannelOverflow` carries the account of the events
it stands for; events and the notice of the server's end come in one queue; status
"ready" makes the page reload (`ChatListPage.qml`; the cover's list has no such
handler and waits for an event). The code's `landed` has "voice rows read again" if a
transcript changed since the refresh read them, but a refresh that replaces a first load
takes what that one has shown early as read: after a search that found nothing, another
that finds more than a screenful and a third typed before it lands, a transcript told in
between stays unseen on the rows shown early. `outdated`, a history variable, holds such
rows, until they are asked for or gone, and `InSync` excepts their transcripts. Left out: the order of rows; error items of
`chat_items`, which fall back to the cached row; the unread filter; the timeout of an action's
call (`chatlist.rs:543`), which changes no row. The two calls of a search in archived mode
(`chatlist.rs:947-970`) are read as one; and a first load whose server dies between its reads
goes on with the next server, where the code's fails on the old client
(`chatlist.rs:777`): `ServerBack` refreshes all rows in either case.

### RpcClient and EventStream

A request is its id and its caller; an answer is a result, an error, a result of
another shape (`misfit`) or a line that is no answer (`garbage`). `Register` and
`Queue` are the two halves of `call_raw` before it awaits, which other threads may
come between; `TakeLine` and `SendAnswer` those of `read_responses` with the map
locked and unlocked again; `Write`, `EndOfFile`, `Shutdown`, `ShutdownWriter`,
`TimesOut`, `Cancel` and `BackoffOver` are the writer, the end of file, shutdown,
timeouts, dropped futures and the loop's backoff. `EventStream` is the promise in
five variables; its `alive` and `stream` are `RpcClient`'s `server = "up"` and the
loop's phase (refinement mapping `Stream`). Left out: errors in encoding a request,
the stderr tail, the clock of `quiet_for`, a full pipe, a line cut in two by death,
a read error while the server lives, and dropping the client without shutdown.

### Supervisor and OfflineIo

`Supervisor` has the actions of the shim and its server: `Start`; `SpawnEnds`,
`StreamEnds`, `SleepOver` (tasks); `Ready`, `SpawnFailed`, `Stopped`, `Retry`
(their callbacks); `StartAllIo`, `StartAccountIo`, `StopAllIo` (calls of the app,
remembered before they are made); `ServerObeys`, `ServerDies`, `UptimeHealthy`.
Handlers of `status_changed` run inside the callback that emits it, so `Ready`
takes as a parameter what the handler asks for, and `OfflineIo` gives it:
`WindowReady` is the callback and the window's handler in one step. The rest of
`OfflineIo` is the window (`ResumeIo`, `PauseIo`, `AppActive`) and `NetworkWatch`
(`Heard`, `Settle`, `Lose`), whose timers, once running, may fire at any time.

Assumed: the stream ends once the server is gone (`rpc_death` shows where the
client breaks that); a death is noticed before `HEALTHY_UPTIME` has passed; IO
calls on a live server succeed. `maybe_network` changes no state of the models;
`rpc` and the static `CONNECTION` are one variable, as both are set and cleared
together.

### Signup

`attempt[i]` is a record of the task and of its child. `Begin`, `Cancel` and
`Callback` run on the Qt thread (`begin_profile`, `begin_restore`, `add_relay`,
`cancel_ongoing`, the three callbacks); the rest are stretches between awaits:

| actions | code |
| --- | --- |
| `ListAccounts`, `Pick`, `AddAccount`, `Added` | `pick_account` |
| `SetName`, `CheckCode`, `AddTransport`, `Joined`, `Compare`, `Undo` | `run`, `restore`, `add_transport` |
| `TimesOut`, `StopOwn` | the deadline, `stop_ongoing_process` after it |
| `LetGo`, `ChildUndoes`, `ChildReturns`, `CallTimesOut` | `transport_call`, `import_call` and the client's limit on them |
| `CoreTakesUp`, `CoreEnds`, `StopLands`, `RemovalLands` | the core's one process for each account |

`Made::Before` and the `Busy` guard are the kind of an attempt and its `Hold` and
`Release`. Modelled as the code has it, and allowed by the properties: two attempts may
come to share an account, in three gaps that `Busy` leaves. `pick_account` awaits
`add_account` before it marks the account busy, and another attempt's list may have it
meanwhile (`signup.rs:288-292`); a call lets go of its account before what it left there is
undone (`:331-333`, `:354-356`, then `:245`, `:251`); and a list may be older than what was
made since. The consequence is a loss: where an attempt has made a profile on a shared account
and announced it, the failed import, the late success or the copy of the other, long
cancelled, removes it (`discard`). TLC shows it with two attempts: a device restore is
cancelled while it adds its account, a new profile is made on that account and announced, and the
restore fails. The history field `shared` marks an account taken in such a gap (`InUse`), and
`OnlyOursUndone` excepts those and no other: with an account taken and not held
(`TakeUnheld`) TLC finds it violated. Also allowed: a late `stop_ongoing_process` of a cancel may stop a newer attempt's process on the
same account; and the deadline may pass between the child's last look at `wanted` and its return, when a
profile stays that nobody was told of (`SlippedBy`). A transfer's calls go through
the client's one-minute limit (`CALL_TIMEOUT`), so the half hour of
`TRANSFER_DEADLINE` (`signup.rs:62`) is never reached by them: `CallTimesOut` comes
first, and the attempt fails. `remove_account` is assumed to succeed. Left out: the IO
that `restore_callback` starts for a profile taken over (`core.rs:1470`), here and in
`Supervisor`.

### TranscriptHub

One action is one turn of the Qt thread with the `refresh` and `pump` it ends in.
`Pump`, `StartNext`, `WithJobs` (`enqueue`) and `Without` (`drop_key`) are operators used
by every action that calls them; `MayRun`, `Keeps` and `Before` are `schedule.rs`.

| actions | code |
| --- | --- |
| `Arrived`, `Deleted`, `AccountsChanged`, `Connected` | events of the core |
| `SetConditions`, `Transcribe`, `TranscribeChat`, `Cancel`, `Watch` | settings, power, taps, views |
| `Listing`, `Known`, `Loading`, `Fails` | the tasks of `arrived`, `transcribe`, `scan_backlog`, `transcribe_chat`, `sweep`, `accounts_changed` |
| `ArrivalFound`, `TapFound`, `ManyFound`, `AfterAccounts`, `RunEnded`, `Apply`, `ApplyDeleted` | their callbacks, and the speech thread's report |
| `StorePosts`, `RunEnds` | the store's thread, the speech thread |

`SetToSeq` puts in some order what the code walks through in a map's. Assumed: the
store opens, the speech thread starts and does not panic. The
per-account calls of `find_voice` and `swept` (`hub.rs:972-984`, `:886-913`) are read as one
step, but a sweep that fails may have got through some of them. As the code has it, and
told apart by history variables:

* `refused`: the `get_message` of an arrival is refused, and the task returns without a
  word (`hub.rs:775-777`): if no job, tap or other lookup is after the message by then, it is
  forgotten until an event, a tap or a search names it again. `NothingLost` excepts just
  these.
* `slipped`: a message deleted while it is looked up or transcribed, or tapped after it
  went, may leave a row. `unswept`: the one sweep fails (`hub.rs:849`, `:868-871`; `swept`
  is set before it begins) and the rows it would have deleted stay, till the hub hears of
  those messages again; or the accounts cannot be read when they change, and what belonged to
  a profile that is gone stays till they change again. `GoneLeavesNoRow` excepts these two.
* `untold`: a sweep deletes rows, then fails, and no view is told. `ShownInSync` excepts
  the view of such a message.

A tap on a job that is being stopped is ignored.

### Conversation

`page` is `ChatMessages`; `tasks` are its reads and calls, `fresh` while they are of the
page's generation. `Reload`, `SyncRows`, `RefreshOne`, `Synced`, `Placed` and `Filled`
are the code's functions (`synced`, `RowDiff`, `place_arrivals`, `fill_rows`); `Lands`
is the callback of whichever task has its answer. `CoreLists` is the list of ids,
`CoreReads` the read of messages, `CoreSends`, `CoreRemoves` and `CoreActs` what the
reader asked for; `Tap`, `PrefetchLands` and `OpenPage` are the ways a page opens.
What the code does not promise is told apart by history variables and left out of
the properties:

* `behind`: a list of ids was read by `open_chat` or the prefetch before an arrival or a
  deletion whose event was handled before it landed; or the read failed, and nothing
  reads it again by itself. A prefetched chat whose page is not pushed stays in the
  cache for the next opening, where `prefetch.rs:5` says it is never stale.
* `crossed`: an edit was told of, and the row re-read, while an older fill, arrival, whole
  reload or send with that message was on its way; it lands last. Only reads of one
  row (`refresh_one`) are made again for that.
* `moved`: the core put messages in another order; or took away a message of the reader's
  whose send is answered but not landed. A list read before, which has that message, may
  then land after a later one has let its newer neighbours in: the send's row comes after
  them, out of that list's order, and the rows start over.
* A row newer than all of the chat's messages is kept by `synced`, so the reader's newest
  message, deleted elsewhere, may come back with an old list; `hydrate` then asks for
  that row over and over (`GoneBlank`).

### Calls

`call` is `Call`, `host[n]` the host of the app's n-th call with the tasks of its page's
requests; `Shared::end` and its lock are `EndBegins` and `CoreEndsCall`. `Handle` and
`Take` are `handle_event` and `take_report`; `Finish`, `FinishUnanswered`, `Settle`,
`Close` and `Drop` the functions they call.

| actions | code |
| --- | --- |
| `Place`, `PickUp`, `Answer`, `HangUp`, `Reset` | methods QML calls |
| `HandleEvent`, `ReportLands`, `HostLands`, `PickUpLands`, `WhyLands`, `RingLimit` | queued callbacks and the ring limit |
| `HostStarts`, `PagePlaces`, `PlaceAnswered`, `PlaceChecks`, `PageAccepts`, `PageEnds`, `PageConnects`, `EndBegins` | the host, and what its page asks of it |
| `CoreRings`, `CoreTaken`, `CoreAnswered`, `CoreEnds`, `CoreLosesEvents`, `CorePlaces`, `CoreRefuses`, `CoreAccepts`, `CoreEndsCall`, `CoreDeclines`, `CoreSays` | the core |

As the code has it, and left out of the properties: `pick_up` asks the core whether a
call still rings and begins it when the answer lands, with no look at what came in
between, so a call declined or taken meanwhile rings again until the limit (`late`); a
host that fails to start after `answer`, a placing whose answer is lost and an
`end_call` that fails leave the core untold, and nothing is tried again (`untold`). A
call of the app's leaves no notice of the one before it that ended meanwhile.

## What is checked

| run | question | properties |
| --- | --- | --- |
| `chatlist_rows` | Is a stale row ever forgotten, does a late answer land, is a list at rest in sync, whatever overlaps, restarts, fails or changes account, search or mode? | `TypeOK`, `NoLostRefresh`, `NoLostWakeup`, `SettledInSync`, `RowsNeverGoBack` |
| `chatlist_live` | Does the list catch up, over a dead server and transcripts that change under a refresh? | `EventuallyInSync` |
| `rpc_stream` | Does each call get its own answer and no waiter get lost; does the client implement `EventStream`; do later events and calls arrive? | `TypeOK`, `OwnAnswer`, `WaitersAgree`, `EventsInOrder`, `EventsArrive`, `CallsReturn` |
| `offline_io` | One chain of restarts, given up in time, with the IO the window wants on each server? | `TypeOK`, `OneChain`, `GivesUpInTime`, `WindowAgrees`, `WatchAgrees`, `IoAsAsked`, `ServerReplaced` |
| `signup` | Does every attempt end, let go of its account and leave nothing behind, and leave alone the reader's profiles and, on accounts not shared, those announced? | `TypeOK`, `HoldsEnd`, `OnlyOursUndone`, `EverythingEnds` |
| `transcripts` | One job a message, none forgotten unless refused, no text of a deleted one unless a sweep failed or it was made again, views that show what is so, a queue that drains? | `TypeOK`, `OneJobEach`, `NothingLost`, `GoneLeavesNoRow`, `ShownInSync`, `NoneWaitsInVain` |
| `conversation` | Do rows end as the core's list, filled near the view, with no row or place lost on the way? | `TypeOK`, `FlagsTellTruth`, `KeepsPlace`, `RowsSettle`, `RowsStay`, `ViewFilled` |
| `calls` | Is the core told once of the end of a call, never of another device's, and does the app agree with it? | `TypeOK`, `CoreToldOnce`, `AppAgrees`, `NeverForOthers`, `RingingEnds` |

Each property's comment says what it leaves out. `SettledInSync` claims nothing once a
call was refused: the code does not retry a refused refresh by itself, it keeps what
was asked owed (`NoLostRefresh`) until the next event; and it excepts the `outdated`. `IoAsAsked` claims nothing
once a start and a stop were in flight together: the start a restart replays
(`core.rs:499`) and the stop the window asks for in the same callback (`core.rs:1259`)
are two tasks in no order, so IO may run on a paused core, where `core.rs:1242` orders
only what is remembered ("Forgotten before call: offline restart must not run IO.").

Four runs show where code and what it says of itself part; each is a finding of
`PROJECT.json` with the lines.

| run | property | what TLC finds |
| --- | --- | --- |
| `chatlist_announce` | `ToldOnceReadBack` | A landing that did not re-read a chat announces its new message, or restates it, with the old preview. |
| `rpc_death` | `ServerGoneEndsStream` | A poll registered after the reader drained the waiters, its line taken by a writer that has not met the broken pipe, waits for ever: the server is never restarted. |
| `offline_back` | `NetworkBackRunsIo` | The network returns while a paused core is being replaced: `resumeIo` drops the word and nobody starts IO. |
| `transcripts_dropped` | `QueueKept` | The feature is switched off while a tapped message is transcribed: the job that was to be dropped is queued again once it has stopped. |

In `RpcClient` a poll whose answer is a line the reader skips also waits for ever: the
"its call times out" of `client.rs:79` holds of timed calls only. `EventsArrive`
leaves that case out (`Skipped`).

### Bounds, and why they suffice

All modules but `OfflineIo` and `Signup` bound their environment by a *budget*: how often
in a behaviour each kind of outside step may happen. `Budgets` (`Starts` in
`Conversation`) is a set of such scenarios, one of which is chosen initially, so one run
explores several combinations, each to its end. Every step of the code itself is
unbounded.

* `ChatList`: two chats (one found by the search, one muted where that matters), one
  or two accounts, a screenful of one chat, so that a first load of two chats shows
  early; two core changes are enough for one to be overtaken by a refresh and
  another to come while its successor runs; two pauses are pause and resume. No
  instance is long enough for an `outdated` row (it takes three searches and an
  account). What the smaller instances might miss in sets of chats, accounts and
  searches, the theorems cover.
* `RpcClient`: two calls and the poll are enough for answers to cross; three events
  for batches of one, two and three with one refused or skipped in between; the
  server dies or is shut down once, since no later server shares the client.
* `OfflineIo`: the real restart limit of 12 and two accounts, one of which may have
  its IO asked for singly; `MaxCalls`, the IO calls in flight when another is
  asked for, is the only bound (3 in `offline_io`; 1 in the violation, which
  needs no more). `failures` is a history variable; it is bounded by the limit,
  which `GivesUpInTime` says.
* `Signup`: `MaxAttempts` of 2, so that one attempt goes on, cancelled, under another;
  one profile of the reader's, two ids that `add_account` may give out; the
  three limits are the code's, 60, 30 and 1800 seconds, of which only the order counts.
* `TranscriptHub`: three messages, one older and watched, one arriving, one the reader's
  own and of the other profile; eight scenarios of at most four outside steps. A queue
  of two with one running is the longest that three messages make.
* `Conversation`: four ids and 13 starts; opening with two messages, filling one at a
  time, one row beyond the view, two fills in flight, where the code has 20, 50,
  40 and 4: small, so that rows stay unfilled and fills wait for one another with
  four rows.
* `Calls`: two calls the app begins and two the core has, so that reports, answers and
  timers of the first may come into the second; four scenarios. `EARLY_EVENTS` is the
  code's 16, which two calls never reach: no run overflows it, and what `AppAgrees` says
  counts an overflow as events lost.

Accounts are symmetric in `chatlist_rows`; no symmetry is used where liveness is
checked. Deadlock is not checked in runs whose environment comes to an end; it is
in those of `OfflineIo`, whose environment never does.

### Fairness

* `ChatList`: weak fairness of queued callbacks (the Qt loop runs), of refresh tasks
  (the runtime polls them and the core answers or is lost), of the supervisor
  (a dead server is noticed and replaced) and of `tell`. None for QML, the core's
  changes, refusals or deaths.
* `RpcClient`: the runtime polls each task, a timed call's timer fires, the backoff
  ends, and the core answers a poll once it has events, which is what that call
  is for. The core need not answer any other call; nothing makes the server
  die, a caller cancel or the owner stop.
* `OfflineIo`: each task ends, callbacks and the two timers run, the server carries
  out what reaches it. Nothing for the user, connman, deaths or uptime.
* `Signup`, `TranscriptHub`, `Conversation`, `Calls`: one weak fairness over all that goes
  on by itself (tasks, timers, callbacks, answers): something happens while something
  can. That is less than fairness of each step, and enough: what is under way only
  gets less, but for two loops. A job stopped for the power and queued again starts
  over only if the power comes back, which its budget bounds; and the row of a gone
  message is asked for again and again, which `ViewFilled` sets apart. The core need
  not end a transport or an import; nobody has to tap, scroll, answer or hang up.

## What is proved

TLAPS checks these for every value of the constants that satisfies the named
assumptions (`ChatListAssumption`, `RpcClientAssumption`, `NoAnswerAssumption`,
`SupervisorAssumption`, `OfflineIoAssumption`, `SignupAssumption`, `TranscriptAssumption`,
`NoJobAssumption`, `ConversationAssumption`, `CallsAssumption`).

`ChatListProofs!TypeCorrect`: `Spec => []TypeOK`. Types alone are not inductive: a
task puts a transcript into a row it has read, so the invariant `TypeInv` adds
`ReadTask`: a task reading transcripts holds the rows they belong to.

`ChatListProofs!RefreshesCovered` and `NothingLost`: `Spec => []RefreshInv`
and `Spec => []NoLostRefresh`. `NoLostRefresh` says that a row which is not what
the core would say is owed, heralded by an event or an answer to come, or asked
by the refresh in flight. It is not inductive: a landing may put wrong rows into
the list, so what a *task* holds must be covered as well. `RefreshInv` adds that
generations tell refreshes apart and only the newest can land (`Generations`),
that a task ends with every row it had to read (`RowsRead`), and that what it
would put into the rows is right or owed by then (`TaskCovered`). The proof
halves it into `Shape` (the first two) and `Covered` (the rest), shows that
starting, restarting and landing keep each half, and then takes each action: a
change of the core brings the event that covers it, an overflow covers
what it drops, and the death of the server makes everything owed.

`ChatListOrderProofs!WakeupKept`: `Spec => []NoLostWakeup`, inductive with the types;
one lemma for each function that starts, restarts or ends a refresh. `OnlyNewer`:
`Spec => RowsNeverGoBack`, an action property. Its invariant `Versions` says that all
contents held anywhere are ones the core has had, that a first load (the only one that
shows early) began with no rows, and that the newest refresh holds the rows there
are or has read them since (`UpToRows`); with `Shape`, only that one lands.

`ChatListOrderProofs!AtRestInSync`: `Spec => []SettledInSync`. That contents are right at
rest is `NoLostRefresh`. That the chats listed are, and their transcripts, is `ClaimInv`,
claimed while the server lives and no call was refused (`SpentInv`): what is owed will be
asked (`Asked`); the chats listed are right, or a refresh is in flight or to come
(`ListDue`); the one in flight reads the listing of the present settings, unless another
follows (`ListRead`), and if it fails, everything is owed (`Doomed`); and an old transcript
is going to be told of, owed, asked, or found out by a first load's landing (`TextDue`).
`TextInv` says of transcripts read so far that they are right unless a change is still to
be told or was told since (`TextFine`), and that a list with rows is `following`. The
proof did not go through for what a replaced first load has shown early; TLC, given four
searches, confirmed that such a row stays old, and the exception came from there.

`RpcClientProofs!TypeCorrect`, `AnswersMatch`, `WaitersFound`: `Spec => []TypeOK`,
`[]OwnAnswer`, `[]WaitersAgree`, from one invariant `Inv`: ids are given out once, every
request, line and waiter carries the id of its own call (`Ids`), and the map, the
reader's hands and the calls agree (`Waiters`). `EndMeansGone`: the stream ends only
when the server is gone. `EventsRise`: what is handed on rises, as the batch of the
poll in flight comes after all of it (`Ordered`).

`RpcClientProofs!ImplementsStream`: `Spec => EventsInOrder`, the refinement: every step
of the client is one of `EventStream` or a stutter (`StepMaps`). Which events have been
forwarded is stated there by their set and their order, no filter of a list, so that it
can be reasoned about. The proof needs to know that nothing is lost or doubled on the way,
which `StreamInv` says: a poll under way is at one place only, as a request, in the
server, as a line, in the reader's hands or as an answer, and is the loop's current one
(`OnePoll`); every event the server has handed out is forwarded, spoiled, or in that
answer (`Covered`); spoiled events are in no answer (`Unspoiled`); and only a loop that
polls has a poll (`Polling`). So a batch the loop takes brings all that is missing up to
the last event handed out.

`OfflineIoProofs!Supervised`: `Spec => []OneChain`, by induction with the types of
the chain: every callback takes one link and adds at most one, and gives the runtime
up exactly when it adds none.

`OfflineIoProofs!GivesUp`: `Spec => []GivesUpInTime`. The count of failures lives in
two places: restarts already counted (`Tried`) and the one failure on its way to the
next decision (`Due`). `Counted` says that `failures` is their sum, and `Placed`
where in the chain each state of the server and of `startedAt` can be found.

`OfflineIoProofs!WishRemembered`: `Spec => []WindowAgrees`, with the fact that IO
is paused only if it was asked for. `WatchRight`: `Spec => []WatchAgrees`, inductive
with its types. `TypeCorrect`: `Spec => []TypeOK`.

`SignupProofs!TypeCorrect`: `Spec => []TypeOK`, with `AccountKnown`: an attempt at work
has an account. `HeldIsLetGo`: `Spec => []HoldsEnd`; no step ends the use an attempt
has for an account without letting it go (`KeepsWorking`), also where two attempts share
one. `ReadersStay`: `Spec => []ReadersKept`, the first half of `OnlyOursUndone`: what
makes or takes over a profile never has an account the reader had at the start, and nothing
else undoes one (`UndoesOwn`). `OursUndone`: `Spec => []OnlyOursUndone`, of what is announced
and of what is left. For the first, `Alone` says of an account nobody shares that one attempt
at most has a use for it (`Single`) and holds it while it works on it (`Held`), that what it
has made is there (`There`), and that what was announced is there and nobody has a use for
it (`Stays`); so a step that removes an account removes that of its only user, who has
announced nothing there, and one that takes an account shares it or finds it free
(`AloneTake`). It says nothing of shared accounts: on those, announced profiles do get
lost. For the second, a profile nobody
asked for is settled by the attempt that made it, so `OursInv` traces each configured
account to the reader, to an answer, or to an attempt that will announce, remove or own
up to it (`Traced`), knows of every attempt what it can have in each of its phases
(`Places`) and that what the core does to an account, the attempt that owns it asked for
(`ProcessOwned`). Here the order of the three limits counts: a call is given up by its
deadline before the client gives it up.

`TranscriptHubProofs!OneJob`: `Spec => []OneJobEach`, with the types of the queue, the
running job and all that names messages to be queued. `EnqueueKeeps` and its companions
say what `enqueue`, `drop_key` and `pump` keep; a job goes back into the queue only
when it has left the place of the running one. `NoneForgotten`: `Spec => []NothingLost`.
What is wanted and there may be held by a lookup alone, so `LostInv` says which lookups
cover a message (`Covers`: a tap while the switch is on, an arrival while new ones are
kept) and that what is wanted has a job, its row or such a lookup, unless it is gone
(`WantedCovered`) or an arrival that was refused with nothing else after it. A lookup gives up what it covers only for a good reason, so `World`
keeps what it has learnt: of profiles and rows (`LookupKnows`), and that `skip` holds
only messages with a row, gone, or the reader's own. A job may leave by a stop, so
`StopKnown`: a run of what is wanted is told to stop only to be taken back.
`TypeCorrect`: `Spec => []TypeOK`, with the types of the answers on their way
(`ShowType`).

`GoneAreSwept`: `Spec => []GoneLeavesNoRow`. `GoneInv` follows the word that a message is
gone: as long as it has a job or a lookup that may get it one, that word is still to come
(`AboutToGo`); as long as it has a row, the word is, or a sweep that will find it; and an
arrival told of late is followed by the deletion (`ToldLater`); all that for messages
neither `slipped` nor `unswept`. `ViewsShowWhatIs`:
`Spec => []ShownInSync`. Notes posted and answers of the store come in one order,
`Pend == posted \o replies`; `SyncInv` says of each message in view that this list asks for
it again, or names nothing and what is shown is right, or names it where the row does not
matter (`Fixed`: off, or a job says more), or says the row of the store last (`LastIn`). The
proof showed TLC's first instance too small: a sweep that fails after it has deleted
rows tells no view (`hub.rs:868`), so a view may go on showing the text of a message
that is gone; the failing sweep of `Fails`, the budget `RefusedBudget` and the exception in
`ShownInSync` (`untold`) came from there.

`ConversationProofs!MarksTellTruth`: `Spec => []FlagsTellTruth`. `Good` says, of any page
and tasks between two lines of a handler, that each mark stands for the fresh tasks of
its kind; `Settled` adds what holds at the end of one. A task whose answer lands is taken
off with its mark still up, for its callback to clear (`TakenOff`); then come `reload`,
`sync_rows`, `refresh_one` and each callback, one lemma each. Prefetches have no marks:
before the page is there, they are all there is (`Unopened`).

`ConversationProofs!ConversationTyped`, `PlaceKept` and `NoRowLost`: `Spec => []TypeOK`,
`Spec => []KeepsPlace` and `Spec => RowsStay`. The invariant is `ConvInv`. `NowTyped` gives
types and the ids of rows and lists once each: `synced` is proved to leave just the ids of
the list and the rows newer than it, in the order of both (`SyncedTo`), from what
`place_arrivals` does with each id (`PlacedIs`). `RowsInv` says why a list that lands
late does no harm:

* A list lacks, of what the chat has, only what is newer than all it has (`Newer`), so
  that what `RowDiff` takes out is gone (`NoRowLost`). That rests on ids counting up
  (`Numbered`), which the core's are assumed to do (`ConversationAssumption`).
* Lists, however old, agree on the order of what they share (`ListsAgree`), and a list
  that lands agrees with the rows (`LateAgree`). Alone that is not inductive: the row of a
  message sent is put at the end of the rows whatever came meanwhile, so the invariant
  adds that a sent message is after all older ones in each list (`SentLast`, `SentThere`)
  and that no newer row is there before it (`SentShown`); and where a later list would
  put what the rows lack (`LackedBefore`, `LateOnesLast`).

A step of the page is one of six things to the rows (`RowsStep`), one of the core's one
of three to the chat (`GrownStep`, `ThinnedStep`, `MovedStep`); the invariant is shown to
survive each, and each handler to be one of them. The proof found `KeepsPlace` false as
first stated, in a chat with more messages than the run has: the exception for a message
taken away while its send is under way (`JustSent`) came from there.

`RowsComeToRest`: `Spec => []RowsSettle`. At rest nothing is under way, so the invariant
(`DueInv`) says of every state what is still owed, while no event is left to tell of it
and history excepts nothing. The list is in the rows, or a sync or a load of the chat
brings it; one that lands is the chat's, or another follows (`ListDue`). What a message
says is in its row, or its row is being read or the chat loaded; a read that is older has
another follow (`TextDue`). For the second half of each, the marks have to be true
(`MarksInv`), and a read of one message has to bring just that one (`OneRead`). What is
not due to a mark, a load, a prefetch or a send under way, is the chat's own or excepted
by history (`OwnLists`, `OwnTexts`). A step of the core either tells of what it changes
or changes nothing (`Tells`), and leaves each read what it was to bring (`TasksProceed`);
`refresh_one` needs the row to be there, or no older read of it to be under way
(`RefreshOneTold`), which history sees to; a row sent late is put in as its message is
(`SendLandedDue`), one removed is gone from the chat (`RemoveLandedDue`). Whether the list
and which messages are due is given beforehand (`Due`), so that every handler is shown to
keep what it finds and to bring what it is told of, on any page.

`CallsProofs!TypesHold`: `Spec => [](TypeOK /\ World)`. Types alone are not inductive: a
host's task ends the call the host knows of, and a report names one. `World` says that a
host fits its own requests (`HostFits`) and the call it was begun for (`CallFits`), that
only the host of the call the app is in is held (`Hosts`), and that a report that names a
call names its host's (`ReportsFit`). When the core's answer names the call, the events
kept are handled one after another (`HandleAll`); that what one of them keeps, all of
them keep, is proved by their least prefix that would not (`Least`, from the library's
theorem on finite sets). One lemma per action.

`CallsProofs!ToldOnce` and `OthersSpared`: the core is told of an end at most once, and
`Spec => NeverForOthers`. `DueInv` says which way each call went, and that what the app,
its hosts and the events say of it agrees (`Ways`); that a call has one host or rings
(`OneHost`); that what was told of is not ringing, and every host of it is `ended`
(`ToldInv`); and that what another device has was settled: its hosts are `ended`, or
quiet and no longer the call's (`HandedInv`). The set `late` holds what is excepted: a
call taken up a second time, or after all its events.

`EndsAreTold`: `Spec => []CoreToldOnce`, its second half by `Owed`, what each kind of host
still owes. A call this device took part in is over, could not be told of, or is held by
a decline under way or by a host (`MineWay`). A host that is `ended` has its ending call
under way or through, one that is quiet was settled because its call was over, one that
was dropped has an ending to come (`HostOwes`). The call the app is in has the name of
the call placed for it, or a report brings it (`NameTold`), so none is left unnoticed; an
end that is told is true when told (`EventTruth`).

`AppKnows`: `Spec => []AppAgrees`, by `Coming`: while no event was lost, what the app does
not know of the call it is in is in the queue, or kept until the core's answer names the
call (`HearsAll`); of a call not yet named that is said by the name its host has been
given. So that nothing told of a call that is over passes its end, the end is told with it
or after it (`EndFollows`); and a call that goes on does so on some device (`Somewhere`).
As `EARLY_EVENTS` is any number here, an early event that is not kept counts as lost.

Only model-checked: everything temporal (`EventuallyInSync`, `EventsArrive`,
`CallsReturn`, `IoAsAsked`, `ServerReplaced`, `EverythingEnds`, `NoneWaitsInVain`,
`ViewFilled`, `RingingEnds`; liveness under fairness is out of the prover's reach). Every
invariant and every action property of a run that passes is proved.

## Not modelled

Of the parts modelled: the unread filter of the chat list and the moves that bring
its QML model and a conversation's from old rows to new (`reconcile`); the settings
lane, the unread counts, the account list and the shutdown of `core.rs`; the download
of the speech model; attachments and their recoding; the end of all calls when the
app exits (`end_all`); the ringtone (`CallCenter.qml`). Assumptions on the world are
named with each module above.

Of the other parts, the inventory gives the reasons: pure conversions, bindings,
presentation, and lists that load one thing under a generation counter, which the chat
list does in full. The Webxdc host and voice recording are candidates left over.

## Plan

Done: the chat list, the client with its stream, the supervisor with window and network
watch, signing up, transcripts, a conversation, calls; proofs of each.

Next, in this order:

1. In `Supervisor`: shutdown, the lane of settings (last write wins) and the coalescing
   of the unread counts.
2. The composition of `RpcClient` under `Supervisor` through `EventStream`, with the end
   of the stream as the client really gives it.
3. `RowDiff` and `reconcile` as functions on sequences, compared with what they should
   yield over all short lists.
4. The Webxdc host: updates in order, realtime channels left once.
