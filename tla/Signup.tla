------------------------------- MODULE Signup -------------------------------
(***************************************************************************)
(* Making a profile, taking one over and adding a relay                    *)
(* (piirit-shim/src/signup.rs, begun and landed in core.rs): one attempt   *)
(* counts at a time, but an attempt that was cancelled or timed out goes   *)
(* on, holding its account until the core's process on it has ended.       *)
(*                                                                         *)
(* An attempt is a task on the runtime; its transport or import call is a  *)
(* task of its own (child), which outlives it.  The core runs one process  *)
(* per account.  Steps between two awaits are one action, but for the end  *)
(* of the child, where the deadline may come between.                      *)
(*                                                                         *)
(* Abstracted: names, codes and addresses; error texts; the core's server  *)
(* dying.  remove_account succeeds.  A core that has taken up a call       *)
(* answers it once its process has ended.                                  *)
(***************************************************************************)
EXTENDS Integers, FiniteSets

CONSTANTS
    MaxAttempts,        \* bound: attempts begun
    Mine,               \* configured accounts at the start
    Spare,              \* accounts left unconfigured by earlier runs
    New,                \* ids add_account gives out
    NoAccount,          \* an attempt has no account
    CallTimeout,        \* CALL_TIMEOUT of the client
    Deadline,           \* DEADLINE of a signup
    TransferDeadline    \* TRANSFER_DEADLINE

Accounts == Mine \cup Spare \cup New
Attempts == 1 .. MaxAttempts

ASSUME SignupAssumption ==
    /\ MaxAttempts \in Nat
    /\ Mine \cap (Spare \cup New) = {} /\ Spare \cap New = {}
    /\ New \subseteq Nat
    /\ NoAccount \notin Accounts
    /\ CallTimeout \in Nat /\ Deadline \in Nat /\ TransferDeadline \in Nat
    \* DEADLINE is "under call's one-minute client limit", TRANSFER_DEADLINE half an hour.
    /\ Deadline < CallTimeout /\ CallTimeout <= TransferDeadline

VARIABLES
    \* Attempts
    current,    \* the attempt the reader waits for, 0 once cancelled
    begun,      \* attempts begun
    busy,       \* accounts held
    \* the tasks
    attempt,    \* [Attempts -> Attempt]
    stops,      \* stop_ongoing_process calls of cancelled attempts under way
    removals,   \* remove_account calls of callbacks under way
    \* the app
    announced,  \* profiles it was told are made
    \* the core
    kind,       \* [Accounts -> "none", "Unconfigured" or "Configured"]
    used,       \* ids given out
    process     \* [Accounts -> Attempts or 0]: whose call the core carries out

shimVars == <<current, begun, busy>>
coreVars == <<kind, used, process>>
vars == <<shimVars, attempt, stops, removals, announced, coreVars>>

-----------------------------------------------------------------------------
(* Data *)

Kinds  == {"profile", "device", "file", "relay"}
Phases == {"idle", "starting", "listing", "listed", "adding", "added", "naming", "checking",
           "calling", "comparing", "stopping", "undoing", "posted", "over"}
\* The child: asked of the core, carried out, answered, past its last look at
\* wanted ("kept", "failed"), returned.
ChildPhases == {"none", "sent", "running", "ok", "err", "kept", "failed", "undoing", "returned"}

Attempt == [kind : Kinds, phase : Phases, account : Accounts \cup {NoAccount},
            free : SUBSET Accounts,     \* unconfigured accounts the core listed
            wanted : BOOLEAN, child : ChildPhases, ok : BOOLEAN,
            shared : BOOLEAN,           \* history: others had the account when it was taken
            outcome : {"none", "created", "failed", "timedOut", "refused"}]

Restores(i) == attempt[i].kind \in {"device", "file"}
Limit(i)    == IF Restores(i) THEN TransferDeadline ELSE Deadline

\* The attempt whose page is up: begun, and not answered or cancelled.
Awaited == current # 0 /\ attempt[current].phase # "over"

Move(i, phase)  == attempt' = [attempt EXCEPT ![i].phase = phase]
Post(i, result) == attempt' = [attempt EXCEPT ![i].phase = "posted", ![i].outcome = result]
Hold(a)    == busy' = busy \cup {a}
Release(a) == busy' = busy \ {a}

\* Attempt i works on a, and will let go of it.
Working(i, a) ==
    /\ attempt[i].account = a
    /\ \/ attempt[i].phase \in {"starting", "naming", "checking"}
       \/ attempt[i].child \in {"sent", "running", "ok", "err"}

\* Attempt i can still make a profile on a, or undo one there; a relay does neither.
HasUse(i, a) ==
    /\ attempt[i].account = a /\ attempt[i].kind # "relay"
    /\ \/ attempt[i].phase # "over"
       \/ attempt[i].child \notin {"none", "returned"}
       \/ <<i, a>> \in removals

\* Account a is a profile already, or another attempt than i has a use for it that no hold
\* tells of: it has not taken hold yet, or has let go before it is done.
InUse(i, a) ==
    kind[a] = "Configured" \/ \E j \in Attempts \ {i} : HasUse(j, a) /\ ~Working(j, a)

\* Calls carried out for a that are cut short: the child hears of an error.
CutShort(a) ==
    [j \in Attempts |-> IF process[a] = j /\ attempt[j].child = "running"
                        THEN [attempt[j] EXCEPT !.child = "err"] ELSE attempt[j]]

\* remove_account.
Removed(a) ==
    /\ kind' = [kind EXCEPT ![a] = "none"]
    /\ process' = [process EXCEPT ![a] = 0]
    /\ UNCHANGED used

-----------------------------------------------------------------------------
(* The app: Qt thread *)

\* Mutant: the attempt is numbered and not counted.
BeginUncounted(k, a) ==
    /\ begun < MaxAttempts /\ ~Awaited
    /\ k # "relay" /\ a = NoAccount
    /\ current' = begun + 1
    /\ attempt' = [attempt EXCEPT ![begun + 1].kind = k, ![begun + 1].phase = "listing"]
    /\ UNCHANGED <<begun, busy, stops, removals, announced, coreVars>>

\* begin_profile, begin_restore, add_relay.  A page begins when none waits.
Begin(k, a) ==
    LET i == begun + 1 IN
    /\ begun < MaxAttempts /\ ~Awaited
    /\ begun' = i /\ current' = i
    /\ \/ /\ k # "relay" /\ a = NoAccount
          /\ attempt' = [attempt EXCEPT ![i].kind = k, ![i].phase = "listing"]
          /\ UNCHANGED busy
       \/ /\ k = "relay" /\ a \in Mine \cup announced
          /\ attempt' = [attempt EXCEPT ![i].kind = k, ![i].phase = "starting", ![i].account = a]
          /\ Hold(a)
    /\ UNCHANGED <<stops, removals, announced, coreVars>>

\* cancel_ongoing: the accounts held now are stopped in a task of its own.
Cancel ==
    /\ Awaited
    /\ current' = 0
    /\ stops' = stops \cup {<<current, a>> : a \in busy}
    /\ UNCHANGED <<begun, busy, attempt, removals, announced, coreVars>>

\* profile_callback, restore_callback, relay_callback: told to the page if it still
\* waits; what was made for nobody is removed, a relay is not.
Callback(i) ==
    LET a == attempt[i].account
        made == attempt[i].outcome = "created"
    IN  /\ attempt[i].phase = "posted"
        /\ Move(i, "over")
        /\ announced' = IF made /\ current = i THEN announced \cup {a} ELSE announced
        /\ removals' = IF made /\ current # i /\ attempt[i].kind # "relay"
                       THEN removals \cup {<<i, a>>} ELSE removals
        /\ UNCHANGED <<shimVars, stops, coreVars>>

-----------------------------------------------------------------------------
(* pick_account *)

\* get_all_accounts is answered, or fails.
ListAccounts(i) ==
    /\ attempt[i].phase = "listing"
    /\ \/ attempt' = [attempt EXCEPT ![i].phase = "listed",
                                     ![i].free = {a \in Accounts : kind[a] = "Unconfigured"}]
       \/ Post(i, "failed")
    /\ UNCHANGED <<shimVars, stops, removals, announced, coreVars>>

AfterPick(i) == CASE attempt[i].kind = "profile" -> "naming"
                  [] attempt[i].kind = "device"  -> "checking"
                  [] OTHER                       -> "calling"

\* Mutant: the account is taken and not held.
TakeUnheld(i, a) ==
    /\ attempt' = [attempt EXCEPT ![i].account = a, ![i].phase = AfterPick(i),
                                  ![i].free = {},
                                  ![i].child = IF attempt[i].kind = "file" THEN "sent" ELSE "none",
                                  ![i].shared = InUse(i, a)]
    /\ UNCHANGED busy

\* The account is the attempt's; a file needs no code read, its import starts.
Take(i, a) ==
    /\ attempt' = [attempt EXCEPT ![i].account = a, ![i].phase = AfterPick(i),
                                  ![i].free = {},
                                  ![i].child = IF attempt[i].kind = "file" THEN "sent" ELSE "none",
                                  ![i].shared = InUse(i, a)]
    /\ Hold(a)

\* An account that is free, by the list and by busy now, else a new one.
Pick(i) ==
    /\ attempt[i].phase = "listed"
    /\ \/ \E a \in attempt[i].free \ busy : Take(i, a)
       \/ /\ attempt[i].free \subseteq busy
          /\ attempt' = [attempt EXCEPT ![i].phase = "adding", ![i].free = {}]
          /\ UNCHANGED busy
    /\ UNCHANGED <<current, begun, stops, removals, announced, coreVars>>

\* add_account at the core, or its failure...
AddAccount(i) ==
    /\ attempt[i].phase = "adding"
    /\ \/ \E a \in New \ used :
            /\ \A b \in New \ used : a <= b
            /\ used' = used \cup {a}
            /\ kind' = [kind EXCEPT ![a] = "Unconfigured"]
            /\ attempt' = [attempt EXCEPT ![i].phase = "added", ![i].account = a]
            /\ UNCHANGED process
       \/ Post(i, "failed") /\ UNCHANGED coreVars
    /\ UNCHANGED <<shimVars, stops, removals, announced>>

\* ...and its answer, after which the account is held.
Added(i) ==
    /\ attempt[i].phase = "added"
    /\ Take(i, attempt[i].account)
    /\ UNCHANGED <<current, begun, stops, removals, announced, coreVars>>

-----------------------------------------------------------------------------
(* run, restore, add_transport *)

\* Mutant: the hold outlives an attempt that was cancelled while it set the name.
SetNameHolding(i) ==
    /\ attempt[i].phase = "naming"
    /\ \/ /\ kind[attempt[i].account] # "none" /\ current = i
          /\ attempt' = [attempt EXCEPT ![i].phase = "calling", ![i].child = "sent"]
       \/ Post(i, "failed")
    /\ UNCHANGED <<shimVars, stops, removals, announced, coreVars>>

\* set_display_name answered: the transport is asked for unless it failed or nobody
\* waits any more.
SetName(i) ==
    LET a == attempt[i].account IN
    /\ attempt[i].phase = "naming"
    /\ \/ /\ kind[a] # "none" /\ current = i
          /\ attempt' = [attempt EXCEPT ![i].phase = "calling", ![i].child = "sent"]
          /\ UNCHANGED busy
       \/ Post(i, "failed") /\ Release(a)
    /\ UNCHANGED <<current, begun, stops, removals, announced, coreVars>>

\* from_a_device: the code is one another device shows, or not.
CheckCode(i) ==
    /\ attempt[i].phase = "checking"
    /\ \/ /\ attempt' = [attempt EXCEPT ![i].phase = "calling", ![i].child = "sent"]
          /\ UNCHANGED busy
       \/ Post(i, "refused") /\ Release(attempt[i].account)
    /\ UNCHANGED <<current, begun, stops, removals, announced, coreVars>>

\* add_transport holds again what add_relay held.
AddTransport(i) ==
    /\ attempt[i].phase = "starting"
    /\ attempt' = [attempt EXCEPT ![i].phase = "calling", ![i].child = "sent"]
    /\ Hold(attempt[i].account)
    /\ UNCHANGED <<current, begun, stops, removals, announced, coreVars>>

\* The child has returned before the deadline: transport_within_deadline, restore.
\* A failed import is undone; one that worked is compared with the profiles here.
Joined(i) ==
    /\ attempt[i].phase = "calling" /\ attempt[i].child = "returned"
    /\ \/ ~Restores(i) /\ attempt[i].ok  /\ Post(i, "created")
       \/ ~Restores(i) /\ ~attempt[i].ok /\ Post(i, "failed")
       \/ Restores(i)  /\ attempt[i].ok  /\ Move(i, "comparing")
       \/ /\ Restores(i) /\ ~attempt[i].ok
          /\ attempt' = [attempt EXCEPT ![i].phase = "undoing", ![i].outcome = "failed"]
    /\ UNCHANGED <<shimVars, stops, removals, announced, coreVars>>

\* already_here.
Compare(i) ==
    /\ attempt[i].phase = "comparing"
    /\ \/ Post(i, "created")
       \/ attempt' = [attempt EXCEPT ![i].phase = "undoing", ![i].outcome = "refused"]
    /\ UNCHANGED <<shimVars, stops, removals, announced, coreVars>>

\* discard, by restore.
Undo(i) ==
    LET a == attempt[i].account IN
    /\ attempt[i].phase = "undoing"
    /\ attempt' = [CutShort(a) EXCEPT ![i].phase = "posted"]
    /\ Removed(a)
    /\ UNCHANGED <<shimVars, stops, removals, announced>>

\* Mutant: the deadline is a minute or more.
TimesOutNever(i) == FALSE

\* The deadline passes before the child has returned.  A call whose client limit
\* comes first has returned by then, and the core has long taken it up.
TimesOut(i) ==
    /\ attempt[i].phase = "calling" /\ attempt[i].child \notin {"sent", "returned"}
    /\ Limit(i) < CallTimeout
    /\ attempt' = [attempt EXCEPT ![i].phase = "stopping", ![i].wanted = FALSE]
    /\ UNCHANGED <<shimVars, stops, removals, announced, coreVars>>

\* stop_ongoing_process, after the deadline.
StopOwn(i) ==
    LET a == attempt[i].account IN
    /\ attempt[i].phase = "stopping"
    /\ attempt' = [CutShort(a) EXCEPT
                      ![i].phase = "posted",
                      ![i].outcome = IF Restores(i) THEN "refused" ELSE "timedOut"]
    /\ process' = [process EXCEPT ![a] = 0]
    /\ UNCHANGED <<shimVars, stops, removals, announced, kind, used>>

-----------------------------------------------------------------------------
(* The child: transport_call, import_call *)

\* The client gives the call up: only an import's limit comes before its deadline.
CallTimesOut(i) ==
    /\ attempt[i].child = "running"
    /\ Limit(i) >= CallTimeout
    /\ attempt' = [attempt EXCEPT ![i].child = "err"]
    /\ UNCHANGED <<shimVars, stops, removals, announced, coreVars>>

\* The answer is there: released, and undone if nobody awaits what was made here.
LetGo(i) ==
    LET answer == attempt[i].child IN
    /\ answer \in {"ok", "err"}
    /\ Release(attempt[i].account)
    /\ attempt' = [attempt EXCEPT ![i].child =
                      IF answer = "err" THEN "failed"
                      ELSE IF ~attempt[i].wanted /\ attempt[i].kind # "relay" THEN "undoing"
                      ELSE "kept"]
    /\ UNCHANGED <<current, begun, stops, removals, announced, coreVars>>

ChildUndoes(i) ==
    LET a == attempt[i].account IN
    /\ attempt[i].child = "undoing"
    /\ attempt' = [CutShort(a) EXCEPT ![i].child = "returned"]
    /\ Removed(a)
    /\ UNCHANGED <<shimVars, stops, removals, announced>>

\* The task is complete: from here on the deadline comes too late.
ChildReturns(i) ==
    /\ attempt[i].child \in {"kept", "failed"}
    /\ attempt' = [attempt EXCEPT ![i].child = "returned", ![i].ok = attempt[i].child = "kept"]
    /\ UNCHANGED <<shimVars, stops, removals, announced, coreVars>>

-----------------------------------------------------------------------------
(* The core: one process per account *)

\* A transport or import call is taken up, or refused.
CoreTakesUp(i) ==
    LET a == attempt[i].account IN
    /\ attempt[i].child = "sent"
    /\ \/ /\ kind[a] # "none" /\ process[a] = 0
          /\ process' = [process EXCEPT ![a] = i]
          /\ attempt' = [attempt EXCEPT ![i].child = "running"]
       \/ /\ kind[a] = "none" \/ process[a] # 0
          /\ attempt' = [attempt EXCEPT ![i].child = "err"]
          /\ UNCHANGED process
    /\ UNCHANGED <<shimVars, stops, removals, announced, kind, used>>

\* The process ends; its call may have been given up.
CoreEnds(a, ok) ==
    /\ process[a] # 0
    /\ process' = [process EXCEPT ![a] = 0]
    /\ kind' = IF ok THEN [kind EXCEPT ![a] = "Configured"] ELSE kind
    /\ attempt' = [j \in Attempts |->
                      IF process[a] = j /\ attempt[j].child = "running"
                      THEN [attempt[j] EXCEPT !.child = IF ok THEN "ok" ELSE "err"]
                      ELSE attempt[j]]
    /\ UNCHANGED <<shimVars, stops, removals, announced, used>>

\* stop_ongoing_process of a cancel; nothing if no process runs.
StopLands(s) ==
    /\ s \in stops
    /\ stops' = stops \ {s}
    /\ attempt' = CutShort(s[2])
    /\ process' = [process EXCEPT ![s[2]] = 0]
    /\ UNCHANGED <<shimVars, removals, announced, kind, used>>

\* remove_account of a callback.
RemovalLands(r) ==
    /\ r \in removals
    /\ removals' = removals \ {r}
    /\ attempt' = CutShort(r[2])
    /\ Removed(r[2])
    /\ UNCHANGED <<shimVars, stops, announced>>

-----------------------------------------------------------------------------
(* Specification *)

Init ==
    /\ current = 0 /\ begun = 0 /\ busy = {}
    /\ attempt = [i \in Attempts |->
                    [kind |-> "profile", phase |-> "idle", account |-> NoAccount, free |-> {},
                     wanted |-> TRUE, child |-> "none", ok |-> FALSE, shared |-> FALSE,
                     outcome |-> "none"]]
    /\ stops = {} /\ removals = {} /\ announced = {}
    /\ kind = [a \in Accounts |-> CASE a \in Mine  -> "Configured"
                                    [] a \in Spare -> "Unconfigured"
                                    [] OTHER       -> "none"]
    /\ used = {}
    /\ process = [a \in Accounts |-> 0]

\* What the runtime does for attempt i, and the Qt thread once it is over.
Task(i) ==
    \/ ListAccounts(i) \/ Pick(i) \/ AddAccount(i) \/ Added(i)
    \/ SetName(i) \/ CheckCode(i) \/ AddTransport(i)
    \/ Joined(i) \/ Compare(i) \/ Undo(i) \/ StopOwn(i)
    \/ Callback(i)
Child(i) == LetGo(i) \/ ChildUndoes(i) \/ ChildReturns(i)

\* What goes on by itself: tasks, timers, callbacks, and the core taking up and
\* answering what it is asked.
Runtime ==
    \/ \E i \in Attempts : Task(i) \/ Child(i) \/ TimesOut(i) \/ CallTimesOut(i) \/ CoreTakesUp(i)
    \/ \E s \in stops : StopLands(s)
    \/ \E r \in removals : RemovalLands(r)

Next ==
    \/ \E k \in Kinds, a \in Accounts \cup {NoAccount} : Begin(k, a)
    \/ Cancel
    \/ Runtime
    \/ \E a \in Accounts, ok \in BOOLEAN : CoreEnds(a, ok)

Spec == Init /\ [][Next]_vars

\* As an attempt has only so many steps, it is enough that something goes on while
\* something can.  A transport or an import may take for ever, and nobody has to
\* begin or cancel anything.
FairSpec == Spec /\ WF_vars(Runtime)

-----------------------------------------------------------------------------
(* Properties *)

\* Every variable keeps to its range.
TypeOK ==
    /\ current \in 0 .. begun /\ begun \in 0 .. MaxAttempts
    /\ busy \subseteq Accounts
    /\ attempt \in [Attempts -> Attempt]
    /\ stops \subseteq Attempts \X Accounts /\ removals \subseteq Attempts \X Accounts
    /\ announced \subseteq Accounts
    /\ kind \in [Accounts -> {"none", "Unconfigured", "Configured"}]
    /\ used \subseteq New
    /\ process \in [Accounts -> Attempts \cup {0}]

\* Whatever is cancelled, refused, timed out or shared by mistake, a held account has
\* an attempt that will let go of it: none is lost to later signups (busy).
HoldsEnd == \A a \in busy : \E i \in Attempts : Working(i, a)

AtRest ==
    /\ \A i \in Attempts : attempt[i].phase \in {"idle", "over"} /\ attempt[i].child \in {"none", "returned"}
    /\ stops = {} /\ removals = {}
    /\ \A a \in Accounts : process[a] = 0

\* The deadline of i fell between the child's look at wanted and its end.
SlippedBy(i) == attempt[i].outcome = "timedOut" /\ attempt[i].ok

\* The profiles the reader has are there, and configured.
ReadersKept == \A a \in Mine : kind[a] = "Configured"

\* An account an attempt took though it was made already, or though another had a use for
\* it that busy does not tell of.  There are three such gaps: the account of an add_account
\* under way is listed before it is held (signup.rs:288-292), what is to be undone is let
\* go of before it is (:331-333, :354-356, then :245, :251), and a list may be older than what
\* was made since.
Shared(a) == \E i \in Attempts : attempt[i].account = a /\ attempt[i].shared

\* What attempts undo, and what they leave.  None of the profiles the reader had is undone,
\* nor a relay added to one in vain (Made::Before).  A profile the reader was told is made
\* stays, unless two attempts came to share its account: then the failed import, or the
\* late success, of the other one takes it away though the reader has it (discard).  And a profile the
\* reader was not told of does not stay, whether its attempt was cancelled, timed out or
\* found to be a copy, unless its deadline slipped by ("Late success after cancel:
\* removed, unsignalled").
OnlyOursUndone ==
    /\ ReadersKept
    /\ \A a \in announced : kind[a] = "Configured" \/ Shared(a)
    /\ AtRest => \A a \in Accounts : kind[a] = "Configured" =>
                    \/ a \in Mine \cup announced
                    \/ \E i \in Attempts : attempt[i].account = a /\ SlippedBy(i)

\* Every attempt comes to its end and leaves no process on an account, even if the
\* core never ends one by itself: it is stopped, or its account removed.
EverythingEnds ==
    <>[](/\ \A i \in Attempts : attempt[i].phase \in {"idle", "over"}
         /\ \A a \in Accounts : process[a] = 0)
=============================================================================
