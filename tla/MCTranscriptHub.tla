-------------------------- MODULE MCTranscriptHub --------------------------
(* Small instances of TranscriptHub for TLC. *)
EXTENDS TranscriptHub

\* The feature on, arrivals and older ones transcribed while charging.
On == [enabled |-> TRUE, modelReady |-> TRUE, mode |-> "charging", older |-> TRUE,
       charging |-> TRUE, powerSaving |-> FALSE]
Unplugged == [On EXCEPT !.charging = FALSE]
NoOlder   == [On EXCEPT !.older = FALSE]
Off       == [On EXCEPT !.enabled = FALSE, !.modelReady = FALSE]
Loading_  == [On EXCEPT !.modelReady = FALSE]
TapsOnly  == [On EXCEPT !.mode = "never"]

MCSettings == {On, Unplugged, NoOlder, Off, Loading_, TapsOnly}
MCAtStart  == {On}
MCProfileOf == [m \in Msgs |-> IF m = 3 THEN "p2" ELSE "p1"]

\* Nothing happens but what a run's budget names.
Nothing == [k \in BudgetKinds |-> 0]

\* Jobs stopped for the power and dropped by settings, over a search of older ones.
PowerBudget  == [Nothing EXCEPT !["connect"] = 1, !["settings"] = 2, !["cancel"] = 1]
\* An arrival, partly first, passed over, tapped, and refused by the core.
ArriveBudget == [Nothing EXCEPT !["arrive"] = 1, !["download"] = 1, !["tap"] = 1, !["fail"] = 1]
\* Settings change over an arrival.
ModeBudget   == [Nothing EXCEPT !["arrive"] = 1, !["settings"] = 2]
\* A message goes while it is looked for, looked up, queued, running or tapped.
DeleteBudget == [Nothing EXCEPT !["delete"] = 1, !["tap"] = 1, !["watch"] = 1, !["fail"] = 1]
SweepBudget  == [Nothing EXCEPT !["delete"] = 1, !["connect"] = 1, !["cancel"] = 1, !["fail"] = 1]
RemoveBudget == [Nothing EXCEPT !["remove"] = 1, !["connect"] = 1, !["arrive"] = 1]
\* A sweep fails after the rows of a removed profile have gone.
RefusedBudget == [Nothing EXCEPT !["remove"] = 1, !["connect"] = 1, !["fail"] = 1]
\* A chat's messages are tapped at once.
ChatBudget   == [Nothing EXCEPT !["chat"] = 1, !["settings"] = 1, !["tap"] = 1, !["arrive"] = 1]

\* The feature is switched off while a message is transcribed.
DroppedBudgets == {[Nothing EXCEPT !["tap"] = 1, !["settings"] = 1]}

HubBudgets == {PowerBudget, ArriveBudget, ModeBudget, DeleteBudget, SweepBudget, RemoveBudget,
               RefusedBudget, ChatBudget}
=============================================================================
