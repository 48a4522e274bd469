---------------------------- MODULE MCChatList ----------------------------
(* Small instances of ChatList for TLC. *)
EXTENDS ChatList, TLC

CONSTANTS a1, a2, c1, c2, NoText, Search

\* Accounts differ in nothing but their names.
AccountSymmetry == Permutations({a1, a2})

\* The search finds one of the two chats.
MCMatches == (NoText :> {c1, c2}) @@ (Search :> {c1})

\* Nothing happens but what a run's budget names.
Quiet == [k \in BudgetKinds |-> 0]

\* Refreshes against changes of chats and of the listing, and refused calls.
RowsBudget == [Quiet EXCEPT !["account"] = 1, !["change"] = 2, !["fail"] = 1]
ListingBudget == [Quiet EXCEPT !["account"] = 1, !["change"] = 1, !["listing"] = 1,
                               !["fail"] = 1]
\* Events dropped, row actions answered late.
LossBudget == [Quiet EXCEPT !["fail"] = 1, !["account"] = 1, !["change"] = 1,
                            !["act"] = 1, !["overflow"] = 1, !["reload"] = 1]
\* Two accounts: a restart over a refresh in flight for the other account.
SwitchBudget == [Quiet EXCEPT !["account"] = 2, !["change"] = 1, !["fail"] = 1]
\* The search changed over refreshes in flight, paused or not.
FilterBudget == [Quiet EXCEPT !["fail"] = 1, !["account"] = 1, !["query"] = 1, !["change"] = 1,
                              !["pause"] = 2]
\* Search and mode changed, or only that, one after the other.
ModeBudget == [Quiet EXCEPT !["fail"] = 1, !["account"] = 1, !["query"] = 1, !["mode"] = 1]
\* Searches over refreshes in flight while a transcript is written.
SpokenBudget == [Quiet EXCEPT !["fail"] = 1, !["account"] = 1, !["query"] = 2,
                              !["transcript"] = 1]
\* The server dies under a list that is paused, asked and acted on.
ServerBudget == [Quiet EXCEPT !["account"] = 1, !["die"] = 1, !["change"] = 1,
                              !["pause"] = 2]
\* Transcripts written and switched between the reads of a refresh.
VoiceBudget == [Quiet EXCEPT !["account"] = 1, !["transcript"] = 1, !["switch"] = 1,
                             !["change"] = 1]
\* One refresh in flight when a message arrives.
ArrivalBudget == [Quiet EXCEPT !["account"] = 1, !["change"] = 2]

RowsBudgets    == {RowsBudget, ListingBudget, SwitchBudget, LossBudget, FilterBudget,
                   ModeBudget, SpokenBudget}
LiveBudgets    == {ServerBudget, VoiceBudget}
ArrivalBudgets == {ArrivalBudget}
=============================================================================
