---------------------------- MODULE MCRpcClient ----------------------------
(* Small instances of RpcClient for TLC. *)
EXTENDS RpcClient

CONSTANTS k1, k2

\* Nothing happens but what a run's budget names.
Quiet == [k \in BudgetKinds |-> 0]

\* Two calls and the poll against late, refused and missing answers.
CallsBudget == [Quiet EXCEPT !["call"] = 2, !["cancel"] = 1, !["error"] = 1]
\* Batches of up to three events, refused and unreadable ones among them.
EventsBudget == [Quiet EXCEPT !["event"] = 3, !["error"] = 1, !["misfit"] = 1, !["die"] = 1,
                              !["stop"] = 1, !["garbage"] = 1]
\* What must happen in the end, when the server dies or is shut down.
EndBudget == [Quiet EXCEPT !["call"] = 1, !["event"] = 1, !["die"] = 1, !["shutdown"] = 1,
                           !["garbage"] = 1]
\* What must happen in the end, while the server lives.
ArriveBudget == [Quiet EXCEPT !["event"] = 2, !["error"] = 1, !["misfit"] = 1, !["call"] = 1]
\* The least that loses the end of the server.
DeathBudget == [Quiet EXCEPT !["event"] = 1, !["die"] = 1]

StreamBudgets  == {CallsBudget, EventsBudget, EndBudget, ArriveBudget}
DeathBudgets   == {DeathBudget}
=============================================================================
