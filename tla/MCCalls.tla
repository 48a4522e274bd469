------------------------------- MODULE MCCalls -------------------------------
(* Small instances of Calls for TLC. *)
EXTENDS Calls

Nothing == [k \in BudgetKinds |-> 0]

\* A call placed: ended from every side, its parts failing.
Placed == [Nothing EXCEPT !["place"] = 1, !["end"] = 1, !["fail"] = 2, !["ice"] = 1,
                          !["red"] = 1, !["lose"] = 1]
\* A call that comes in, another device taking it, and its parts failing.
Incoming == [Nothing EXCEPT !["ring"] = 1, !["take"] = 1, !["end"] = 1, !["fail"] = 1,
                            !["ice"] = 1, !["red"] = 1, !["lose"] = 1]
\* One taken up from its row.
PickedUp == [Nothing EXCEPT !["ring"] = 1, !["take"] = 1, !["end"] = 1, !["pick"] = 1]
\* One placed and one that comes in.
Both     == [Nothing EXCEPT !["ring"] = 1, !["place"] = 1, !["end"] = 1]

MCBudgets == {Placed, Incoming, PickedUp, Both}
=============================================================================
