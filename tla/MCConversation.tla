--------------------------- MODULE MCConversation ---------------------------
(* Small instances of Conversation for TLC. *)
EXTENDS Conversation

\* Nothing happens but what a start's budget names.
Nothing == [k \in BudgetKinds |-> 0]
Opening == [Nothing EXCEPT !["open"] = 1]

\* A chat that opens full.
One(budgets) == [list |-> <<1>>, budget |-> budgets]

\* A message changes while it is read, sent again, or sent.
EditStarts ==
    {One([Opening EXCEPT !["change"] = 2]),
     One([Opening EXCEPT !["change"] = 1, !["act"] = 1]),
     One([Opening EXCEPT !["change"] = 1, !["send"] = 1])}

\* Messages come and go while the list is read: in order, among others, put in another
\* order; one just sent, one removed here.
ListStarts ==
    {One([Opening EXCEPT !["arrive"] = 2]),
     One([Opening EXCEPT !["arrive"] = 1, !["delete"] = 1]),
     [list |-> <<1, 2>>, budget |-> [Opening EXCEPT !["move"] = 2]],
     One([Opening EXCEPT !["send"] = 1, !["delete"] = 1]),
     One([Opening EXCEPT !["remove"] = 1, !["arrive"] = 1])}

\* Opened by a prefetch or not; loaded again; more rows than are filled at once, and reads
\* that fail.
OpenStarts ==
    {One([Opening EXCEPT !["tap"] = 2, !["arrive"] = 1]),
     One([Nothing EXCEPT !["tap"] = 1, !["arrive"] = 1, !["lose"] = 1]),
     One([Opening EXCEPT !["lose"] = 1, !["arrive"] = 1]),
     [list |-> <<1, 2, 3, 4>>,
      budget |-> [Opening EXCEPT !["lose"] = 1, !["scroll"] = 1, !["fail"] = 1]],
     One([Opening EXCEPT !["arrive"] = 1, !["fail"] = 2])}

MCStarts == EditStarts \cup ListStarts \cup OpenStarts
=============================================================================
