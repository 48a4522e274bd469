---------------------------- MODULE EventStream ----------------------------
(***************************************************************************)
(* What the event loop of deltachat-jsonrpc promises the shim              *)
(* (events.rs, spawn_event_loop): the core's events, each once and in      *)
(* order but for those the core put into an answer nobody could use; and   *)
(* an end that means the server is gone, for the shim restarts it then.    *)
(*                                                                         *)
(* Events are numbered 1, 2, ... in the order the core emits them.         *)
(***************************************************************************)
EXTENDS Integers, Sequences, SequencesExt

VARIABLES
    emitted,    \* number of events the core has emitted
    spoiled,    \* events lost in an answer that could not be used
    forwarded,  \* events put into the channel, in order
    alive,      \* the server process runs
    stream      \* "open", "ended" (server gone) or "stopped" (by its owner)

vars == <<emitted, spoiled, forwarded, alive, stream>>

\* None comes twice or before an older one.
Rising(events) == \A i, j \in DOMAIN events : i < j => events[i] < events[j]

Init ==
    /\ emitted = 0
    /\ spoiled = {}
    /\ forwarded = <<>>
    /\ alive = TRUE
    /\ stream = "open"

Emit ==
    /\ alive
    /\ emitted' = emitted + 1
    /\ UNCHANGED <<spoiled, forwarded, alive, stream>>

\* Events not yet forwarded go into an unusable answer.
Spoil ==
    /\ alive
    /\ \E first, last \in 1 .. emitted :
          /\ \A i \in DOMAIN forwarded : forwarded[i] < first
          /\ spoiled' = spoiled \cup (first .. last)
    /\ UNCHANGED <<emitted, forwarded, alive, stream>>

\* A batch arrives: all that came before it has arrived or is spoiled.
Forward ==
    /\ stream = "open"
    /\ IsPrefix(forwarded, forwarded')
    /\ Rising(forwarded')
    /\ \E n \in 1 .. emitted : ToSet(forwarded') = (1 .. n) \ spoiled
    /\ UNCHANGED <<emitted, spoiled, alive, stream>>

Die ==
    /\ alive
    /\ alive' = FALSE
    /\ UNCHANGED <<emitted, spoiled, forwarded, stream>>

\* Only the server's end ends the stream.
End ==
    /\ stream = "open" /\ ~alive
    /\ stream' = "ended"
    /\ UNCHANGED <<emitted, spoiled, forwarded, alive>>

Stop ==
    /\ stream = "open"
    /\ stream' = "stopped"
    /\ UNCHANGED <<emitted, spoiled, forwarded, alive>>

Next == Emit \/ Spoil \/ Forward \/ Die \/ End \/ Stop

Spec == Init /\ [][Next]_vars
=============================================================================
