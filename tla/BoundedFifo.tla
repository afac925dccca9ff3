----------------------------- MODULE BoundedFifo -----------------------------
(***************************************************************************)
(* What a message buffer promises: a first-in first-out queue that refuses *)
(* a message when it is full.  out is what the reader was last given.      *)
(***************************************************************************)
EXTENDS Naturals, Sequences

CONSTANTS Size, Message

VARIABLES queue, out

vars == <<queue, out>>

Init == queue = <<>> /\ out \in Message

Put(m) == Len(queue) < Size /\ queue' = Append(queue, m) /\ UNCHANGED out

Get == queue # <<>> /\ out' = Head(queue) /\ queue' = Tail(queue)

Clear == queue' = <<>> /\ UNCHANGED out

Next == (\E m \in Message : Put(m)) \/ Get \/ Clear

Spec == Init /\ [][Next]_vars
=============================================================================
