---------------------------- MODULE MessageFifo ----------------------------
(***************************************************************************)
(* What the kernel message queue promises: messages are handled one at a   *)
(* time, in the order in which they were posted, each exactly once.        *)
(***************************************************************************)
EXTENDS Sequences

CONSTANT Messages

VARIABLE pending   \* posted and not yet handled, oldest first

Init == pending = <<>>

Post == \E m \in Messages : pending' = Append(pending, m)

Handle == pending # <<>> /\ pending' = Tail(pending)

Next == Post \/ Handle

Spec == Init /\ [][Next]_pending
=============================================================================
