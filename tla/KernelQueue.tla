---------------------------- MODULE KernelQueue ----------------------------
(***************************************************************************)
(* kernel_message_queue (util/critical-queue.hpp) between its posters and  *)
(* the kernel thread's loop at the end of Kernel::run (main.cpp).          *)
(*                                                                         *)
(* Posters are interrupt handlers, and threads that post with interrupts   *)
(* off: on the boot processor a post is one step that may fall between any *)
(* two steps of the kernel thread.  The locks of the two buffers are left  *)
(* out: a post never waits for them (see SpinLock).                        *)
(***************************************************************************)
EXTENDS Naturals, Sequences, Functions

CONSTANT Messages   \* posted messages; one that is handled may be posted anew

VARIABLES
  buffer,    \* CriticalQueue::buffer[0..1]
  flip,      \* index of the buffer that is pushed to
  is_empty,
  pc,        \* position of the kernel thread in swap() and in its loop
  next,      \* index of the message the loop handles next
  asleep     \* the kernel thread is out of the run queue

vars == <<buffer, flip, is_empty, pc, next, asleep>>

\* The messages posted and not handled, oldest first.  The buffer that was
\* swapped out counts from the flip until its last message is handled.
Unhandled ==
  IF pc \in {"mark", "access", "handle"}
  THEN SubSeq(buffer[1 - flip], next, Len(buffer[1 - flip])) \o buffer[flip]
  ELSE buffer[flip]

Init ==
  /\ buffer = [i \in {0, 1} |-> <<>>]
  /\ flip = 0
  /\ is_empty = TRUE
  /\ pc = "clear"
  /\ next = 1
  /\ asleep = FALSE

\* CriticalQueue::push
push(m) ==
  /\ buffer' = [buffer EXCEPT ![flip] = Append(@, m)]
  /\ is_empty' = FALSE

\* post_kernel_message: the kernel thread is woken, unless the interrupted code
\* holds the process manager's lock (try_aquire)
post_kernel_message(m, locked) ==
  /\ m \notin Range(Unhandled)
  /\ push(m)
  /\ asleep' = (asleep /\ locked)
  /\ UNCHANGED <<flip, pc, next>>

\* A tick that gets the lock: check_message_queue_and_wakeup_kernel
check_message_queue ==
  /\ asleep /\ ~is_empty
  /\ asleep' = FALSE
  /\ UNCHANGED <<buffer, flip, is_empty, pc, next>>

-----------------------------------------------------------------------------
(* The kernel thread.                                                      *)

\* Deliberately wrong: clears the buffer that is being filled.
swap_clear_filled ==
  /\ ~asleep /\ pc = "clear"
  /\ buffer' = [buffer EXCEPT ![flip] = <<>>]
  /\ pc' = "flip"
  /\ UNCHANGED <<flip, is_empty, next, asleep>>

\* buffer[!flip].unsafe_access().clear()
swap_clear ==
  /\ ~asleep /\ pc = "clear"
  /\ buffer' = [buffer EXCEPT ![1 - flip] = <<>>]
  /\ pc' = "flip"
  /\ UNCHANGED <<flip, is_empty, next, asleep>>

\* flip ^= 1
swap_flip ==
  /\ ~asleep /\ pc = "flip"
  /\ flip' = 1 - flip
  /\ pc' = "mark"
  /\ next' = 1
  /\ UNCHANGED <<buffer, is_empty, asleep>>

\* is_empty = true
swap_mark ==
  /\ ~asleep /\ pc = "mark"
  /\ is_empty' = TRUE
  /\ pc' = "access"
  /\ UNCHANGED <<buffer, flip, next, asleep>>

\* Deliberately wrong: the flag is set last.
swap_access_late ==
  /\ ~asleep /\ pc = "access"
  /\ is_empty' = TRUE
  /\ pc' = IF buffer[1 - flip] = <<>> THEN "sleep" ELSE "handle"
  /\ UNCHANGED <<buffer, flip, next, asleep>>

\* The batch is returned; the loop sleeps when it is empty.
swap_access ==
  /\ ~asleep /\ pc = "access"
  /\ pc' = IF buffer[1 - flip] = <<>> THEN "sleep" ELSE "handle"
  /\ UNCHANGED <<buffer, flip, is_empty, next, asleep>>

\* One turn of the loop over the batch; the handlers of the message types are
\* not modelled here.
handle ==
  /\ ~asleep /\ pc = "handle"
  /\ next' = next + 1
  /\ pc' = IF next = Len(buffer[1 - flip]) THEN "clear" ELSE "handle"
  /\ UNCHANGED <<buffer, flip, is_empty, asleep>>

\* sleep_this_thread; the loop starts again when the thread is woken
sleep_this_thread ==
  /\ ~asleep /\ pc = "sleep"
  /\ asleep' = TRUE
  /\ pc' = "clear"
  /\ UNCHANGED <<buffer, flip, is_empty, next>>

kernel_loop ==
  swap_clear \/ swap_flip \/ swap_mark \/ swap_access \/ handle \/ sleep_this_thread

Next ==
  \/ \E m \in Messages, locked \in BOOLEAN : post_kernel_message(m, locked)
  \/ check_message_queue
  \/ kernel_loop

Spec == Init /\ [][Next]_vars

\* Ticks go on, some of them find the lock free, and the kernel thread is
\* scheduled while it is in the run queue.
Fairness == WF_vars(check_message_queue) /\ WF_vars(kernel_loop)

FairSpec == Spec /\ Fairness

-----------------------------------------------------------------------------
(* Properties.                                                             *)

\* Every variable keeps its type.
TypeOK ==
  /\ buffer \in [{0, 1} -> Seq(Messages)]
  /\ flip \in {0, 1}
  /\ is_empty \in BOOLEAN
  /\ pc \in {"clear", "flip", "mark", "access", "handle", "sleep"}
  /\ next \in Nat \ {0}
  /\ asleep \in BOOLEAN

\* The double buffer loses, repeats and reorders nothing, wherever posts fall
\* between clear, flip and mark: the loop handles what was posted, first in
\* first out.
Fifo == INSTANCE MessageFifo WITH pending <- Unhandled
HandledInOrder == Fifo!Spec

\* Every message that is pending at a moment when is_empty is clear is handled
\* in the end without any later post, unless that moment is between
\* `flip ^= 1` and `is_empty = true` (pc "mark").  (A message pushed in that
\* window is left behind with is_empty set when the batch swapped out was
\* empty: it is handled after the next post, which clears is_empty again.)
DeliveredOutsideWindow ==
  \A m \in Messages :
    (m \in Range(Unhandled) /\ ~is_empty /\ pc # "mark") ~> m \notin Range(Unhandled)
=============================================================================
