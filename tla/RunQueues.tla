----------------------------- MODULE RunQueues -----------------------------
(***************************************************************************)
(* The run queues of several processors (process/manager.hpp): waking,     *)
(* sleeping and switching threads, each call under the manager's lock, and *)
(* migrate_threads, whose loop is followed turn by turn.  ProcessManager   *)
(* has the queue of one processor, with all that happens around it.        *)
(*                                                                         *)
(* The kernel only ever puts the calling thread to sleep.  All threads     *)
(* have the same nice (the public wakeup_thread does not pass its argument *)
(* on), so each processor has one queue.  The kernel thread, which is not  *)
(* movable either, and suspension are left out.                            *)
(***************************************************************************)
EXTENDS Integers, Sequences, FiniteSets

CONSTANTS
  Count,     \* processors are 0..Count - 1; each has an idle thread, which has
             \* its number and is not movable
  Workers    \* the movable threads, numbers from Count on

Processors == 0..Count - 1
Threads == Processors \cup Workers
movable(t) == t \in Workers
none == -1     \* invalid_processor_number, nullptr

VARIABLES
  run_queue, this_thread,    \* per processor
  running_on,                \* per thread
  pc,                        \* migrate_threads: "loop", "done"; else "free"
  i, thread, exit, num       \* and its locals

queues == <<run_queue, this_thread, running_on>>
migration == <<pc, i, thread, exit, num>>
vars == <<queues, migration>>

erase(q, t) == SelectSeq(q, LAMBDA u : u # t)

Init ==
  /\ run_queue = [p \in Processors |-> <<p>>]
  /\ this_thread = [p \in Processors |-> p]
  /\ running_on = [t \in Threads |-> IF t \in Processors THEN t ELSE none]
  /\ pc = "free" /\ i = 0 /\ thread = none /\ exit = FALSE
  /\ num = [p \in Processors |-> 0]

-----------------------------------------------------------------------------
(* Calls on processor p.                                                   *)

wakeup_thread(p, t) ==
  /\ pc = "free" /\ running_on[t] = none
  /\ running_on' = [running_on EXCEPT ![t] = p]
  /\ run_queue' = [run_queue EXCEPT ![p] = Append(@, t)]
  /\ UNCHANGED <<this_thread, migration>>

\* update_this_thread: the current thread goes to the end, unless it sleeps
Updated(p, on) ==
  LET rest == erase(run_queue[p], this_thread[p])
      q == IF on[this_thread[p]] = none THEN rest ELSE Append(rest, this_thread[p])
  IN  /\ run_queue' = [run_queue EXCEPT ![p] = q]
      /\ this_thread' = [this_thread EXCEPT ![p] = q[1]]

switch_thread(p) ==
  /\ pc = "free"
  /\ Updated(p, running_on)
  /\ UNCHANGED <<running_on, migration>>

sleep_this_thread(p) ==
  /\ pc = "free" /\ movable(this_thread[p])
  /\ running_on' = [running_on EXCEPT ![this_thread[p]] = none]
  /\ Updated(p, running_on')
  /\ UNCHANGED migration

-----------------------------------------------------------------------------
(* migrate_threads, on the first processor.                                *)

RECURSIVE Total(_)
Total(p) == IF p < 0 THEN 0 ELSE Len(run_queue[p]) + Total(p - 1)

\* The counts; total is what they add up to until the end of the call
migrate_threads ==
  /\ pc = "free"
  /\ num' = [p \in Processors |-> Len(run_queue[p])]
  /\ pc' = "loop" /\ i' = 0 /\ thread' = none /\ exit' = TRUE
  /\ UNCHANGED queues

total_threads == Total(Count - 1) + IF thread = none THEN 0 ELSE 1
average == total_threads \div Count
mod == total_threads - average * Count
threshold(p) == IF p < mod THEN average + 1 ELSE average

Candidates(p) == {n \in DOMAIN run_queue[p] :
  movable(run_queue[p][n]) /\ run_queue[p][n] # this_thread[p]}

\* Deliberately wrong: also takes the thread the processor executes.
take_current ==
  LET at == {n \in DOMAIN run_queue[i] : movable(run_queue[i][n])} IN
  /\ thread = none
  /\ IF num[i] < threshold(i) \/ at = {}
     THEN UNCHANGED <<thread, run_queue, num, exit>>
     ELSE LET t == run_queue[i][CHOOSE n \in at : \A m \in at : n <= m] IN
          /\ thread' = t /\ run_queue' = [run_queue EXCEPT ![i] = erase(@, t)]
          /\ num' = [num EXCEPT ![i] = @ - 1] /\ exit' = FALSE
  /\ UNCHANGED running_on

\* No thread in hand: take one from a processor that has its share
take ==
  LET at == Candidates(i) IN
  /\ thread = none
  /\ IF num[i] < threshold(i) \/ at = {}
     THEN UNCHANGED <<thread, run_queue, num, exit>>
     ELSE LET t == run_queue[i][CHOOSE n \in at : \A m \in at : n <= m] IN
          /\ thread' = t /\ run_queue' = [run_queue EXCEPT ![i] = erase(@, t)]
          /\ num' = [num EXCEPT ![i] = @ - 1] /\ exit' = FALSE
  /\ UNCHANGED running_on

\* A thread in hand: give it to a processor that is below its share
put ==
  /\ thread # none
  /\ IF num[i] >= threshold(i) THEN UNCHANGED <<thread, run_queue, num, running_on>>
     ELSE /\ running_on' = [running_on EXCEPT ![thread] = i]
          /\ run_queue' = [run_queue EXCEPT ![i] = Append(@, thread)]
          /\ thread' = none /\ num' = [num EXCEPT ![i] = @ + 1]
  /\ UNCHANGED exit

\* A turn of the loop over the processors
migrate_threads_turn ==
  /\ pc = "loop" /\ i < Count
  /\ take \/ put
  /\ i' = i + 1
  /\ UNCHANGED <<this_thread, pc>>

\* Deliberately wrong: goto loop as long as a thread is in hand or was taken.
migrate_threads_loop_on ==
  /\ pc = "loop" /\ i = Count
  /\ pc' = IF \A p \in Processors : Candidates(p) = {} THEN "done" ELSE "loop"
  /\ i' = 0 /\ exit' = TRUE
  /\ UNCHANGED <<queues, thread, num>>

\* goto loop, unless nothing was taken
migrate_threads_loop ==
  /\ pc = "loop" /\ i = Count
  /\ pc' = IF exit THEN "done" ELSE "loop"
  /\ i' = 0 /\ exit' = TRUE
  /\ UNCHANGED <<queues, thread, num>>

migrate_threads_return ==
  /\ pc = "done"
  /\ pc' = "free"
  /\ UNCHANGED <<queues, i, thread, exit, num>>

Migrate == migrate_threads_turn \/ migrate_threads_loop \/ migrate_threads_return

Next ==
  \/ \E p \in Processors, t \in Workers : wakeup_thread(p, t)
  \/ \E p \in Processors : switch_thread(p) \/ sleep_this_thread(p)
  \/ migrate_threads
  \/ Migrate

Spec == Init /\ [][Next]_vars

\* The handler that migrates threads runs with interrupts disabled.
FairSpec == Spec /\ WF_vars(Migrate)

-----------------------------------------------------------------------------
(* Properties.                                                             *)

Share(p) == LET total == Total(Count - 1) IN
            total \div Count + IF p < total % Count THEN 1 ELSE 0

\* Between calls, and when migrate_threads is done, every thread that is to run
\* is in the queue of the processor it is said to run on, once, and in no other,
\* and processors execute threads of their own queues.  migrate_threads leaves
\* a processor more than its share only of threads it cannot give away.
QueuesInOrder ==
  /\ pc # "loop" =>
       /\ \A t \in Threads, p \in Processors :
            Cardinality({n \in DOMAIN run_queue[p] : run_queue[p][n] = t})
              = IF running_on[t] = p THEN 1 ELSE 0
       /\ \A p \in Processors : running_on[this_thread[p]] = p
  /\ pc = "done" =>
       \A p \in Processors : Len(run_queue[p]) > Share(p) => Candidates(p) = {}

\* migrate_threads returns, whatever it has to move and cannot.
MigrationEnds == []<>(pc = "free")
=============================================================================
