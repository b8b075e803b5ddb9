------------------------------ MODULE SpinLock ------------------------------
(***************************************************************************)
(* spinlock::SpinLock (util/spinlock.hpp) as the process manager uses it:  *)
(* threads take it with an AutoMutex, the timer tick takes it with         *)
(* try_aquire and may switch threads, and a thread that switches           *)
(* voluntarily leaves its AutoMutex behind: switch_context clears the flag,*)
(* and when the thread runs again the AutoMutex clears it once more.       *)
(*                                                                         *)
(* With one processor this module justifies what ProcessManager assumes:   *)
(* a section under the lock is never interleaved with another one.         *)
(***************************************************************************)
EXTENDS Integers

CONSTANTS
  Processors,
  Threads,
  Home         \* the processor a thread runs on

ASSUME HomeAssumption == Home \in [Threads -> Processors]

VARIABLES
  flag,        \* SpinLock::flag
  pc,          \* "out", "cas" (in aquire), "in" (holds the lock), "away"
               \* (switched out inside its section)
  expected,    \* the local variable of aquire
  this_thread, \* per processor
  handler      \* per processor: the tick handler is in its section

vars == <<flag, pc, expected, this_thread, handler>>

Running(t) == this_thread[Home[t]] = t /\ ~handler[Home[t]]

Init ==
  /\ flag = 0
  /\ pc = [t \in Threads |-> "out"]
  /\ expected = [t \in Threads |-> 0]
  /\ this_thread \in [Processors -> Threads]
  /\ \A p \in Processors : Home[this_thread[p]] = p
  /\ handler = [p \in Processors |-> FALSE]

\* aquire: the local variable is set once, before the loop
aquire(t) ==
  /\ Running(t) /\ pc[t] = "out"
  /\ pc' = [pc EXCEPT ![t] = "cas"]
  /\ expected' = [expected EXCEPT ![t] = 0]
  /\ UNCHANGED <<flag, this_thread, handler>>

\* Deliberately wrong: stores 0.
compare_exchange_0(t) ==
  /\ Running(t) /\ pc[t] = "cas"
  /\ flag' = 0
  /\ pc' = [pc EXCEPT ![t] = "in"]
  /\ UNCHANGED <<expected, this_thread, handler>>

\* compare_exchange_weak(expected, 1): a failure stores the flag in expected
compare_exchange(t) ==
  /\ Running(t) /\ pc[t] = "cas"
  /\ IF flag = expected[t]
     THEN /\ flag' = 1
          /\ pc' = [pc EXCEPT ![t] = "in"]
          /\ UNCHANGED expected
     ELSE /\ expected' = [expected EXCEPT ![t] = flag]
          /\ UNCHANGED <<flag, pc>>
  /\ UNCHANGED <<this_thread, handler>>

\* ~AutoMutex, at the end of a section or on return from switch_context
release(t) ==
  /\ Running(t) /\ pc[t] \in {"in", "away"}
  /\ flag' = 0
  /\ pc' = [pc EXCEPT ![t] = "out"]
  /\ UNCHANGED <<expected, this_thread, handler>>

\* The end of Manager::switch_thread: switch_context clears the flag and
\* continues another thread
switch_context(t, next) ==
  /\ Running(t) /\ pc[t] = "in" /\ next # t /\ Home[next] = Home[t]
  /\ flag' = 0
  /\ pc' = [pc EXCEPT ![t] = "away"]
  /\ this_thread' = [this_thread EXCEPT ![Home[t]] = next]
  /\ UNCHANGED <<expected, handler>>

\* switch_thread_may_fail: a tick that finds the flag set changes nothing
try_aquire(p) ==
  /\ ~handler[p] /\ flag = 0
  /\ flag' = 1
  /\ handler' = [handler EXCEPT ![p] = TRUE]
  /\ UNCHANGED <<pc, expected, this_thread>>

\* lock.release() and restore_context of the chosen thread
restore_context(p, next) ==
  /\ handler[p] /\ Home[next] = p
  /\ flag' = 0
  /\ handler' = [handler EXCEPT ![p] = FALSE]
  /\ this_thread' = [this_thread EXCEPT ![p] = next]
  /\ UNCHANGED <<pc, expected>>

Next ==
  \/ \E t \in Threads : aquire(t) \/ compare_exchange(t) \/ release(t)
  \/ \E t, next \in Threads : switch_context(t, next)
  \/ \E p \in Processors : try_aquire(p) \/ \E next \in Threads : restore_context(p, next)

Spec == Init /\ [][Next]_vars

\* Code that runs gets on, not every tick falls into a section, and every
\* thread is scheduled again.
Fairness ==
  /\ \A t \in Threads : SF_vars(compare_exchange(t)) /\ SF_vars(release(t))
  /\ \A p \in Processors : SF_vars(try_aquire(p))
  /\ \A p \in Processors, next \in Threads : SF_vars(restore_context(p, next))

FairSpec == Spec /\ Fairness

-----------------------------------------------------------------------------
(* Properties.                                                             *)

\* Every variable keeps its type.
TypeOK ==
  /\ flag \in {0, 1}
  /\ pc \in [Threads -> {"out", "cas", "in", "away"}]
  /\ expected \in [Threads -> {0, 1}]
  /\ this_thread \in [Processors -> Threads]
  /\ handler \in [Processors -> BOOLEAN]

\* Two sections under the lock never overlap: neither those of two threads nor
\* one of a thread and one of a tick handler.
MutualExclusion ==
  /\ \A t, u \in Threads : pc[t] = "in" /\ pc[u] = "in" => t = u
  /\ \A p, q \in Processors : handler[p] /\ handler[q] => p = q
  /\ \A t \in Threads, p \in Processors : ~(pc[t] = "in" /\ handler[p])

\* The flag is set exactly while someone is inside, although ~AutoMutex clears
\* it a second time after a voluntary switch.
FlagExact ==
  flag = 1 <=> (\E t \in Threads : pc[t] = "in") \/ (\E p \in Processors : handler[p])

\* No thread stays in aquire: it gets the lock.
AquireReturns == \A t \in Threads : []<>(pc[t] # "cas")
=============================================================================
