-------------------------------- MODULE Mutex --------------------------------
(***************************************************************************)
(* Mutex (mutex.hpp): a flag and an event of the process manager.          *)
(*                                                                         *)
(* wait_event registers the thread and puts it to sleep under the          *)
(* manager's lock, notify_event empties the event's list and wakes all     *)
(* threads on it: one step each.  Between the operations on the flag and   *)
(* these calls a thread can be preempted.                                  *)
(***************************************************************************)
CONSTANT Threads

VARIABLES
  flag,      \* Mutex::flag
  pc,        \* position of each thread
  waiters,   \* the list of the mutex's event
  missed     \* history: notified between its failed test and its wait_event

vars == <<flag, pc, waiters, missed>>

Init ==
  /\ flag = FALSE
  /\ pc = [t \in Threads |-> "idle"]
  /\ waiters = {}
  /\ missed = [t \in Threads |-> FALSE]

aquire(t) ==
  /\ pc[t] = "idle"
  /\ pc' = [pc EXCEPT ![t] = "test"]
  /\ UNCHANGED <<flag, waiters, missed>>

\* The condition of the loop of aquire.
test_and_set(t) ==
  /\ pc[t] = "test"
  /\ flag' = TRUE
  /\ pc' = [pc EXCEPT ![t] = IF flag THEN "wait" ELSE "in"]
  /\ missed' = [missed EXCEPT ![t] = FALSE]
  /\ UNCHANGED waiters

wait_event(t) ==
  /\ pc[t] = "wait"
  /\ pc' = [pc EXCEPT ![t] = "asleep"]
  /\ waiters' = waiters \cup {t}
  /\ UNCHANGED <<flag, missed>>

\* The thread is woken by something else (a message for the kernel thread, an
\* event it is still registered with) and stays on the list.
wakeup_thread(t) ==
  /\ pc[t] = "asleep"
  /\ pc' = [pc EXCEPT ![t] = "test"]
  /\ UNCHANGED <<flag, waiters, missed>>

try_aquire(t) ==
  /\ pc[t] = "idle"
  /\ flag' = TRUE
  /\ pc' = [pc EXCEPT ![t] = IF flag THEN "idle" ELSE "in"]
  /\ UNCHANGED <<waiters, missed>>

\* flag.clear()
release(t) ==
  /\ pc[t] = "in"
  /\ flag' = FALSE
  /\ pc' = [pc EXCEPT ![t] = "notify"]
  /\ UNCHANGED <<waiters, missed>>

\* Deliberately wrong: wakes one thread only.
notify_event_one(t) ==
  /\ pc[t] = "notify"
  /\ \E w \in SUBSET waiters :
       /\ w = {} <=> waiters = {}
       /\ \A u, v \in w : u = v
       /\ pc' = [u \in Threads |-> IF u = t THEN "idle"
                                   ELSE IF u \in w /\ pc[u] = "asleep" THEN "test" ELSE pc[u]]
       /\ waiters' = waiters \ w
  /\ missed' = [u \in Threads |-> missed[u] \/ pc[u] = "wait"]
  /\ UNCHANGED flag

notify_event(t) ==
  /\ pc[t] = "notify"
  /\ pc' = [u \in Threads |-> IF u = t THEN "idle"
                              ELSE IF u \in waiters /\ pc[u] = "asleep" THEN "test" ELSE pc[u]]
  /\ waiters' = {}
  /\ missed' = [u \in Threads |-> missed[u] \/ pc[u] = "wait"]
  /\ UNCHANGED flag

\* The rest of a call once it has begun, and the end of a critical section.
proceed(t) ==
  test_and_set(t) \/ wait_event(t) \/ release(t) \/ notify_event(t)

Next ==
  \E t \in Threads : aquire(t) \/ try_aquire(t) \/ wakeup_thread(t) \/ proceed(t)

Spec == Init /\ [][Next]_vars

\* Threads in the run queue are scheduled, and no critical section lasts for
\* ever.
FairSpec == Spec /\ \A t \in Threads : WF_vars(proceed(t))

-----------------------------------------------------------------------------
(* Properties.                                                             *)

\* Every variable keeps its type, and who sleeps in aquire is on the list.
TypeOK ==
  /\ flag \in BOOLEAN
  /\ pc \in [Threads -> {"idle", "test", "wait", "asleep", "in", "notify"}]
  /\ waiters \subseteq Threads
  /\ missed \in [Threads -> BOOLEAN]
  /\ \A t \in Threads : pc[t] = "asleep" => t \in waiters

\* aquire and try_aquire let one thread in at a time.
MutualExclusion ==
  \A t, u \in Threads : pc[t] = "in" /\ pc[u] = "in" => t = u

\* A thread sleeps in aquire only while the mutex is held or about to be
\* notified.  The one exception: the notification came after the thread's
\* test_and_set failed and before its wait_event; it then sleeps on a mutex that
\* may be free, until somebody else has aquired and released it.
SleepJustified ==
  \A t \in Threads :
    pc[t] = "asleep" /\ ~missed[t] => flag \/ \E u \in Threads : pc[u] = "notify"

\* Every release wakes all sleepers, also those that missed an earlier one.
WokenByRelease ==
  \A t \in Threads :
    (pc[t] = "asleep" /\ (flag \/ \E u \in Threads : pc[u] = "notify")) ~> pc[t] # "asleep"
=============================================================================
