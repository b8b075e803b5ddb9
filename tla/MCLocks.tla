------------------------------- MODULE MCLocks -------------------------------
(***************************************************************************)
(* What threads wait for, for TLC: SpinLock on one processor, Mutex, and   *)
(* the kernel's message queue.  They share no state: a behaviour is one of *)
(* either.                                                                 *)
(***************************************************************************)
EXTENDS SpinLock

CONSTANTS boot, t1, t2, t3, m1, m2, m3

OneProcessor == {boot}
AllOnBoot == [t \in {t1, t2, t3} |-> boot]

VARIABLES
  part,
  m_flag, m_pc, waiters, missed,
  buffer, flip, is_empty, k_pc, next, asleep

M == INSTANCE Mutex WITH flag <- m_flag, pc <- m_pc
K == INSTANCE KernelQueue WITH Messages <- {m1, m2, m3}, pc <- k_pc

mutex == <<m_flag, m_pc, waiters, missed>>
queue == <<buffer, flip, is_empty, k_pc, next, asleep>>
all == <<part, vars, mutex, queue>>

Spin == part = "spin" /\ UNCHANGED <<part, mutex, queue>>
Sleep == part = "mutex" /\ UNCHANGED <<part, vars, queue>>
Queue == part = "queue" /\ UNCHANGED <<part, vars, mutex>>

LocksInit ==
  /\ Init /\ M!Init /\ K!Init
  /\ part \in {"spin", "mutex", "queue"}

LocksNext ==
  \/ Spin /\ Next
  \/ Sleep /\ M!Next
  \/ Queue /\ (K!Next \/ UNCHANGED queue)    \* or a tick with nothing to do

\* The fairness of the components.
LocksSpec ==
  /\ LocksInit /\ [][LocksNext]_all
  /\ \A t \in Threads : /\ SF_all(Spin /\ compare_exchange(t))
                        /\ SF_all(Spin /\ release(t))
                        /\ WF_all(Sleep /\ M!proceed(t))
  /\ \A p \in Processors : /\ SF_all(Spin /\ try_aquire(p))
                           /\ \A t \in Threads : SF_all(Spin /\ restore_context(p, t))
  /\ WF_all(Queue /\ K!check_message_queue)
  /\ WF_all(Queue /\ K!kernel_loop)

-----------------------------------------------------------------------------
\* No thread stays in SpinLock::aquire.  Mutex::aquire lets one thread in at a
\* time, a thread sleeps there only while the mutex is held or about to be
\* notified, unless a notification fell between its test_and_set and wait_event,
\* and release wakes all sleepers.
AquireServed ==
  /\ AquireReturns
  /\ [](M!MutualExclusion /\ M!SleepJustified)
  /\ M!WokenByRelease

\* The double buffer of the kernel's messages is a first-in first-out queue.
HandledInOrder == K!HandledInOrder

\* A message is handled without a later post, unless it came in the window
\* between `flip ^= 1` and `is_empty = true`.
DeliveredOutsideWindow == K!DeliveredOutsideWindow
=============================================================================
