----------------------------- MODULE SyncProofs ------------------------------
(***************************************************************************)
(* Components in which threads wait for each other.  On one processor the *)
(* spin lock excludes, for any number of threads: the flag is never set    *)
(* when a thread executes aquire's compare_exchange, so that the first     *)
(* attempt decides.  The others are instances: the mutex; the double-      *)
(* buffered message queue, which implements a FIFO queue for any set of    *)
(* messages and any placement of posts between the steps of swap(); and    *)
(* the disks, with the threads that wait for their commands.               *)
(***************************************************************************)
EXTENDS SpinLock, SequenceTheorems, FiniteSetTheorems, WellFoundedInduction, TLAPS

-----------------------------------------------------------------------------
(* The spin lock.                                                          *)

\* Whoever is inside is what the processor executes, and nobody starts an
\* attempt with another expectation than 0.
Inv ==
  /\ TypeOK
  /\ FlagExact
  /\ \A t \in Threads : pc[t] = "in" => Running(t)
  /\ \A t \in Threads : expected[t] = 0

LEMMA InitInv == Init => Inv
BY HomeAssumption DEF Init, Inv, TypeOK, FlagExact, Running

LEMMA InvNext ==
  ASSUME NEW cpu, Processors = {cpu}, Inv, [Next]_vars
  PROVE  Inv'
<1>0. \A t \in Threads : Home[t] = cpu
  BY HomeAssumption, Zenon
<1> USE DEF Inv, TypeOK, FlagExact, Running
<1>1. ASSUME NEW t \in Threads, aquire(t) PROVE Inv'
  BY <1>0, <1>1, Zenon DEF aquire
<1>2. ASSUME NEW t \in Threads, compare_exchange(t) PROVE Inv'
  <2>1. flag = 0 /\ expected[t] = 0
    BY <1>0, <1>2 DEF compare_exchange
  <2> QED BY <1>0, <1>2, <2>1 DEF compare_exchange
<1>3. ASSUME NEW t \in Threads, release(t) PROVE Inv'
  BY <1>0, <1>3 DEF release
<1>4. ASSUME NEW t \in Threads, NEW u \in Threads, switch_context(t, u) PROVE Inv'
  BY <1>0, <1>4 DEF switch_context
<1>5. ASSUME try_aquire(cpu) PROVE Inv'
  BY <1>0, <1>5 DEF try_aquire
<1>6. ASSUME NEW u \in Threads, restore_context(cpu, u) PROVE Inv'
  BY <1>0, <1>6 DEF restore_context
<1>7. CASE UNCHANGED vars
  BY <1>7, Zenon DEF vars
<1> QED BY <1>1, <1>2, <1>3, <1>4, <1>5, <1>6, <1>7, Zenon DEF Next

LEMMA InvExcludes ==
  ASSUME NEW cpu, Processors = {cpu}, Inv
  PROVE  MutualExclusion
BY HomeAssumption DEF Inv, MutualExclusion, Running

\* On one processor two sections under a SpinLock never overlap, neither those
\* of threads nor those of tick handlers: what ProcessManager takes for granted
\* when it makes such a section a single step.
THEOREM UniprocessorExclusion ==
  ASSUME NEW cpu, Processors = {cpu}
  PROVE  Spec => []MutualExclusion
BY InitInv, InvNext, InvExcludes, PTL DEF Spec

\* On one processor the flag is set exactly while someone is inside.
THEOREM UniprocessorFlag ==
  ASSUME NEW cpu, Processors = {cpu}
  PROVE  Spec => []FlagExact
<1>1. Inv => FlagExact
  BY Zenon DEF Inv
<1> QED BY <1>1, InitInv, InvNext, PTL DEF Spec

-----------------------------------------------------------------------------
(* The mutex.                                                              *)

VARIABLES m_flag, m_pc, waiters, missed

M == INSTANCE Mutex WITH flag <- m_flag, pc <- m_pc

\* Who is inside has set the flag.  A thread that found it set and was not
\* passed over by a notification is not yet asleep, or asleep, while the mutex is
\* held or about to be notified.
MutexInv ==
  /\ M!TypeOK
  /\ M!MutualExclusion
  /\ \A t \in Threads : m_pc[t] = "in" => m_flag
  /\ \A t \in Threads : m_pc[t] \in {"wait", "asleep"} /\ ~missed[t] =>
       m_flag \/ \E u \in Threads : m_pc[u] = "notify"

LEMMA MutexStep == MutexInv /\ [M!Next]_(M!vars) => MutexInv'
<1> SUFFICES ASSUME MutexInv, [M!Next]_(M!vars) PROVE MutexInv'
  BY Zenon
<1> USE DEF MutexInv, M!TypeOK, M!MutualExclusion
<1>1. ASSUME NEW t \in Threads, M!aquire(t) PROVE MutexInv'
  BY <1>1, Zenon DEF M!aquire
<1>2. ASSUME NEW t \in Threads, M!try_aquire(t) PROVE MutexInv'
  BY <1>2, Zenon DEF M!try_aquire
<1>3. ASSUME NEW t \in Threads, M!wakeup_thread(t) PROVE MutexInv'
  BY <1>3, Zenon DEF M!wakeup_thread
<1>4. ASSUME NEW t \in Threads, M!test_and_set(t) PROVE MutexInv'
  BY <1>4, Zenon DEF M!test_and_set
<1>5. ASSUME NEW t \in Threads, M!wait_event(t) PROVE MutexInv'
  BY <1>5, Zenon DEF M!wait_event
<1>6. ASSUME NEW t \in Threads, M!release(t) PROVE MutexInv'
  BY <1>6, Zenon DEF M!release
<1>7. ASSUME NEW t \in Threads, M!notify_event(t) PROVE MutexInv'
  BY <1>7, Zenon DEF M!notify_event
<1>8. CASE UNCHANGED M!vars
  BY <1>8, Zenon DEF M!vars
<1> QED BY <1>1, <1>2, <1>3, <1>4, <1>5, <1>6, <1>7, <1>8, Zenon DEF M!Next, M!proceed

\* For any number of threads: aquire and try_aquire let one thread in at a time,
\* and a thread sleeps in aquire on a free mutex only when a notification fell
\* between its failed test_and_set and its wait_event.
THEOREM MutexExcludes == M!Spec => [](M!MutualExclusion /\ M!SleepJustified)
<1>1. M!Init => MutexInv
  BY Zenon DEF M!Init, MutexInv, M!TypeOK, M!MutualExclusion
<1>2. MutexInv => M!MutualExclusion /\ M!SleepJustified
  BY Zenon DEF MutexInv, M!SleepJustified
<1> QED BY <1>1, <1>2, MutexStep, PTL DEF M!Spec

-----------------------------------------------------------------------------
(* The kernel's message queue.                                             *)

CONSTANT Messages
VARIABLES buffer, flip, is_empty, k_pc, next, asleep

K == INSTANCE KernelQueue WITH pc <- k_pc

\* What the kernel thread's position says about the buffer swapped out.
QueueInv ==
  /\ K!TypeOK
  /\ k_pc \in {"flip", "sleep"} => buffer[1 - flip] = <<>>
  /\ k_pc \in {"mark", "access"} => next = 1
  /\ k_pc = "handle" => next \in 1..Len(buffer[1 - flip])

LEMMA QueueInit == K!Init => QueueInv
<1> SUFFICES ASSUME K!Init PROVE QueueInv
  BY Zenon
<1>1. <<>> \in Seq(Messages)
  OBVIOUS
<1>2. buffer \in [{0, 1} -> Seq(Messages)]
  BY <1>1, Zenon DEF K!Init
<1> QED BY <1>2 DEF K!Init, QueueInv, K!TypeOK

\* The two buffers, one by one.
LEMMA Buffers ==
  ASSUME K!TypeOK
  PROVE  /\ flip \in {0, 1} /\ 1 - flip \in {0, 1} /\ flip # 1 - flip
         /\ buffer[flip] \in Seq(Messages) /\ buffer[1 - flip] \in Seq(Messages)
BY DEF K!TypeOK

LEMMA ConcatAppend ==
  ASSUME NEW S, NEW s \in Seq(S), NEW f \in Seq(S), NEW x \in S
  PROVE  s \o Append(f, x) = Append(s \o f, x)
OBVIOUS

LEMMA SuffixTail ==
  ASSUME NEW S, NEW s \in Seq(S), NEW f \in Seq(S), NEW n \in 1..Len(s)
  PROVE  /\ SubSeq(s, n, Len(s)) \o f # <<>>
         /\ Tail(SubSeq(s, n, Len(s)) \o f) = SubSeq(s, n + 1, Len(s)) \o f
<1> DEFINE a == SubSeq(s, n, Len(s))
           b == SubSeq(s, n + 1, Len(s))
<1>1. /\ a \in Seq(S) /\ Len(a) = Len(s) - n + 1
      /\ \A i \in 1..Len(a) : a[i] = s[n + i - 1]
  OBVIOUS
<1>2. /\ b \in Seq(S) /\ Len(b) = Len(s) - n
      /\ \A i \in 1..Len(b) : b[i] = s[n + i]
  BY SMTT(30)
<1> HIDE DEF a, b
<1>3. /\ a \o f \in Seq(S) /\ Len(a \o f) = Len(a) + Len(f)
      /\ \A i \in 1..Len(a) + Len(f) : (a \o f)[i] = IF i <= Len(a) THEN a[i] ELSE f[i - Len(a)]
  BY <1>1, ConcatProperties, Zenon
<1>4. /\ b \o f \in Seq(S) /\ Len(b \o f) = Len(b) + Len(f)
      /\ \A i \in 1..Len(b) + Len(f) : (b \o f)[i] = IF i <= Len(b) THEN b[i] ELSE f[i - Len(b)]
  BY <1>2, ConcatProperties, Zenon
<1>5. Len(f) \in Nat /\ Len(s) \in Nat /\ a \o f # <<>>
  <2>1. Len(f) \in Nat /\ Len(s) \in Nat OBVIOUS
  <2>2. Len(a \o f) > 0 BY <1>1, <1>3, <2>1
  <2> QED BY <2>1, <2>2
<1>6. /\ Tail(a \o f) \in Seq(S) /\ Len(Tail(a \o f)) = Len(b \o f)
      /\ \A i \in 1..Len(b \o f) : Tail(a \o f)[i] = (a \o f)[i + 1]
  <2>1. /\ Tail(a \o f) \in Seq(S) /\ Len(Tail(a \o f)) = Len(a \o f) - 1
        /\ \A i \in 1..Len(Tail(a \o f)) : Tail(a \o f)[i] = (a \o f)[i + 1]
    BY <1>3, <1>5, HeadTailProperties, ZenonT(60)
  <2>2. Len(b \o f) = Len(a \o f) - 1 BY <1>1, <1>2, <1>3, <1>4, <1>5, SMTT(30)
  <2> QED BY <2>1, <2>2, Zenon
<1>7. ASSUME NEW i \in 1..Len(b \o f) PROVE (a \o f)[i + 1] = (b \o f)[i]
  <2>1. i + 1 \in 1..Len(a) + Len(f) /\ i \in 1..Len(b) + Len(f) /\ Len(a) = Len(b) + 1
    BY <1>1, <1>2, <1>4, <1>5, SMTT(30)
  <2> i \in Int /\ n \in Int /\ Len(a) \in Nat /\ Len(b) \in Nat
    BY <1>1, <1>2, <2>1, <1>5
  <2>2. CASE i <= Len(b)
    <3>1. i + 1 \in 1..Len(a) /\ i + 1 <= Len(a) /\ n + (i + 1) - 1 = n + i /\ i \in 1..Len(b)
      BY <2>1, <2>2
    <3>2. (a \o f)[i + 1] = a[i + 1] BY <1>3, <2>1, <3>1, Zenon
    <3>3. a[i + 1] = s[n + i] BY <1>1, <3>1, Zenon
    <3>4. (b \o f)[i] = b[i] BY <1>4, <2>1, <2>2, Zenon
    <3>5. b[i] = s[n + i] BY <1>2, <3>1, Zenon
    <3> QED BY <3>2, <3>3, <3>4, <3>5, ZenonT(60)
  <2>3. CASE ~(i <= Len(b))
    <3>1. ~(i + 1 <= Len(a)) BY <2>1, <2>3
    <3>2. (i + 1) - Len(a) = i - Len(b) BY <2>1
    <3>3. (a \o f)[i + 1] = f[(i + 1) - Len(a)] BY <1>3, <2>1, <3>1, Zenon
    <3>4. (b \o f)[i] = f[i - Len(b)] BY <1>4, <2>1, <2>3, Zenon
    <3> QED BY <3>2, <3>3, <3>4, Zenon
  <2> QED BY <2>2, <2>3, Zenon
<1>8. Tail(a \o f) = b \o f
  BY <1>4, <1>6, <1>7, SeqEqual, Zenon
<1> QED BY <1>5, <1>8, Zenon DEF a, b

LEMMA SuffixEnds ==
  ASSUME NEW S, NEW s \in Seq(S), NEW f \in Seq(S)
  PROVE  /\ SubSeq(s, 1, Len(s)) = s
         /\ SubSeq(s, Len(s) + 1, Len(s)) \o f = f
         /\ <<>> \o f = f /\ s \o <<>> = s
OBVIOUS

\* Every step keeps QueueInv, and is a step or a stutter of the abstract queue.
LEMMA StepRefines ==
  ASSUME QueueInv, [K!Next]_(K!vars)
  PROVE  QueueInv' /\ [K!Fifo!Next]_(K!Unhandled)
<1> DEFINE f == buffer[flip]
           s == buffer[1 - flip]
<1> USE DEF QueueInv
<1>0. /\ flip \in {0, 1} /\ 1 - flip \in {0, 1} /\ flip # 1 - flip
      /\ f \in Seq(Messages) /\ s \in Seq(Messages)
  BY Buffers, Zenon
<1>1. ASSUME NEW m \in Messages, NEW locked \in BOOLEAN, K!post_kernel_message(m, locked)
      PROVE  QueueInv' /\ K!Fifo!Post
  <2>1. /\ buffer' = [buffer EXCEPT ![flip] = Append(@, m)] /\ is_empty' = FALSE
        /\ flip' = flip /\ k_pc' = k_pc /\ next' = next /\ asleep' = (asleep /\ locked)
    BY <1>1, Zenon DEF K!post_kernel_message, K!push
  <2>2. Append(f, m) \in Seq(Messages) /\ buffer \in [{0, 1} -> Seq(Messages)]
    BY <1>0 DEF K!TypeOK
  <2>3. /\ buffer' \in [{0, 1} -> Seq(Messages)]
        /\ buffer'[flip] = Append(f, m) /\ buffer'[1 - flip] = s
    BY <1>0, <2>1, <2>2, Zenon
  <2>4. asleep' \in BOOLEAN BY <2>1, Zenon DEF K!TypeOK
  <2>5. QueueInv' BY <2>1, <2>3, <2>4, Zenon DEF K!TypeOK
  <2>6. SubSeq(s, next, Len(s)) \in Seq(Messages)
    BY <1>0, SubSeqProperties, LenProperties DEF K!TypeOK
  <2>7. K!Unhandled' = Append(K!Unhandled, m)
    <3>1. SubSeq(s, next, Len(s)) \o Append(f, m) = Append(SubSeq(s, next, Len(s)) \o f, m)
      <4>1. \A u \in Seq(Messages), v \in Seq(Messages) :
              u \o Append(v, m) = Append(u \o v, m)
        BY ConcatAppend
      <4> QED BY <1>0, <2>6, <4>1, Zenon
    <3>2. CASE k_pc \in {"mark", "access", "handle"}
      <4>1. K!Unhandled = SubSeq(s, next, Len(s)) \o f BY <3>2, Zenon DEF K!Unhandled
      <4>2. K!Unhandled' = SubSeq(s, next, Len(s)) \o Append(f, m)
        BY <2>1, <2>3, <3>2, Zenon DEF K!Unhandled
      <4> QED BY <3>1, <4>1, <4>2, Zenon
    <3>3. CASE k_pc \notin {"mark", "access", "handle"}
      BY <2>1, <2>3, <3>3, Zenon DEF K!Unhandled
    <3> QED BY <3>2, <3>3, Zenon
  <2> QED BY <2>5, <2>7, Zenon DEF K!Fifo!Post
<1>2. CASE K!check_message_queue
  BY <1>2, Zenon DEF K!check_message_queue, K!TypeOK, K!Unhandled
<1>3. CASE K!swap_clear
  <2>1. <<>> \in Seq(Messages) OBVIOUS
  <2>2. /\ buffer' \in [{0, 1} -> Seq(Messages)]
        /\ buffer'[flip] = f /\ buffer'[1 - flip] = <<>>
    BY <1>0, <1>3, <2>1, Zenon DEF K!swap_clear, K!TypeOK
  <2> QED BY <1>3, <2>2, Zenon DEF K!swap_clear, K!TypeOK, K!Unhandled
<1>4. CASE K!swap_flip
  <2>1. flip' \in {0, 1} /\ 1 - flip' = flip /\ buffer' = buffer /\ next' = 1
    BY <1>0, <1>4 DEF K!swap_flip
  <2>2. QueueInv' BY <1>4, <2>1 DEF K!swap_flip, K!TypeOK
  <2>3. s = <<>> BY <1>4, Zenon DEF K!swap_flip
  <2>4. SubSeq(f, 1, Len(f)) \o s = f BY <1>0, <2>3
  <2>5. flip' = 1 - flip BY <1>4, Zenon DEF K!swap_flip
  <2>6. K!Unhandled' = SubSeq(f, 1, Len(f)) \o s BY <1>4, <2>1, <2>5, Zenon DEF K!swap_flip, K!Unhandled
  <2>7. K!Unhandled = f BY <1>4, Zenon DEF K!swap_flip, K!Unhandled
  <2> QED BY <2>2, <2>4, <2>6, <2>7, ZenonT(60)
<1>5. CASE K!swap_mark
  BY <1>5, Zenon DEF K!swap_mark, K!TypeOK, K!Unhandled
<1>6. CASE K!swap_access
  <2>1. next = 1 /\ buffer' = buffer /\ flip' = flip /\ next' = next
    BY <1>6, Zenon DEF K!swap_access
  <2>2. CASE s = <<>>
    <3>1. SubSeq(s, next, Len(s)) \o f = f BY <1>0, <2>1, <2>2
    <3> QED BY <1>6, <2>1, <2>2, <3>1, Zenon DEF K!swap_access, K!TypeOK, K!Unhandled
  <2>3. CASE s # <<>>
    <3>1. next \in 1..Len(s) BY <1>0, <2>1, <2>3, EmptySeq, LenProperties
    <3> QED BY <1>6, <2>1, <2>3, <3>1, Zenon DEF K!swap_access, K!TypeOK, K!Unhandled
  <2> QED BY <2>2, <2>3, Zenon
<1>7. CASE K!handle
  <2>1. /\ k_pc = "handle" /\ next \in 1..Len(s) /\ next' = next + 1
        /\ buffer' = buffer /\ flip' = flip /\ is_empty' = is_empty /\ asleep' = asleep
    BY <1>7, Zenon DEF K!handle
  <2>2. Len(s) \in Nat BY <1>0
  <2>3. /\ K!Unhandled # <<>>
        /\ Tail(K!Unhandled) = SubSeq(s, next + 1, Len(s)) \o f
    <3>1. K!Unhandled = SubSeq(s, next, Len(s)) \o f
      BY <2>1, Zenon DEF K!Unhandled
    <3>2. s \in Seq(Messages) /\ f \in Seq(Messages)
      BY <1>0, Zenon
    <3>3. /\ SubSeq(s, next, Len(s)) \o f # <<>>
          /\ Tail(SubSeq(s, next, Len(s)) \o f) = SubSeq(s, next + 1, Len(s)) \o f
      <4> HIDE DEF s, f
      <4> QED BY <2>1, <3>2, SuffixTail, Zenon
    <3> QED BY <3>1, <3>3, Zenon
  <2>4. CASE next = Len(s)
    <3>1. SubSeq(s, next + 1, Len(s)) = <<>> BY <1>0, <2>2, <2>4
    <3>2. k_pc' = "clear" BY <1>7, <2>4, Zenon DEF K!handle
    <3>3. K!Unhandled' = f BY <2>1, <3>2, Zenon DEF K!Unhandled
    <3>4. <<>> \o f = f BY <1>0
    <3>6. Tail(K!Unhandled) = <<>> \o f BY <2>3, <3>1, Zenon
    <3>7. K!Unhandled' = Tail(K!Unhandled) BY <3>3, <3>4, <3>6, Zenon
    <3>5. QueueInv' BY <2>1, <2>2, <3>2 DEF K!TypeOK
    <3> QED BY <2>3, <3>7, <3>5, Zenon DEF K!Fifo!Next, K!Fifo!Handle
  <2>5. CASE next # Len(s)
    <3>1. k_pc' = "handle" /\ next + 1 \in 1..Len(s) BY <1>7, <2>1, <2>2, <2>5 DEF K!handle
    <3>2. K!Unhandled' = SubSeq(s, next + 1, Len(s)) \o f BY <2>1, <3>1, Zenon DEF K!Unhandled
    <3>3. QueueInv' BY <2>1, <3>1 DEF K!TypeOK
    <3> QED BY <2>3, <3>2, <3>3, Zenon DEF K!Fifo!Next, K!Fifo!Handle
  <2> QED BY <2>4, <2>5, Zenon
<1>8. CASE K!sleep_this_thread
  BY <1>8, Zenon DEF K!sleep_this_thread, K!TypeOK, K!Unhandled
<1>9. CASE UNCHANGED K!vars
  BY <1>9, ZenonT(60) DEF K!vars, K!TypeOK, K!Unhandled
<1> QED
  BY <1>1, <1>2, <1>3, <1>4, <1>5, <1>6, <1>7, <1>8, <1>9, ZenonT(60) DEF K!Next, K!kernel_loop, K!Fifo!Next

\* Every variable of the queue keeps its type.
THEOREM QueueTypes == K!Spec => []K!TypeOK
<1>1. QueueInv => K!TypeOK
  BY Zenon DEF QueueInv
<1>2. QueueInv /\ [K!Next]_(K!vars) => QueueInv'
  BY StepRefines, Zenon
<1> QED BY QueueInit, <1>1, <1>2, PTL DEF K!Spec

\* push() and swap() lose, repeat and reorder no message: the queue implements
\* a FIFO queue for any set of messages.
THEOREM QueueIsFifo == K!Spec => K!HandledInOrder
<1>1. K!Init => K!Fifo!Init
  BY Zenon DEF K!Init, K!Fifo!Init, K!Unhandled
<1>2. QueueInv /\ [K!Next]_(K!vars) => QueueInv' /\ [K!Fifo!Next]_(K!Unhandled)
  BY StepRefines, Zenon
<1> QED BY QueueInit, <1>1, <1>2, PTL DEF K!Spec, K!HandledInOrder, K!Fifo!Spec
-----------------------------------------------------------------------------
(* The disks.                                                              *)

CONSTANTS NumDisks, NumSlots, Clients, MaxMessages
VARIABLES running, ci, tfes, is, messages, kernel, count, a_flag, registered, thread, slot,
          transferred, early, cleared, a_missed

A == INSTANCE Ahci WITH flag <- a_flag, missed <- a_missed

KernelPcs == {"idle", "slot", "identified", "notify", "wake finder", "wake client", "clear"}
ThreadPcs == {"idle", "run", "issue", "test", "wait", "asleep", "return", "count", "done"}
Waiting == {"test", "wait", "asleep"}

\* The kernel thread has found the command in the first slot complete and has
\* not yet cleared its operation.
Handling(d) == kernel.disk = d /\ kernel.slot = 0 /\ kernel.pc \notin {"idle", "slot"}

\* The disks whose IDENTIFY command is in count.
Counted == {d \in A!Disks : running[d][0] # "Identify" \/ Handling(d)}

DiskTypes ==
  /\ running \in [A!Disks -> [A!Slots -> {"None", "Identify", "Transfer"}]]
  /\ ci \in [A!Disks -> SUBSET A!Slots]
  /\ tfes \in [A!Disks -> BOOLEAN]
  /\ is \subseteq A!Disks
  /\ kernel \in [pc : KernelPcs, disk : Nat, slot : A!Slots, is : SUBSET A!Disks]
  /\ kernel.pc # "idle" => kernel.disk \in A!Disks
  /\ a_flag \in [A!Waiters -> BOOLEAN]
  /\ thread \in [A!Waiters -> ThreadPcs]
  /\ slot \in [A!Disks -> A!Slots]
  /\ transferred \in [A!Disks -> BOOLEAN]

\* Every disk is counted once, and clients wait for the finder.
IdentifyInv ==
  /\ count = Cardinality(Counted)
  /\ thread[A!Finder] = "done" => Counted = A!Disks
  /\ \A d \in A!Disks : thread[d] # "idle" => thread[A!Finder] = "done"
  /\ \A d \in A!Disks, s \in A!Slots : s # 0 => running[d][s] # "Identify"
  /\ \A d \in A!Disks : thread[d] = "issue" => running[d][slot[d]] # "Identify"
  /\ \A d \in Counted : tfes[d] \/ running[d][0] # "Identify" \/ 0 \notin ci[d]

\* A disk that has not failed, and of which no command was taken for complete
\* before it was issued, only ever uses its first slot.  What the kernel thread
\* is about to notify, or has notified, is the command the client waits for.
TransferInv(d) ==
  /\ slot[d] = 0 /\ ci[d] \subseteq {0}
  /\ \A s \in A!Slots : s # 0 => running[d][s] = "None"
  /\ 0 \in ci[d] /\ thread[d] \notin Waiting => d \notin Counted
  /\ thread[d] \in {"run", "issue"} => ~a_flag[d] /\ ~transferred[d]
  /\ thread[d] \in Waiting => 0 \in ci[d] \/ transferred[d]
  /\ thread[d] # "idle" /\ transferred[d] => 0 \notin ci[d]
  /\ a_flag[d] /\ thread[d] \in Waiting => transferred[d]
  /\ thread[d] = "return" => transferred[d]
  /\ running[d][0] = "Transfer" /\ ~Handling(d) => thread[d] \in Waiting \cup {"issue"} /\ ~a_flag[d]
  /\ kernel.pc = "notify" /\ kernel.disk = d =>
       kernel.slot = 0 /\ thread[d] \in Waiting /\ ~a_flag[d] /\ transferred[d]

Orderly(d) == ~tfes[d] /\ d \notin early

DiskInv ==
  /\ DiskTypes /\ IdentifyInv
  /\ \A d \in A!Disks : Orderly(d) => TransferInv(d)

DiskAssumption == NumDisks \in Nat /\ NumSlots \in Nat \ {0}

\* A nonempty set of natural numbers has a least element.
LEMMA LeastNat ==
  ASSUME NEW S \in SUBSET Nat, S # {}
  PROVE  A!Min(S) \in S /\ \A n \in S : A!Min(S) <= n
<1>1. IsWellFoundedOn(OpToRel(<, Nat), Nat)
  BY NatLessThanWellFounded, Zenon
<1>2. \E m \in S : \A n \in S : ~(<<n, m>> \in OpToRel(<, Nat))
  BY <1>1, WFMin, ZenonT(60)
<1>3. \A n, m \in Nat : <<n, m>> \in OpToRel(<, Nat) <=> n < m
  BY Zenon DEF OpToRel
<1>4. PICK m \in S : \A n \in S : ~(n < m)
  BY <1>2, <1>3, ZenonT(60)
<1>5. \A n \in S : m <= n
  BY <1>4
<1> QED BY <1>4, <1>5, ZenonT(60) DEF A!Min

LEMMA DiskFacts ==
  ASSUME DiskAssumption
  PROVE  /\ A!Disks \subseteq Nat /\ A!Slots \subseteq Nat /\ 0 \in A!Slots
         /\ A!Finder = 0 /\ A!Finder \notin A!Disks /\ A!Finder \in A!Waiters /\ A!Disks \subseteq A!Waiters
         /\ IsFiniteSet(A!Disks) /\ Cardinality(A!Disks) = NumDisks
<1>1. IsFiniteSet(1..NumDisks) /\ Cardinality(1..NumDisks) = NumDisks
  BY FS_Interval DEF DiskAssumption
<1> QED BY <1>1 DEF DiskAssumption, A!Disks, A!Slots, A!Finder, A!Waiters

\* The kernel thread goes on to another slot, or to its loop.
LEMMA AdvanceFacts ==
  ASSUME DiskAssumption, DiskTypes, kernel.pc # "idle", A!Advance
  PROVE  /\ kernel' \in [pc : KernelPcs, disk : Nat, slot : A!Slots, is : SUBSET A!Disks]
         /\ kernel'.pc \in {"idle", "slot"}
         /\ kernel'.pc # "idle" => kernel'.disk \in A!Disks
<1> DEFINE later == {d \in kernel.is : d > kernel.disk}
<1>1. later # {} => A!Min(later) \in A!Disks
  <2>1. later \subseteq A!Disks /\ later \subseteq Nat BY DiskFacts, ZenonT(60) DEF DiskTypes
  <2> QED BY <2>1, LeastNat, ZenonT(60)
<1> HIDE DEF later
<1>2. kernel' = IF kernel.slot + 1 \in A!Slots THEN [kernel EXCEPT !.pc = "slot", !.slot = @ + 1]
                ELSE IF later # {} THEN [kernel EXCEPT !.pc = "slot", !.disk = A!Min(later), !.slot = 0]
                ELSE [pc |-> "idle", disk |-> 1, slot |-> 0, is |-> {}]
  BY Zenon DEF A!Advance, later
<1> QED BY <1>1, <1>2, DiskFacts, ZenonT(60) DEF DiskTypes, KernelPcs

LEMMA DiskInit ==
  ASSUME DiskAssumption, A!Init
  PROVE  DiskInv
<1>1. DiskTypes
  BY DiskFacts, Zenon DEF A!Init, DiskTypes, KernelPcs, ThreadPcs
<1>2. Counted = {}
  BY DiskFacts, Zenon DEF A!Init, Counted, Handling
<1>3. IdentifyInv
  BY <1>2, DiskFacts, FS_EmptySet, ZenonT(60) DEF A!Init, IdentifyInv
<1>4. ASSUME NEW d \in A!Disks PROVE TransferInv(d)
  BY <1>2, DiskFacts, ZenonT(60) DEF A!Init, TransferInv, Waiting, Handling
<1> QED BY <1>1, <1>3, <1>4, ZenonT(60) DEF DiskInv

\* The device executes a command.
LEMMA CompleteStep ==
  ASSUME DiskAssumption, DiskInv, NEW d \in A!Disks, NEW s \in A!Slots, A!complete(d, s)
  PROVE  DiskInv'
<1>1. /\ UNCHANGED <<running, tfes, kernel, count, a_flag, thread, slot, early>>
      /\ s \in ci[d] /\ ~tfes[d] /\ ci' = [ci EXCEPT ![d] = @ \ {s}]
      /\ transferred' = [transferred EXCEPT ![d] = @ \/ (s = slot[d] /\ thread[d] # "idle")]
      /\ is' = is \cup {d}
  BY Zenon DEF A!complete, A!Interrupt, A!events
<1>2. DiskTypes'
  BY <1>1, Zenon DEF DiskInv, DiskTypes
<1>3. Counted' = Counted
  BY <1>1, ZenonT(60) DEF Counted, Handling
<1>4. IdentifyInv'
  BY <1>1, <1>3, DiskFacts, SMTT(30) DEF DiskInv, IdentifyInv, DiskTypes
<1>5. ASSUME NEW e \in A!Disks, Orderly(e)' PROVE TransferInv(e)'
  <2>1. TransferInv(e) /\ Orderly(e) BY <1>1, <1>5, ZenonT(60) DEF DiskInv, Orderly
  <2>2. CASE e # d
    <3>1. ci'[e] = ci[e] /\ transferred'[e] = transferred[e] BY <1>1, <2>2, ZenonT(60) DEF DiskInv, DiskTypes
    <3> QED BY <1>1, <1>3, <2>1, <3>1, ZenonT(60) DEF TransferInv, Handling
  <2>3. CASE e = d
    <3>1. s = 0 /\ slot[d] = 0 BY <1>1, <2>1, <2>3, ZenonT(60) DEF TransferInv
    <3>2. ci'[d] = {}
      BY <1>1, <2>1, <2>3, <3>1, SMTT(30) DEF DiskInv, DiskTypes, TransferInv
    <3>4. transferred'[d] <=> transferred[d] \/ thread[d] # "idle"
      BY <1>1, <3>1, ZenonT(60) DEF DiskInv, DiskTypes
    <3>3. thread[d] \notin {"run", "issue"}
      BY <1>1, <2>1, <2>3, <3>1, ZenonT(60) DEF DiskInv, IdentifyInv, TransferInv, Waiting
    <3> QED BY <1>1, <1>3, <2>1, <2>3, <3>1, <3>2, <3>3, <3>4, ZenonT(60) DEF TransferInv, Handling, Waiting
  <2> QED BY <2>2, <2>3, ZenonT(60)
<1> QED BY <1>2, <1>4, <1>5, ZenonT(60) DEF DiskInv

\* The device stops.
LEMMA FailStep ==
  ASSUME DiskAssumption, DiskInv, NEW d \in A!Disks, A!fail(d)
  PROVE  DiskInv'
<1>1. /\ UNCHANGED <<running, ci, kernel, count, a_flag, thread, slot, transferred, early>>
      /\ tfes' = [tfes EXCEPT ![d] = TRUE] /\ is' = is \cup {d}
  BY Zenon DEF A!fail, A!Interrupt, A!events
<1>2. DiskTypes'
  BY <1>1, Zenon DEF DiskInv, DiskTypes
<1>3. Counted' = Counted
  BY <1>1, ZenonT(60) DEF Counted, Handling
<1>4. \A e \in A!Disks : tfes[e] => tfes'[e]
  BY <1>1, ZenonT(60) DEF DiskInv, DiskTypes
<1>5. IdentifyInv'
  BY <1>1, <1>3, <1>4, ZenonT(60) DEF DiskInv, IdentifyInv, Counted
<1>6. ASSUME NEW e \in A!Disks, Orderly(e)' PROVE TransferInv(e)'
  <2>1. TransferInv(e) BY <1>1, <1>4, <1>6, ZenonT(60) DEF DiskInv, Orderly
  <2> QED BY <1>1, <1>3, <2>1, ZenonT(60) DEF TransferInv, Handling
<1> QED BY <1>2, <1>5, <1>6, ZenonT(60) DEF DiskInv

\* A client finds a slot.
LEMMA EmitStep ==
  ASSUME DiskAssumption, DiskInv, NEW d \in A!Disks, A!emit_h2d_command(d)
  PROVE  DiskInv'
<1> DEFINE free == A!Slots \ ci[d]
<1>1. /\ UNCHANGED <<running, ci, tfes, is, kernel, count, early>>
      /\ thread[d] = "idle" /\ thread[A!Finder] = "done" /\ free # {}
      /\ slot' = [slot EXCEPT ![d] = A!Min(free)]
      /\ a_flag' = [a_flag EXCEPT ![d] = FALSE]
      /\ transferred' = [transferred EXCEPT ![d] = FALSE]
      /\ thread' = [thread EXCEPT ![d] = "run"]
  BY Zenon DEF A!emit_h2d_command, A!port, A!Go
<1>2. A!Min(free) \in A!Slots /\ \A n \in free : A!Min(free) <= n
  <2>1. free \subseteq Nat BY DiskFacts, ZenonT(60)
  <2> QED BY <1>1, <2>1, LeastNat, ZenonT(60)
<1>3. DiskTypes'
  BY <1>1, <1>2, DiskFacts, ZenonT(60) DEF DiskInv, DiskTypes, ThreadPcs
<1>4. Counted' = Counted
  BY <1>1, ZenonT(60) DEF Counted, Handling
<1>5. /\ thread'[d] = "run" /\ ~a_flag'[d] /\ ~transferred'[d] /\ slot'[d] = A!Min(free)
      /\ \A e \in A!Waiters : e # d => thread'[e] = thread[e] /\ a_flag'[e] = a_flag[e]
      /\ \A e \in A!Disks : e # d => slot'[e] = slot[e] /\ transferred'[e] = transferred[e]
  BY <1>1, DiskFacts, ZenonT(60) DEF DiskInv, DiskTypes
<1>6. IdentifyInv'
  BY <1>1, <1>4, <1>5, DiskFacts, SMTT(30) DEF DiskInv, IdentifyInv
<1>7. ASSUME NEW e \in A!Disks, Orderly(e)' PROVE TransferInv(e)'
  <2>1. TransferInv(e) BY <1>1, <1>7, ZenonT(60) DEF DiskInv, Orderly
  <2>2. CASE e # d
    BY <1>1, <1>4, <1>5, <2>1, <2>2, DiskFacts, SMTT(30) DEF TransferInv, Handling
  <2>3. CASE e = d
    <3>1. 0 \notin ci[d]
      BY <1>1, <2>1, <2>3, ZenonT(60) DEF DiskInv, IdentifyInv, TransferInv, Waiting
    <3>2. 0 \in free /\ A!Min(free) = 0
      BY <1>2, <3>1, DiskFacts, SMTT(30)
    <3>3. kernel.pc # "notify" \/ kernel.disk # d
      BY <1>1, <2>1, <2>3, ZenonT(60) DEF TransferInv, Waiting
    <3>4. running[d][0] = "Transfer" => Handling(d)
      BY <1>1, <2>1, <2>3, ZenonT(60) DEF TransferInv, Waiting
    <3> QED BY <1>1, <1>4, <1>5, <2>1, <2>3, <3>1, <3>2, <3>3, <3>4, ZenonT(60) DEF TransferInv, Handling, Waiting
  <2> QED BY <2>2, <2>3, ZenonT(60)
<1> QED BY <1>3, <1>6, <1>7, ZenonT(60) DEF DiskInv

\* A client enters its operation.
LEMMA SetOperationStep ==
  ASSUME DiskAssumption, DiskInv, NEW d \in A!Disks, A!set_operation(d)
  PROVE  DiskInv'
<1>1. /\ UNCHANGED <<ci, tfes, is, kernel, count, a_flag, slot, transferred, early>>
      /\ thread[d] = "run" /\ thread' = [thread EXCEPT ![d] = "issue"]
      /\ running' = [running EXCEPT ![d][slot[d]] = "Transfer"]
  BY Zenon DEF A!set_operation, A!port, A!events, A!Go
<1>2. DiskTypes'
  BY <1>1, DiskFacts, ZenonT(60) DEF DiskInv, DiskTypes, ThreadPcs
<1>3. /\ thread'[d] = "issue" /\ \A w \in A!Waiters : w # d => thread'[w] = thread[w]
      /\ \A e \in A!Disks, s \in A!Slots :
           running'[e][s] = IF e = d /\ s = slot[d] THEN "Transfer" ELSE running[e][s]
  BY <1>1, DiskFacts, ZenonT(60) DEF DiskInv, DiskTypes
<1>4. Counted = A!Disks
  BY <1>1, ZenonT(60) DEF DiskInv, IdentifyInv
<1>5. Counted' = Counted
  BY <1>1, <1>3, <1>4, DiskFacts, SMTT(30) DEF Counted, Handling
<1>6. IdentifyInv'
  <2>1. slot[d] \in A!Slots BY Zenon DEF DiskInv, DiskTypes
  <2> QED BY <1>1, <1>3, <1>4, <1>5, <2>1, DiskFacts, SMTT(30) DEF DiskInv, IdentifyInv, DiskTypes
<1>7. ASSUME NEW e \in A!Disks, Orderly(e)' PROVE TransferInv(e)'
  <2>1. TransferInv(e) BY <1>1, <1>7, ZenonT(60) DEF DiskInv, Orderly
  <2>2. CASE e # d
    BY <1>1, <1>3, <1>5, <2>1, <2>2, DiskFacts, SMTT(30) DEF TransferInv, Handling
  <2>3. CASE e = d
    BY <1>1, <1>3, <1>5, <2>1, <2>3, DiskFacts, SMTT(30) DEF TransferInv, Handling, Waiting
  <2> QED BY <2>2, <2>3, ZenonT(60)
<1> QED BY <1>2, <1>6, <1>7, ZenonT(60) DEF DiskInv

\* A client gives its command to the device.
LEMMA IssueStep ==
  ASSUME DiskAssumption, DiskInv, NEW d \in A!Disks, A!issue(d)
  PROVE  DiskInv'
<1>1. /\ UNCHANGED <<running, tfes, is, kernel, count, a_flag, slot, transferred, early>>
      /\ thread[d] = "issue" /\ thread' = [thread EXCEPT ![d] = "test"]
      /\ ci' = [ci EXCEPT ![d] = @ \cup {slot[d]}]
  BY ZenonT(60) DEF A!issue, A!events, A!Go
<1>2. DiskTypes'
  BY <1>1, DiskFacts, SMTT(30) DEF DiskInv, DiskTypes, ThreadPcs
<1>3. /\ thread'[d] = "test" /\ ci'[d] = ci[d] \cup {slot[d]}
      /\ \A w \in A!Waiters : w # d => thread'[w] = thread[w]
      /\ \A e \in A!Disks : e # d => ci'[e] = ci[e]
  BY <1>1, DiskFacts, ZenonT(60) DEF DiskInv, DiskTypes
<1>4. Counted' = Counted
  BY <1>1, ZenonT(60) DEF Counted, Handling
<1>5. IdentifyInv'
  <2>1. Counted \subseteq A!Disks BY ZenonT(60) DEF Counted
  <2>2. \A e \in Counted : tfes[e] \/ running[e][0] # "Identify" \/ 0 \notin ci'[e]
    BY <1>1, <1>3, <2>1, SMTT(30) DEF DiskInv, IdentifyInv
  <2> QED BY <1>1, <1>3, <1>4, <2>2, DiskFacts, SMTT(30) DEF DiskInv, IdentifyInv
<1>6. ASSUME NEW e \in A!Disks, Orderly(e)' PROVE TransferInv(e)'
  <2>1. TransferInv(e) BY <1>1, <1>6, ZenonT(60) DEF DiskInv, Orderly
  <2>2. CASE e # d
    BY <1>1, <1>3, <1>4, <2>1, <2>2, DiskFacts, SMTT(30) DEF TransferInv, Handling
  <2>3. CASE e = d
    BY <1>1, <1>3, <1>4, <2>1, <2>3, DiskFacts, SMTT(30) DEF TransferInv, Handling, Waiting
  <2> QED BY <2>2, <2>3, ZenonT(60)
<1> QED BY <1>2, <1>5, <1>6, ZenonT(60) DEF DiskInv

\* What a client or the finder does on its own, and what the kernel thread does to
\* it when it wakes it: it changes its place only, and none that a transfer depends on.
LEMMA PlaceStep ==
  ASSUME DiskAssumption, DiskInv, NEW w \in A!Waiters, NEW to \in ThreadPcs,
         UNCHANGED <<running, ci, tfes, is, count, a_flag, slot, transferred, early>>,
         thread' = [thread EXCEPT ![w] = to],
         \/ kernel' = kernel
         \/ kernel.pc \in {"wake finder", "wake client"} /\ kernel' = [kernel EXCEPT !.pc = "clear"],
         \/ to = thread[w]
         \/ w \in A!Disks /\ thread[w] \in Waiting /\ to \in Waiting
         \/ w \in A!Disks /\ thread[w] \in Waiting /\ a_flag[w] /\ to = "return"
         \/ w \in A!Disks /\ thread[w] = "return" /\ to = "idle"
         \/ w = A!Finder /\ thread[w] # "done" /\ (to = "done" => Counted = A!Disks)
  PROVE  DiskInv'
<1>0. /\ kernel' \in [pc : KernelPcs, disk : Nat, slot : A!Slots, is : SUBSET A!Disks]
      /\ kernel'.pc = kernel.pc \/ (kernel.pc \in {"wake finder", "wake client"} /\ kernel'.pc = "clear")
      /\ kernel'.disk = kernel.disk /\ kernel'.slot = kernel.slot
  <2>1. CASE kernel' = kernel
    BY <2>1, ZenonT(60) DEF DiskInv, DiskTypes
  <2>2. CASE kernel.pc \in {"wake finder", "wake client"} /\ kernel' = [kernel EXCEPT !.pc = "clear"]
    BY <2>2, ZenonT(60) DEF DiskInv, DiskTypes, KernelPcs
  <2> QED BY <2>1, <2>2, ZenonT(60)
<1>1. DiskTypes'
  BY <1>0, ZenonT(60) DEF DiskInv, DiskTypes
<1>2. thread'[w] = to /\ \A v \in A!Waiters : v # w => thread'[v] = thread[v]
  BY ZenonT(60) DEF DiskInv, DiskTypes
<1>3. Counted' = Counted
  BY <1>0, ZenonT(60) DEF Counted, Handling
<1>4. IdentifyInv'
  <2>1. thread'[A!Finder] = "done" => Counted = A!Disks
    BY <1>2, DiskFacts, ZenonT(60) DEF DiskInv, IdentifyInv
  <2>2. \A d \in A!Disks : thread'[d] # "idle" => thread'[A!Finder] = "done"
    BY <1>2, DiskFacts, ZenonT(30) DEF DiskInv, IdentifyInv, Waiting
  <2>3. \A d \in A!Disks : thread'[d] = "issue" => thread[d] = "issue"
    BY <1>2, DiskFacts, Zenon DEF Waiting
  <2> QED BY <1>3, <2>1, <2>2, <2>3, ZenonT(60) DEF DiskInv, IdentifyInv
<1>5. ASSUME NEW e \in A!Disks, Orderly(e)' PROVE TransferInv(e)'
  <2>1. TransferInv(e) BY <1>5, ZenonT(60) DEF DiskInv, Orderly
  <2>2. CASE e # w
    BY <1>0, <1>2, <1>3, <2>1, <2>2, DiskFacts, ZenonT(30) DEF TransferInv, Handling
  <2>3. CASE e = w
    BY <1>0, <1>2, <1>3, <2>1, <2>3, DiskFacts, ZenonT(30) DEF TransferInv, Handling, Waiting
  <2> QED BY <2>2, <2>3, ZenonT(60)
<1> QED BY <1>1, <1>4, <1>5, ZenonT(60) DEF DiskInv

\* Event::wait, wait_identify and the end of a transfer.
LEMMA WaitStep ==
  ASSUME DiskAssumption, DiskInv, NEW w \in A!Waiters,
         \/ A!test(w)
         \/ A!wait_event(w)
         \/ w \in A!Disks /\ A!return(w)
         \/ w = A!Finder /\ A!wait_identify
  PROVE  DiskInv'
<1>0. /\ w = A!Finder \/ w \in A!Disks
      /\ \A p \in {"wait", "count", "return", "asleep", "idle", "done", "test"} : p \in ThreadPcs
  BY Zenon DEF A!Waiters, ThreadPcs
<1>1. CASE A!test(w)
  <2> DEFINE to == IF ~a_flag[w] THEN "wait" ELSE IF w = A!Finder THEN "count" ELSE "return"
  <2>1. /\ UNCHANGED <<running, ci, tfes, is, kernel, count, a_flag, slot, transferred, early>>
        /\ thread[w] = "test" /\ thread' = [thread EXCEPT ![w] = to]
    BY <1>1, ZenonT(60) DEF A!test, A!port, A!Go
  <2>2. to \in ThreadPcs /\ to # "done" /\ (to = "wait" \/ to = "count" \/ to = "return")
    BY Zenon DEF ThreadPcs
  <2>3. w \in A!Disks => to = "wait" \/ (a_flag[w] /\ to = "return") BY DiskFacts, ZenonT(60)
  <2> HIDE DEF to
  <2> QED BY <1>0, <2>1, <2>2, <2>3, PlaceStep, ZenonT(60) DEF Waiting
<1>2. CASE A!wait_event(w)
  <2>1. /\ UNCHANGED <<running, ci, tfes, is, kernel, count, a_flag, slot, transferred, early>>
        /\ thread[w] = "wait" /\ thread' = [thread EXCEPT ![w] = "asleep"]
    BY <1>2, ZenonT(60) DEF A!wait_event, A!port, A!Go
  <2> QED BY <1>0, <2>1, PlaceStep, ZenonT(60) DEF Waiting
<1>3. CASE w \in A!Disks /\ A!return(w)
  <2>1. /\ UNCHANGED <<running, ci, tfes, is, kernel, count, a_flag, slot, transferred, early>>
        /\ thread[w] = "return" /\ thread' = [thread EXCEPT ![w] = "idle"]
    BY <1>3, ZenonT(60) DEF A!return, A!port, A!Go, A!events
  <2> QED BY <1>0, <1>3, <2>1, PlaceStep, ZenonT(60)
<1>4. CASE w = A!Finder /\ A!wait_identify
  <2> DEFINE to == IF count = NumDisks THEN "done" ELSE "test"
  <2>1. /\ UNCHANGED <<running, ci, tfes, is, kernel, count, a_flag, slot, transferred, early>>
        /\ thread[w] = "count" /\ thread' = [thread EXCEPT ![w] = to]
    BY <1>4, ZenonT(60) DEF A!wait_identify, A!port, A!Go, A!events
  <2>2. count = NumDisks => Counted = A!Disks
    <3>1. Counted \in SUBSET A!Disks BY Zenon DEF Counted
    <3>2. count = Cardinality(Counted) BY Zenon DEF DiskInv, IdentifyInv
    <3> QED BY <3>1, <3>2, DiskFacts, FS_Subset, ZenonT(60)
  <2>3. to \in ThreadPcs /\ (to = "done" => Counted = A!Disks) BY <1>0, <2>2, ZenonT(60)
  <2> HIDE DEF to
  <2> QED BY <1>4, <2>1, <2>3, PlaceStep, ZenonT(60)
<1> QED BY <1>1, <1>2, <1>3, <1>4, Zenon

\* The kernel thread moves on without having changed anything.
LEMMA MoveStep ==
  ASSUME DiskAssumption, DiskInv, A!on_interrupt \/ A!skip_slot
  PROVE  DiskInv'
<1>1. /\ UNCHANGED <<running, ci, tfes, is, count, a_flag, thread, slot, transferred, early>>
      /\ kernel.pc \in {"idle", "slot"}
  BY Zenon DEF A!on_interrupt, A!skip_slot, A!events, A!port
<1>2. /\ kernel' \in [pc : KernelPcs, disk : Nat, slot : A!Slots, is : SUBSET A!Disks]
      /\ kernel'.pc \in {"idle", "slot"}
      /\ kernel'.pc # "idle" => kernel'.disk \in A!Disks
  <2>1. CASE A!on_interrupt
    <3>1. is # {} => A!Min(is) \in A!Disks /\ A!Min(is) \in Nat
      <4>1. is \subseteq A!Disks /\ is \subseteq Nat BY DiskFacts, ZenonT(60) DEF DiskInv, DiskTypes
      <4> QED BY <4>1, LeastNat, ZenonT(60)
    <3>2. kernel' = IF is = {} THEN kernel ELSE [pc |-> "slot", disk |-> A!Min(is), slot |-> 0, is |-> is]
      BY <2>1, ZenonT(60) DEF A!on_interrupt
    <3> QED BY <1>1, <3>1, <3>2, DiskFacts, ZenonT(60) DEF DiskInv, DiskTypes, KernelPcs
  <2>2. CASE A!skip_slot
    <3>1. kernel.pc # "idle" /\ A!Advance BY <2>2, ZenonT(60) DEF A!skip_slot
    <3> QED BY <3>1, AdvanceFacts, ZenonT(60) DEF DiskInv
  <2> QED BY <2>1, <2>2, ZenonT(60)
<1>3. DiskTypes'
  BY <1>1, <1>2, ZenonT(60) DEF DiskInv, DiskTypes
<1>4. \A d : ~Handling(d) /\ ~Handling(d)'
  BY <1>1, <1>2, ZenonT(60) DEF Handling
<1>5. Counted' = Counted
  BY <1>1, <1>4, ZenonT(60) DEF Counted
<1>6. IdentifyInv'
  BY <1>1, <1>5, ZenonT(60) DEF DiskInv, IdentifyInv
<1>7. ASSUME NEW e \in A!Disks, Orderly(e)' PROVE TransferInv(e)'
  <2>1. TransferInv(e) BY <1>1, <1>7, ZenonT(60) DEF DiskInv, Orderly
  <2> QED BY <1>1, <1>2, <1>4, <1>5, <2>1, ZenonT(60) DEF TransferInv
<1> QED BY <1>3, <1>6, <1>7, ZenonT(60) DEF DiskInv

\* The command in the slot is complete.
LEMMA WaitCompleteStep ==
  ASSUME DiskAssumption, DiskInv, A!wait_compelete
  PROVE  DiskInv'
<1> DEFINE d == kernel.disk
           op == running[d][kernel.slot]
<1>1. /\ UNCHANGED <<running, ci, tfes, is, a_flag, thread, slot, transferred>>
      /\ kernel.pc = "slot" /\ op # "None"
      /\ kernel.slot \notin ci[d] \/ tfes[d]
      /\ count' = IF op = "Identify" THEN count + 1 ELSE count
      /\ kernel' = [kernel EXCEPT !.pc = IF op = "Identify" THEN "identified" ELSE "notify"]
      /\ early' = IF op = "Transfer" /\ thread[d] = "issue" THEN early \cup {d} ELSE early
  BY Zenon DEF A!wait_compelete, A!Operation, A!port, A!events
<1>2. d \in A!Disks /\ kernel.slot \in A!Slots /\ op \in {"None", "Identify", "Transfer"}
  BY <1>1 DEF DiskInv, DiskTypes
<1>3. /\ kernel'.disk = d /\ kernel'.slot = kernel.slot
      /\ kernel'.pc = IF op = "Identify" THEN "identified" ELSE "notify"
      /\ kernel' \in [pc : KernelPcs, disk : Nat, slot : A!Slots, is : SUBSET A!Disks]
  BY <1>1, ZenonT(60) DEF DiskInv, DiskTypes, KernelPcs
<1>4. DiskTypes'
  BY <1>1, <1>2, <1>3, ZenonT(60) DEF DiskInv, DiskTypes
<1>5. \A e : ~Handling(e)
  BY <1>1, ZenonT(60) DEF Handling
<1>6. \A e : Handling(e)' <=> e = d /\ kernel.slot = 0
  BY <1>3, ZenonT(60) DEF Handling
<1>7. CASE op = "Identify"
  <2>1. kernel.slot = 0
    BY <1>2, <1>7, ZenonT(60) DEF DiskInv, IdentifyInv
  <2>2. d \notin Counted /\ Counted \subseteq A!Disks
    BY <1>5, <1>7, <2>1, ZenonT(60) DEF Counted
  <2>3. Counted' = Counted \cup {d}
    BY <1>1, <1>2, <1>5, <1>6, <2>1, ZenonT(60) DEF Counted
  <2>4. Cardinality(Counted') = Cardinality(Counted) + 1
    <3>1. IsFiniteSet(Counted) BY <2>2, DiskFacts, FS_Subset, ZenonT(60)
    <3> QED BY <2>2, <2>3, <3>1, FS_AddElement, ZenonT(60)
  <2>5. tfes[d] \/ 0 \notin ci[d] BY <1>1, <2>1, ZenonT(60)
  <2>6. early' = early BY <1>1, <1>7, ZenonT(60)
  <2>7. IdentifyInv'
    BY <1>1, <1>2, <1>7, <2>2, <2>3, <2>4, <2>5, ZenonT(60) DEF DiskInv, IdentifyInv
  <2>8. ASSUME NEW e \in A!Disks, Orderly(e)' PROVE TransferInv(e)'
    <3>1. TransferInv(e) /\ ~tfes[e] BY <1>1, <2>6, <2>8, ZenonT(60) DEF DiskInv, Orderly
    <3>2. e \in Counted' => e \in Counted \/ 0 \notin ci[e] BY <2>3, <2>5, <3>1, ZenonT(60)
    <3>3. kernel'.pc # "notify" BY <1>3, <1>7, ZenonT(60)
    <3>4. running[e][0] = "Transfer" /\ ~Handling(e)' => ~Handling(e) BY <1>5, ZenonT(60)
    <3> QED BY <1>1, <3>1, <3>2, <3>3, <3>4, ZenonT(60) DEF TransferInv
  <2> QED BY <1>4, <2>7, <2>8, ZenonT(60) DEF DiskInv
<1>8. CASE op = "Transfer"
  <2>1. Counted' = Counted
    BY <1>1, <1>5, <1>6, <1>8, ZenonT(60) DEF Counted
  <2>2. IdentifyInv'
    BY <1>1, <1>8, <2>1, ZenonT(60) DEF DiskInv, IdentifyInv
  <2>3. ASSUME NEW e \in A!Disks, Orderly(e)' PROVE TransferInv(e)'
    <3>1. e \notin early /\ ~tfes[e] /\ (e = d => thread[d] # "issue") BY <1>1, <1>8, <2>3, ZenonT(60) DEF Orderly
    <3>2. TransferInv(e) BY <3>1, ZenonT(60) DEF DiskInv, Orderly
    <3>3. CASE e # d
      BY <1>1, <1>3, <1>5, <2>1, <3>2, <3>3, ZenonT(60) DEF TransferInv
    <3>4. CASE e = d
      <4>1. kernel.slot = 0 BY <1>2, <1>8, <3>2, <3>4, ZenonT(60) DEF TransferInv
      <4>2. thread[d] \in Waiting /\ ~a_flag[d]
        BY <1>5, <1>8, <3>1, <3>2, <3>4, <4>1, ZenonT(60) DEF TransferInv
      <4>3. transferred[d] BY <1>1, <3>1, <3>2, <3>4, <4>1, <4>2, ZenonT(60) DEF TransferInv
      <4> QED BY <1>1, <1>3, <1>5, <2>1, <3>2, <3>4, <4>1, <4>2, <4>3, ZenonT(60) DEF TransferInv
    <3> QED BY <3>3, <3>4, ZenonT(60)
  <2> QED BY <1>4, <2>2, <2>3, ZenonT(60) DEF DiskInv
<1> QED BY <1>1, <1>2, <1>7, <1>8, ZenonT(60)

\* The flag of the finder or of the client is set.
LEMMA NotifyStep ==
  ASSUME DiskAssumption, DiskInv, A!notify
  PROVE  DiskInv'
<1> DEFINE w == IF kernel.pc = "identified" THEN A!Finder ELSE kernel.disk
           to == IF a_flag[w] THEN "clear" ELSE IF w = A!Finder THEN "wake finder" ELSE "wake client"
<1>1. /\ UNCHANGED <<running, ci, tfes, is, count, thread, slot, transferred, early>>
      /\ kernel.pc \in {"identified", "notify"}
      /\ a_flag' = [a_flag EXCEPT ![w] = TRUE]
      /\ kernel' = [kernel EXCEPT !.pc = to]
  BY Zenon DEF A!notify, A!Target, A!port
<1>2. /\ w \in A!Waiters /\ to \in {"clear", "wake finder", "wake client"}
      /\ kernel.pc = "notify" => w = kernel.disk
      /\ w \in A!Disks => kernel.pc = "notify"
  BY <1>1, DiskFacts, ZenonT(60) DEF DiskInv, DiskTypes
<1> HIDE DEF w, to
<1>3. /\ kernel' \in [pc : KernelPcs, disk : Nat, slot : A!Slots, is : SUBSET A!Disks]
      /\ kernel'.pc = to /\ kernel'.disk = kernel.disk /\ kernel'.slot = kernel.slot
  BY <1>1, <1>2, ZenonT(60) DEF DiskInv, DiskTypes, KernelPcs
<1>4. DiskTypes'
  BY <1>1, <1>3, ZenonT(60) DEF DiskInv, DiskTypes
<1>5. \A e : Handling(e)' <=> Handling(e)
  BY <1>1, <1>2, <1>3, ZenonT(60) DEF Handling
<1>6. Counted' = Counted
  BY <1>1, <1>5, ZenonT(60) DEF Counted
<1>7. IdentifyInv'
  BY <1>1, <1>6, ZenonT(60) DEF DiskInv, IdentifyInv
<1>8. ASSUME NEW e \in A!Disks, Orderly(e)' PROVE TransferInv(e)'
  <2>1. TransferInv(e) BY <1>1, <1>8, ZenonT(60) DEF DiskInv, Orderly
  <2>2. kernel'.pc # "notify" BY <1>2, <1>3, ZenonT(60)
  <2>3. CASE e # w
    <3>1. a_flag'[e] = a_flag[e] BY <1>1, <2>3, DiskFacts, ZenonT(60) DEF DiskInv, DiskTypes
    <3> QED BY <1>1, <1>5, <1>6, <2>1, <2>2, <3>1, ZenonT(60) DEF TransferInv
  <2>4. CASE e = w
    <3>1. kernel.pc = "notify" /\ kernel.disk = e BY <1>2, <2>4, ZenonT(60)
    <3>2. thread[e] \in Waiting /\ transferred[e] BY <2>1, <3>1, ZenonT(60) DEF TransferInv
    <3>3. running[e][0] = "Transfer" => Handling(e)
      BY <2>1, <3>1, <3>2, ZenonT(60) DEF TransferInv, Handling, DiskInv, DiskTypes
    <3> QED BY <1>1, <1>5, <1>6, <2>1, <2>2, <3>2, <3>3, ZenonT(60) DEF TransferInv, Waiting
  <2> QED BY <2>3, <2>4, ZenonT(60)
<1> QED BY <1>4, <1>7, <1>8, ZenonT(60) DEF DiskInv

\* The finder or the client is woken.
LEMMA NotifyEventStep ==
  ASSUME DiskAssumption, DiskInv, A!notify_event
  PROVE  DiskInv'
<1> DEFINE w == IF kernel.pc = "wake finder" THEN A!Finder ELSE kernel.disk
<1>1. /\ UNCHANGED <<running, ci, tfes, is, count, a_flag, slot, transferred, early>>
      /\ kernel.pc \in {"wake finder", "wake client"} /\ kernel' = [kernel EXCEPT !.pc = "clear"]
      /\ \/ thread[w] = "asleep" /\ thread' = [thread EXCEPT ![w] = "test"]
         \/ thread' = thread
  BY Zenon DEF A!notify_event, A!Sleeper, A!port
<1>2. w \in A!Waiters /\ (w = A!Finder \/ w \in A!Disks)
  BY <1>1, DiskFacts, ZenonT(60) DEF DiskInv, DiskTypes
<1>3. thread[w] \in ThreadPcs /\ thread = [thread EXCEPT ![w] = thread[w]] /\ "test" \in ThreadPcs
  BY <1>2, ZenonT(60) DEF DiskInv, DiskTypes, ThreadPcs
<1> HIDE DEF w
<1>4. CASE thread[w] = "asleep" /\ thread' = [thread EXCEPT ![w] = "test"]
  BY <1>1, <1>2, <1>3, <1>4, PlaceStep, ZenonT(60) DEF Waiting
<1>5. CASE thread' = thread
  BY <1>1, <1>2, <1>3, <1>5, PlaceStep, ZenonT(60)
<1> QED BY <1>1, <1>4, <1>5, ZenonT(60)

\* The operation of the slot is cleared.
LEMMA ClearStep ==
  ASSUME DiskAssumption, DiskInv, A!clear_operation
  PROVE  DiskInv'
<1> DEFINE d == kernel.disk
           s == kernel.slot
<1>1. /\ UNCHANGED <<ci, tfes, is, count, a_flag, thread, slot, transferred, early>>
      /\ kernel.pc = "clear" /\ A!Advance
      /\ running' = [running EXCEPT ![d][s] = "None"]
  BY Zenon DEF A!clear_operation, A!port, A!events
<1>2. d \in A!Disks /\ s \in A!Slots
  BY <1>1, ZenonT(60) DEF DiskInv, DiskTypes
<1>3. /\ kernel' \in [pc : KernelPcs, disk : Nat, slot : A!Slots, is : SUBSET A!Disks]
      /\ kernel'.pc \in {"idle", "slot"}
      /\ kernel'.pc # "idle" => kernel'.disk \in A!Disks
  BY <1>1, AdvanceFacts, ZenonT(60) DEF DiskInv
<1>4. \A e \in A!Disks, r \in A!Slots : running'[e][r] = IF e = d /\ r = s THEN "None" ELSE running[e][r]
  BY <1>1, <1>2, ZenonT(60) DEF DiskInv, DiskTypes
<1>5. DiskTypes'
  BY <1>1, <1>2, <1>3, ZenonT(60) DEF DiskInv, DiskTypes
<1>6. \A e : ~Handling(e)' /\ (Handling(e) <=> e = d /\ s = 0)
  BY <1>1, <1>3, ZenonT(60) DEF Handling
<1> HIDE DEF d, s
<1>7. Counted' = Counted
  BY <1>2, <1>4, <1>6, DiskFacts, ZenonT(60) DEF Counted
<1>8. IdentifyInv'
  <2>1. \A e \in A!Disks : slot[e] \in A!Slots BY Zenon DEF DiskInv, DiskTypes
  <2>2. \A e \in A!Disks, r \in A!Slots : running[e][r] # "Identify" => running'[e][r] # "Identify"
    BY <1>4, ZenonT(60)
  <2>3. Counted \subseteq A!Disks BY Zenon DEF Counted
  <2> QED BY <1>1, <1>7, <2>1, <2>2, <2>3, DiskFacts, ZenonT(60) DEF DiskInv, IdentifyInv
<1>9. ASSUME NEW e \in A!Disks, Orderly(e)' PROVE TransferInv(e)'
  <2>1. TransferInv(e) BY <1>1, <1>9, ZenonT(60) DEF DiskInv, Orderly
  <2>2. running'[e][0] = "Transfer" => running[e][0] = "Transfer" /\ ~Handling(e)
    BY <1>4, <1>6, DiskFacts, ZenonT(60)
  <2>3. \A r \in A!Slots : r # 0 => running'[e][r] = "None"
    BY <1>4, <2>1, ZenonT(60) DEF TransferInv
  <2> QED BY <1>1, <1>3, <1>7, <2>1, <2>2, <2>3, ZenonT(60) DEF TransferInv
<1> QED BY <1>5, <1>8, <1>9, ZenonT(60) DEF DiskInv

LEMMA DiskStep ==
  ASSUME DiskAssumption, DiskInv, [A!Next]_(A!vars)
  PROVE  DiskInv'
<1>1. CASE A!kernel_thread
  BY <1>1, MoveStep, WaitCompleteStep, NotifyStep, NotifyEventStep, ClearStep, ZenonT(60) DEF A!kernel_thread
<1>2. CASE A!finder
  BY <1>2, WaitStep, DiskFacts, ZenonT(60) DEF A!finder
<1>3. ASSUME NEW d \in A!Disks, A!emit_h2d_command(d) \/ A!device(d) \/ A!fail(d) PROVE DiskInv'
  BY <1>3, EmitStep, CompleteStep, FailStep, ZenonT(60) DEF A!device
<1>4. ASSUME NEW d \in A!Disks, A!client(d) PROVE DiskInv'
  <2>1. d \in A!Waiters BY DiskFacts, ZenonT(60)
  <2> QED BY <1>4, <2>1, SetOperationStep, IssueStep, WaitStep, ZenonT(60) DEF A!client
<1>5. CASE UNCHANGED A!vars
  <2>1. UNCHANGED <<running, ci, tfes, is, kernel, count, a_flag, thread, slot, transferred, early>>
    BY <1>5, ZenonT(60) DEF A!vars, A!port, A!events
  <2>2. Counted' = Counted BY <2>1, Zenon DEF Counted, Handling
  <2>3. DiskTypes' BY <2>1, Zenon DEF DiskInv, DiskTypes
  <2>4. IdentifyInv' BY <2>1, <2>2, ZenonT(60) DEF DiskInv, IdentifyInv
  <2>5. ASSUME NEW e \in A!Disks, Orderly(e)' PROVE TransferInv(e)'
    <3>1. TransferInv(e) BY <2>1, <2>5, ZenonT(60) DEF DiskInv, Orderly
    <3> QED BY <2>1, <2>2, <3>1, ZenonT(60) DEF TransferInv, Handling
  <2> QED BY <2>3, <2>4, <2>5, ZenonT(60) DEF DiskInv
<1> QED BY <1>1, <1>2, <1>3, <1>4, <1>5, ZenonT(60) DEF A!Next

\* For any number of disks and slots: the device finder goes on only when every
\* disk has answered IDENTIFY or stopped, and a transfer that returns has been
\* executed unless the disk failed or on_interrupt came between the entry of the
\* operation in running_operations and the command to the device.
THEOREM CommandsAreDone ==
  ASSUME DiskAssumption
  PROVE  A!Spec => [](A!AllIdentified /\ A!TransferDone)
<1>1. A!Init => DiskInv
  BY DiskInit, ZenonT(60)
<1>2. DiskInv /\ [A!Next]_(A!vars) => DiskInv'
  BY DiskStep, ZenonT(60)
<1>3. DiskInv => A!AllIdentified
  BY Zenon DEF DiskInv, IdentifyInv, A!AllIdentified
<1>4. DiskInv => A!TransferDone
  BY Zenon DEF DiskInv, TransferInv, Orderly, A!TransferDone
<1> QED BY <1>1, <1>2, <1>3, <1>4, PTL DEF A!Spec
=============================================================================
