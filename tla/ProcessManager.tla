--------------------------- MODULE ProcessManager ---------------------------
(***************************************************************************)
(* process::Manager (process/manager.hpp) on the boot processor: process   *)
(* and thread tables, the run queue, the timer tick that preempts, events, *)
(* sleeping, suspending, exiting and joining.                              *)
(*                                                                         *)
(* On one processor the manager's spin lock `mutex` does protect: a timer  *)
(* tick or device interrupt that finds it taken (try_aquire) goes away     *)
(* without touching the manager, so a section that keeps it is one step.   *)
(* What a thread does after the lock was given up early, or under          *)
(* events_mutex alone (which no handler tests), is split into steps that a *)
(* tick can separate: pc[t] says where thread t will continue.             *)
(*                                                                         *)
(* Threads other than Kernel and Idle are arbitrary programs: at pc "run"  *)
(* they may make any call named in Ops.                                    *)
(***************************************************************************)
EXTENDS Containers, FiniteSets

CONSTANTS
  Threads,        \* Thread objects that can be allocated, one use each
  Kernel,         \* the event_processor thread, captured by the constructor
  Idle,           \* the boot processor's idle thread
  None,           \* null pointer / empty optional
  MaxPid, MaxTid, \* bounds: largest process and thread number
  MaxEid,         \* bound: largest event number
  MaxWaiters,     \* bound: registrations one event, and one thread with it, holds
  MaxRegistered,  \* bound: pairs of a thread, alive or not, and an event it holds
  MaxSuspend,     \* bound: longest suspension in ticks
  MigratePeriod,  \* migrate_threads runs every MigratePeriod ticks (500)
  InitEids,       \* events that exist from the start, besides the manager's own
  Watched,        \* the threads whose progress an instance checks
  Ops             \* the calls the threads of an instance make; "missed_tick"
                  \* when a tick may find the lock taken

Pids == 0..MaxPid
Tids == 0..MaxTid
Eids == 0..MaxEid

kernel_pid == 0
thread_joined_event == 0

\* Event numbers that threads get from create_event, and the spans of them
\* that they wait for.
UserEids == Eids \ {thread_joined_event}
Spans == {es \in UNION {[1..n -> UserEids] : n \in 1..2} : IsInjective(es)}

ASSUME ConstantsAssumption ==
  /\ Kernel \in Threads /\ Idle \in Threads /\ Kernel # Idle
  /\ None \notin Threads /\ None \notin Seq(Threads)
  /\ MaxPid \in Nat /\ MaxTid \in Nat \ {0} /\ MaxEid \in Nat
  /\ MaxWaiters \in Nat /\ MaxSuspend \in Nat /\ MigratePeriod \in Nat \ {0}
  /\ InitEids \subseteq UserEids /\ Watched \subseteq Threads

VARIABLES
  processes,   \* the process numbers in use
  threads,     \* threads[pid][tid]: the Thread object in that slot, or None
  created,     \* Thread objects allocated so far
  zombie,      \* Thread::zombie
  running_on,  \* Thread::running_on is a valid processor number
  suspended,   \* ticks left of Thread::suspend_for; 0 when suspend_from is 0
  waiting,     \* Thread::events: how often it holds each event number
  run_queue,   \* ProcessorLocal::run_queue (every thread has nice 0)
  this_thread, \* ProcessorLocal::this_thread
  events,      \* events[id]: registered threads, or None for a free number
  tick,        \* Manager::tick: 0 before the first tick, then 1..MigratePeriod
  mutex,       \* the spin lock's flag between steps
  pc, arg,     \* where a thread continues, with which arguments
  fatal        \* the fatal_error / fatal_assert that stopped the machine

tables  == <<processes, threads, created>>
queue   == <<running_on, suspended, run_queue, this_thread>>
control == <<pc, arg>>
vars == <<tables, queue, zombie, waiting, events, tick, mutex, control, fatal>>

PCs == {"run", "wait_thread", "wait_process", "wait_events", "exit_notify",
        "exit_sleep", "create_event", "delete_event"}

Arg(p, i, ids) == [pid |-> p, tid |-> i, eids |-> ids]
NoArg == Arg(0, 0, {})

Allocated(t) == \E p \in Pids, i \in Tids : threads[p][i] = t
Freed(t) == t \in created /\ ~Allocated(t)

\* The scheduler or an event list would dereference a freed Thread: nothing is
\* modelled past that point, nor past a fatal error.
Dangling == \E t \in Range(run_queue) : Freed(t)
Halted   == fatal # "none" \/ Dangling

-----------------------------------------------------------------------------
(* Scheduling.                                                             *)

\* ProcessorLocal::should_skip.  At tick 0 the elapsed time 0 - 1 wraps to a
\* huge number, so a suspension has no effect before the first tick.
should_skip(t, sus, now) == now # 0 /\ sus[t] > 0

\* Manager::switch_thread with ProcessorLocal::update_this_thread: this_thread
\* goes to the back of the queue (or out of it), the first thread that is not
\* suspended runs.
switch_thread(rq, ro, sus, now) ==
  LET kept == erase_all(rq, this_thread)
      q == IF ro[this_thread] THEN Append(kept, this_thread) ELSE kept
      ready == {i \in DOMAIN q : ~should_skip(q[i], sus, now)}
  IN  /\ run_queue' = q
      /\ running_on' = ro
      /\ IF ready = {}
         THEN /\ fatal' = "run queue empty"
              /\ suspended' = sus
              /\ this_thread' = this_thread
         ELSE \E i \in ready :
                /\ \A j \in ready : i <= j
                /\ this_thread' = q[i]
                /\ suspended' = [sus EXCEPT ![q[i]] = 0]
                /\ fatal' = fatal

\* Manager::sleep_thread(lock, this_thread)
sleep_this == switch_thread(run_queue, [running_on EXCEPT ![this_thread] = FALSE], suspended, tick)

\* wakeup_thread(lock, t) for the threads of list in order; order is the
\* sequence of those that really enter the run queue.
IsWakeOrder(order, list) ==
  /\ IsInjective(order)
  /\ Range(order) = {t \in Range(list) : ~running_on[t]}
  /\ \A i, j \in DOMAIN order : i < j =>
       \E k \in DOMAIN list : list[k] = order[i] /\ \A l \in 1..k : list[l] # order[j]

\* Deliberately wrong: pushes without looking at running_on first.
wakeup_threads_unchecked(list) ==
  /\ run_queue' = run_queue \o list
  /\ running_on' = [t \in Threads |-> running_on[t] \/ t \in Range(list)]

wakeup_threads(list) ==
  LET asleep == {t \in Range(list) : ~running_on[t]}
  IN  \E n \in 0..Len(list) : \E order \in [1..n -> asleep] :
        /\ IsWakeOrder(order, list)
        /\ run_queue' = run_queue \o order
        /\ running_on' = [t \in Threads |-> running_on[t] \/ t \in asleep]

\* migrate_threads with a single processor: the first movable thread that is
\* not running leaves the queue and is pushed back at its end.
migrate_threads(rq) ==
  LET movable == {i \in DOMAIN rq : rq[i] \notin {Kernel, Idle, this_thread}}
  IN  IF movable = {} THEN rq
      ELSE LET t == rq[CHOOSE i \in movable : \A j \in movable : i <= j]
           IN  Append(erase_all(rq, t), t)

-----------------------------------------------------------------------------
(* Calls of the running thread t.  A call that only returns an error       *)
(* changes nothing and is not listed as a step.                            *)

Call(t, op) == t = this_thread /\ t # Idle /\ pc[t] = "run" /\ op \in Ops

\* A loop or a half-done operation of t goes on when t is scheduled again.
Resume(t, label) == t = this_thread /\ pc[t] = label /\ ~Halted

Goto(t, label, a) == pc' = [pc EXCEPT ![t] = label] /\ arg' = [arg EXCEPT ![t] = a]
Return(t) == Goto(t, "run", NoArg)

create_process(t) ==
  /\ Call(t, "create_process")
  /\ \E p \in Pids : IsEmptySlot(Pids, processes, p) /\ processes' = processes \cup {p}
  /\ UNCHANGED <<threads, created, queue, zombie, waiting, events, tick, mutex, control, fatal>>

create_thread(t, p) ==
  /\ Call(t, "create_thread")
  /\ p \in processes
  /\ \E x \in Threads \ created, i \in Tids :
       /\ IsEmptySlot(Tids, {j \in Tids : threads[p][j] # None}, i)
       /\ threads' = [threads EXCEPT ![p][i] = x]
       /\ created' = created \cup {x}
  /\ UNCHANGED <<processes, queue, zombie, waiting, events, tick, mutex, control, fatal>>

wakeup_thread(t, p, i) ==
  /\ Call(t, "wakeup_thread")
  /\ p \in processes /\ threads[p][i] # None /\ ~zombie[threads[p][i]]
  /\ wakeup_threads(<<threads[p][i]>>)
  /\ UNCHANGED <<tables, suspended, this_thread, zombie, waiting, events, tick, mutex, control, fatal>>

sleep_this_thread(t) ==
  /\ Call(t, "sleep_this_thread")
  /\ sleep_this
  /\ UNCHANGED <<tables, zombie, waiting, events, tick, mutex, control>>

\* suspend_this_thread_for_ms; n is ms_to_tick(ms), 0 returns at once
suspend_this_thread(t, n) ==
  /\ Call(t, "suspend_this_thread")
  /\ n > 0
  /\ switch_thread(run_queue, running_on, [suspended EXCEPT ![t] = n], tick)
  /\ UNCHANGED <<tables, zombie, waiting, events, tick, mutex, control>>

-----------------------------------------------------------------------------
(* Events.                                                                 *)

\* push_thread_to_events for the ids of es up to the first unknown one
register(t, es, n) ==
  /\ \A k \in 1..n : events[es[k]] # None
  /\ n < Len(es) => events[es[n+1]] = None
  /\ \A k \in 1..n : Len(events[es[k]]) < MaxWaiters /\ waiting[t][es[k]] < MaxWaiters
  /\ Cardinality({w \in Threads \X UserEids : waiting[w[1]][w[2]] > 0}
                   \cup {<<t, es[k]>> : k \in 1..n}) <= MaxRegistered
  /\ LET ids == {es[k] : k \in 1..n}
     IN  /\ events' = [e \in Eids |-> IF e \in ids THEN Append(events[e], t) ELSE events[e]]
         /\ waiting' = [waiting EXCEPT ![t] =
                          [e \in Eids |-> IF e \in ids THEN waiting[t][e] + 1 ELSE waiting[t][e]]]

\* wait_event / wait_events: an unknown id returns an error, with the earlier
\* ids of the span left registered.
wait_events(t, es) ==
  /\ Call(t, "wait_events")
  /\ \E n \in 0..Len(es) :
       /\ register(t, es, n)
       /\ IF n = Len(es)
          THEN sleep_this /\ Goto(t, "wait_events", Arg(0, 0, {es[k] : k \in 1..n}))
          ELSE UNCHANGED <<queue, fatal, control>>
  /\ UNCHANGED <<tables, zombie, tick, mutex>>

wait_events_return(t) ==
  /\ Resume(t, "wait_events")
  /\ Return(t)
  /\ UNCHANGED <<tables, queue, zombie, waiting, events, tick, mutex, fatal>>

\* Deliberately wrong: leaves the ids in Thread::events.
unwait_events_half(t, es) ==
  /\ Call(t, "unwait_events")
  /\ \A k \in DOMAIN es : events[es[k]] # None
  /\ events' = [e \in Eids |-> IF e \in Range(es) THEN erase_all(events[e], t) ELSE events[e]]
  /\ UNCHANGED <<tables, queue, waiting, zombie, tick, mutex, control, fatal>>

\* unwait_event / unwait_events: stops at the first unknown id
unwait_events(t, es) ==
  /\ Call(t, "unwait_events")
  /\ \E n \in 0..Len(es) :
       /\ \A k \in 1..n : events[es[k]] # None
       /\ n < Len(es) => events[es[n+1]] = None
       /\ LET ids == {es[k] : k \in 1..n}
          IN  /\ events' = [e \in Eids |-> IF e \in ids THEN erase_all(events[e], t) ELSE events[e]]
              /\ waiting' = [waiting EXCEPT ![t] =
                               [e \in Eids |-> IF e \in ids THEN 0 ELSE waiting[t][e]]]
  /\ UNCHANGED <<tables, queue, zombie, tick, mutex, control, fatal>>

\* Deliberately wrong: wakes the first waiter only.
notify_first(e) ==
  /\ events[e] # None
  /\ events' = [events EXCEPT ![e] = <<>>]
  /\ waiting' = [x \in Threads |-> [waiting[x] EXCEPT ![e] = 0]]
  /\ wakeup_threads(IF events[e] = <<>> THEN <<>> ELSE <<events[e][1]>>)

\* notify_event on an existing event: its list is emptied, and every thread on
\* it forgets the event and is woken.
notify(e) ==
  /\ events[e] # None
  /\ events' = [events EXCEPT ![e] = <<>>]
  /\ waiting' = [x \in Threads |-> IF x \in Range(events[e])
                                    THEN [waiting[x] EXCEPT ![e] = 0] ELSE waiting[x]]
  /\ wakeup_threads(events[e])

notify_event(t, e) ==
  /\ Call(t, "notify_event")
  /\ notify(e)
  /\ UNCHANGED <<tables, suspended, this_thread, zombie, tick, mutex, control, fatal>>

\* create_event and delete_event hold events_mutex only: a tick may come
\* between the look at the table and the change, and no later aquire waits.
create_event(t) ==
  /\ Call(t, "create_event")
  /\ \E e \in Eids :
       /\ IsEmptySlot(Eids, {d \in Eids : events[d] # None}, e)
       /\ Goto(t, "create_event", Arg(0, 0, {e}))
  /\ UNCHANGED <<tables, queue, zombie, waiting, events, tick, mutex, fatal>>

create_event_emplace(t) ==
  /\ Resume(t, "create_event")
  /\ events' = [e \in Eids |-> IF e \in arg[t].eids THEN <<>> ELSE events[e]]
  /\ Return(t)
  /\ UNCHANGED <<tables, queue, zombie, waiting, tick, mutex, fatal>>

delete_event(t, e) ==
  /\ Call(t, "delete_event")
  /\ events[e] = <<>>
  /\ Goto(t, "delete_event", Arg(0, 0, {e}))
  /\ UNCHANGED <<tables, queue, zombie, waiting, events, tick, mutex, fatal>>

delete_event_reset(t) ==
  /\ Resume(t, "delete_event")
  /\ events' = [e \in Eids |-> IF e \in arg[t].eids THEN None ELSE events[e]]
  /\ Return(t)
  /\ UNCHANGED <<tables, queue, zombie, waiting, tick, mutex, fatal>>

-----------------------------------------------------------------------------
(* Exiting and joining.                                                    *)

\* cancel_events_of_thread; Thread::events itself is not cleared
cancel_events_of_thread(t) ==
  IF \E e \in Eids : waiting[t][e] > 0 /\ events[e] = None
  THEN fatal' = "unknown event_id" /\ UNCHANGED events
  ELSE /\ events' = [e \in Eids |-> IF waiting[t][e] > 0 THEN erase_all(events[e], t) ELSE events[e]]
       /\ fatal' = fatal

\* Deliberately wrong: nobody is notified of the exit.
exit_this_thread_silent(t) ==
  /\ Call(t, "exit_this_thread")
  /\ t # Kernel
  /\ zombie' = [zombie EXCEPT ![t] = TRUE]
  /\ Goto(t, "exit_sleep", NoArg)
  /\ UNCHANGED <<tables, queue, waiting, events, tick, mutex, fatal>>

\* exit_this_thread up to cancel_events_of_thread, with the lock held
exit_this_thread(t) ==
  /\ Call(t, "exit_this_thread")
  /\ t # Kernel
  /\ mutex' = 1
  /\ zombie' = [zombie EXCEPT ![t] = TRUE]
  /\ cancel_events_of_thread(t)
  /\ Goto(t, "exit_notify", NoArg)
  /\ UNCHANGED <<tables, queue, waiting, tick>>

\* notify_event(thread_joined_event) inside exit_thread takes the lock again
\* (aquire never waits) and its AutoLock gives it up on return.
exit_notify(t) ==
  /\ Resume(t, "exit_notify")
  /\ notify(thread_joined_event)
  /\ mutex' = 0
  /\ Goto(t, "exit_sleep", NoArg)
  /\ UNCHANGED <<tables, suspended, this_thread, zombie, tick, fatal>>

\* sleep_thread(lock, thread), the last thing a thread does
exit_sleep(t) ==
  /\ Resume(t, "exit_sleep")
  /\ sleep_this
  /\ UNCHANGED <<tables, zombie, waiting, events, tick, mutex, control>>

\* wait_event(lock, thread_joined_event) in the loops of wait_thread and
\* wait_process
wait_joined(t) == register(t, <<thread_joined_event>>, 1) /\ sleep_this

\* Deliberately wrong: any wake-up is taken for the exit of the target.
wait_thread_once(t, p, i) ==
  /\ \/ /\ Call(t, "wait_thread")
        /\ threads[p][i] # None
        /\ wait_joined(t)
        /\ Goto(t, "wait_thread", Arg(p, i, {}))
        /\ UNCHANGED threads
     \/ /\ Resume(t, "wait_thread")
        /\ threads' = [threads EXCEPT ![p][i] = None]
        /\ Return(t)
        /\ UNCHANGED <<queue, waiting, events, fatal>>
  /\ UNCHANGED <<processes, created, zombie, tick, mutex>>

\* One turn of wait_thread's loop: the target is gone, still alive, or a zombie
\* whose Thread object is freed.
wait_thread(t, p, i) ==
  /\ \/ Call(t, "wait_thread")
     \/ Resume(t, "wait_thread")
  /\ \/ /\ p \notin processes \/ threads[p][i] = None
        /\ Return(t)
        /\ UNCHANGED <<threads, queue, waiting, events, fatal>>
     \/ /\ threads[p][i] # None /\ ~zombie[threads[p][i]]
        /\ wait_joined(t)
        /\ Goto(t, "wait_thread", Arg(p, i, {}))
        /\ UNCHANGED threads
     \/ /\ threads[p][i] # None /\ zombie[threads[p][i]]
        /\ threads' = [threads EXCEPT ![p][i] = None]
        /\ Return(t)
        /\ UNCHANGED <<queue, waiting, events, fatal>>
  /\ UNCHANGED <<processes, created, zombie, tick, mutex>>

wait_process(t, p) ==
  /\ \/ Call(t, "wait_process")
     \/ Resume(t, "wait_process")
  /\ \/ /\ p \notin processes
        /\ Return(t)
        /\ UNCHANGED <<processes, queue, waiting, events, fatal>>
     \/ /\ p \in processes
        /\ \E i \in Tids : threads[p][i] # None
        /\ wait_joined(t)
        /\ Goto(t, "wait_process", Arg(p, 0, {}))
        /\ UNCHANGED processes
     \/ /\ p \in processes
        /\ \A i \in Tids : threads[p][i] = None
        /\ processes' = processes \ {p}
        /\ Return(t)
        /\ UNCHANGED <<queue, waiting, events, fatal>>
  /\ UNCHANGED <<threads, created, zombie, tick, mutex>>

-----------------------------------------------------------------------------
(* Interrupts.                                                             *)

NextTick == IF tick = MigratePeriod THEN 1 ELSE tick + 1
\* Deliberately wrong: the elapsed time is not compared with suspend_for.
elapse_never == suspended

elapse == [t \in Threads |-> IF suspended[t] > 0 THEN suspended[t] - 1 ELSE 0]

\* switch_thread_may_fail when try_aquire succeeds; message: the kernel
\* message queue does not look empty, so the kernel thread is woken.
timer_tick(message) ==
  LET woken == message /\ ~running_on[Kernel]
      rq == IF woken THEN Append(run_queue, Kernel) ELSE run_queue
      ro == [running_on EXCEPT ![Kernel] = @ \/ message]
  IN  /\ ~Halted /\ mutex = 0
      /\ tick' = NextTick
      /\ switch_thread(IF NextTick = MigratePeriod THEN migrate_threads(rq) ELSE rq, ro, elapse, NextTick)
      /\ UNCHANGED <<tables, zombie, waiting, events, mutex, control>>

\* The tick falls into a section of the running thread that holds the lock:
\* try_aquire fails and only the time advances.
timer_tick_missed ==
  /\ ~Halted /\ "missed_tick" \in Ops /\ this_thread # Idle
  /\ tick' = NextTick
  /\ suspended' = elapse
  /\ UNCHANGED <<tables, running_on, run_queue, this_thread, zombie, waiting, events, mutex, control, fatal>>

\* post_kernel_message by a device's interrupt handler, as far as the
\* scheduler is concerned: the kernel thread is woken unless the lock is held.
device_interrupt ==
  /\ ~Halted /\ mutex = 0
  /\ wakeup_threads(<<Kernel>>)
  /\ UNCHANGED <<tables, suspended, this_thread, zombie, waiting, events, tick, mutex, control, fatal>>

-----------------------------------------------------------------------------
\* The constructor: events of its own, the kernel process, and the captured
\* kernel thread and the idle thread of capture_context.
Init ==
  /\ processes = {kernel_pid}
  /\ threads = [p \in Pids |-> [i \in Tids |->
                 IF p = kernel_pid /\ i = 0 THEN Kernel
                 ELSE IF p = kernel_pid /\ i = 1 THEN Idle ELSE None]]
  /\ created = {Kernel, Idle}
  /\ zombie = [t \in Threads |-> FALSE]
  /\ running_on = [t \in Threads |-> t \in {Kernel, Idle}]
  /\ suspended = [t \in Threads |-> 0]
  /\ waiting = [t \in Threads |-> [e \in Eids |-> 0]]
  /\ run_queue = <<Kernel, Idle>>
  /\ this_thread = Kernel
  /\ events = [e \in Eids |-> IF e = thread_joined_event \/ e \in InitEids THEN <<>> ELSE None]
  /\ tick = 0
  /\ mutex = 0
  /\ pc = [t \in Threads |-> "run"]
  /\ arg = [t \in Threads |-> NoArg]
  /\ fatal = "none"

\* Steps of thread t that finish what it has begun
Continue(t) ==
  \/ exit_notify(t) \/ exit_sleep(t)
  \/ wait_events_return(t) \/ create_event_emplace(t) \/ delete_event_reset(t)
  \/ pc[t] = "wait_thread" /\ wait_thread(t, arg[t].pid, arg[t].tid)
  \/ pc[t] = "wait_process" /\ wait_process(t, arg[t].pid)

\* Calls by which thread t begins something
Begin(t) ==
  /\ t = this_thread /\ ~Halted
  /\ \/ create_process(t) \/ sleep_this_thread(t) \/ exit_this_thread(t)
     \/ \E p \in Pids : create_thread(t, p) \/ (pc[t] = "run" /\ wait_process(t, p))
     \/ \E p \in Pids, i \in Tids : wakeup_thread(t, p, i) \/ (pc[t] = "run" /\ wait_thread(t, p, i))
     \/ \E n \in 1..MaxSuspend : suspend_this_thread(t, n)
     \/ \E es \in Spans : wait_events(t, es) \/ unwait_events(t, es)
     \/ \E e \in UserEids : notify_event(t, e) \/ delete_event(t, e)
     \/ create_event(t)

Tick == \E message \in BOOLEAN : timer_tick(message)

\* After a fatal error or a use of freed memory
Stopped == Halted /\ UNCHANGED vars

Next == (\E t \in Threads : Begin(t) \/ Continue(t)) \/ Tick \/ timer_tick_missed \/ device_interrupt \/ Stopped

Spec == Init /\ [][Next]_vars

\* The timer keeps ticking, and a thread that is scheduled again and again gets
\* through the instructions of the call it is in.
Fairness == WF_vars(Tick) /\ \A t \in Threads \ {Idle} : SF_vars(Continue(t))

FairSpec == Spec /\ Fairness

-----------------------------------------------------------------------------
(* Properties.                                                             *)

\* Every variable keeps its type.
TypeOK ==
  /\ processes \subseteq Pids
  /\ threads \in [Pids -> [Tids -> Threads \cup {None}]]
  /\ created \subseteq Threads
  /\ zombie \in [Threads -> BOOLEAN]
  /\ running_on \in [Threads -> BOOLEAN]
  /\ suspended \in [Threads -> Nat]
  /\ waiting \in [Threads -> [Eids -> Nat]]
  /\ run_queue \in Seq(Threads)
  /\ this_thread \in Threads
  /\ events \in [Eids -> {None} \cup Seq(Threads)]
  /\ tick \in 0..MigratePeriod
  /\ mutex \in {0, 1}
  /\ pc \in [Threads -> PCs]
  /\ arg \in [Threads -> [pid : Pids, tid : Tids, eids : SUBSET Eids]]
  /\ fatal \in {"none", "run queue empty", "unknown event_id"}

\* The run queue holds exactly the threads whose running_on is valid, each of
\* them once, the running thread among them: no wake-up, sleep, tick or
\* migration ever queues a thread twice or loses it.
RunQueueExact ==
  /\ IsInjective(run_queue)
  /\ Range(run_queue) = {t \in Threads : running_on[t]}
  /\ running_on[this_thread]

\* The only way a freed Thread is still in the run queue: it was preempted in
\* exit_thread after notify_event gave the lock up, before sleep_thread.
FreedOnlyInExitWindow ==
  \A t \in Range(run_queue) : Freed(t) => pc[t] = "exit_sleep"

\* An event's list and Thread::events agree, number of registrations included,
\* for every thread that has not exited, and none that has exited is listed: a
\* notification wakes nobody who is gone.
RegistrationsMatch ==
  \A t \in Threads, e \in Eids :
    LET listed == IF events[e] = None THEN {} ELSE {k \in DOMAIN events[e] : events[e][k] = t} IN
    /\ ~zombie[t] => waiting[t][e] = Cardinality(listed)
    /\ zombie[t] \/ ~Allocated(t) => listed = {}

\* The Thread object in the slot that t waits for in wait_thread
Target(t) == threads[arg[t].pid][arg[t].tid]

\* No exit goes unnoticed: a thread asleep in wait_thread waits for a thread
\* that exists and has not yet notified its exit.
JoinNotLost ==
  \A t \in Threads : pc[t] = "wait_thread" /\ ~running_on[t] =>
    Target(t) # None /\ (zombie[Target(t)] => pc[Target(t)] = "exit_notify")

\* A thread asleep in wait_event(s) is still on the list of every event it
\* waits for: no notification of any of them was lost.
EventNotLost ==
  \A t \in Threads : pc[t] = "wait_events" /\ ~running_on[t] =>
    \A e \in arg[t].eids : events[e] # None /\ t \in Range(events[e])

\* A thread that has gone to sleep for good in exit_thread is never queued
\* again, whatever is notified or woken.
DeadStayAsleep ==
  [][\A t \in Threads : zombie[t] /\ ~running_on[t] => ~running_on'[t]]_vars

\* sleep_thread and switch_context are entered with the manager's lock held:
\* it is switch_context that unlocks it.
SleepHoldsLock == \A t \in Threads : t = this_thread /\ pc[t] = "exit_sleep" => mutex = 1

\* cancel_events_of_thread knows every event that a thread is registered with.
NoUnknownEvent == fatal # "unknown event_id"

\* wait_thread returns once its target has exited (or the run is stopped by
\* the use of a freed thread).
JoinReturns ==
  \A t \in Watched :
    (pc[t] = "wait_thread" /\ Target(t) # None /\ zombie[Target(t)])
    ~> (pc[t] = "run" \/ Halted)

\* A queued thread gets the processor or leaves the queue.
RoundRobin ==
  \A t \in Watched : t \in Range(run_queue) ~>
    (this_thread = t \/ t \notin Range(run_queue) \/ Halted)
=============================================================================
