---------------------------- MODULE EventProofs ----------------------------
(***************************************************************************)
(* Thread objects and events (ProcessManager): which threads are freed     *)
(* while they are still queued, and, as long as nobody creates or deletes  *)
(* events, that every registration is known on both sides and no           *)
(* notification is lost.  The argument is LifeInv, on top of Inv and       *)
(* JoinInvariant, and then SteadyInv.                                      *)
(***************************************************************************)
EXTENDS ProcessManagerProofs

Listed(t, e) == events[e] # None /\ t \in Range(events[e])

\* Only threads past the notification of their exit have been freed, and what
\* is in a slot, queued or registered has been created.
LifeInv ==
  /\ {Kernel, Idle} \subseteq created
  /\ \A t \in Threads : Freed(t) => pc[t] = "exit_sleep"
  /\ \A p \in Pids, i \in Tids : threads[p][i] # None => threads[p][i] \in created
  /\ \A t \in Threads : running_on[t] => t \in created
  /\ \A t \in Threads, e \in Eids : Listed(t, e) => t \in created

LEMMA LifeInit == Init => LifeInv
<1> SUFFICES ASSUME Init PROVE LifeInv
  BY Zenon
<1>1. created = {Kernel, Idle}
  BY Zenon DEF Init
<1>2. threads[0][0] = Kernel /\ threads[0][1] = Idle
  <2>1. 0 \in Pids /\ 0 \in Tids /\ 1 \in Tids
    BY ConstantsAssumption DEF Pids, Tids
  <2> QED BY <2>1 DEF Init, kernel_pid
<1>3. \A t \in Threads : ~Freed(t)
  <2>1. 0 \in Pids /\ 0 \in Tids /\ 1 \in Tids
    BY ConstantsAssumption DEF Pids, Tids
  <2> QED BY <1>1, <1>2, <2>1, ZenonT(60) DEF Freed, Allocated
<1>4. \A p \in Pids, i \in Tids : threads[p][i] # None => threads[p][i] \in created
  BY <1>1, Zenon DEF Init
<1>5. \A t \in Threads : running_on[t] => t \in created
  BY <1>1, Zenon DEF Init
<1>6. \A t \in Threads, e \in Eids : ~Listed(t, e)
  <2>1. \A e \in Eids : events[e] # None => events[e] = <<>>
    BY Zenon DEF Init
  <2>2. Range(<<>>) = {} BY DEF Range
  <2> QED BY <2>1, <2>2, Zenon DEF Listed
<1> QED BY <1>1, <1>3, <1>4, <1>5, <1>6, ZenonT(60) DEF LifeInv

\* A step that allocates and frees nothing, wakes and registers created threads
\* only, and brings nobody back from its exit.
LEMMA LifeFrame ==
  ASSUME LifeInv, UNCHANGED <<threads, created>>,
         \A t \in Threads : pc[t] = "exit_sleep" => pc'[t] = "exit_sleep",
         \A t \in Threads : running_on'[t] => running_on[t] \/ t \in created,
         \A t \in Threads, e \in Eids : Listed(t, e)' => Listed(t, e) \/ t \in created
  PROVE  LifeInv'
BY Zenon DEF LifeInv, Freed, Allocated

\* Going to sleep, waking and notifying concern created threads.
LEMMA LifeSleep ==
  ASSUME QueueInv, this_thread # Idle, sleep_this
  PROVE  \A t \in Threads : running_on'[t] => running_on[t]
<1>1. running_on' = [running_on EXCEPT ![this_thread] = FALSE]
  BY SleepThis, Zenon
<1> QED BY <1>1, Zenon DEF QueueInv

LEMMA LifeNotify ==
  ASSUME QueueInv, Types, LifeInv, NEW e \in Eids, notify(e), UNCHANGED <<suspended, this_thread>>
  PROVE  /\ \A t \in Threads : running_on'[t] => running_on[t] \/ t \in created
         /\ \A t \in Threads, d \in Eids : Listed(t, d)' => Listed(t, d)
<1>1. events[e] \in Seq(Threads) /\ events[e] # None
  BY NotifyTypes, Zenon DEF notify
<1>2. running_on' = [x \in Threads |-> running_on[x] \/ x \in Range(events[e])]
  BY <1>1, WakeupThreads, Zenon DEF notify
<1>3. \A t \in Threads : running_on'[t] => running_on[t] \/ t \in created
  BY <1>1, <1>2, Zenon DEF LifeInv, Listed
<1>4. events'[e] = <<>> /\ \A d \in Eids \ {e} : events'[d] = events[d]
  <2>1. DOMAIN events = Eids BY Zenon DEF Types
  <2> QED BY <2>1, Zenon DEF notify
<1>5. Range(<<>>) = {} BY DEF Range
<1>6. \A t \in Threads, d \in Eids : Listed(t, d)' => Listed(t, d)
  BY <1>4, <1>5, Zenon DEF Listed
<1> QED BY <1>3, <1>6, Zenon

LEMMA LifeRegister ==
  ASSUME Types, NEW t \in Threads, t \in created, NEW es, NEW n, register(t, es, n)
  PROVE  \A x \in Threads, e \in Eids : Listed(x, e)' => Listed(x, e) \/ x \in created
<1> DEFINE ids == {es[k] : k \in 1..n}
<1>1. /\ \A e \in ids : events[e] # None
      /\ events' = [e \in Eids |-> IF e \in ids THEN Append(events[e], t) ELSE events[e]]
  BY Zenon DEF register
<1> HIDE DEF ids
<1>2. ASSUME NEW e \in Eids \cap ids
      PROVE  Range(Append(events[e], t)) = Range(events[e]) \cup {t}
  <2>1. events[e] \in Seq(Threads)
    BY <1>1, Zenon DEF Types
  <2> QED BY <2>1, AppendElement
<1>3. ASSUME NEW x \in Threads, NEW e \in Eids, Listed(x, e)' PROVE Listed(x, e) \/ x \in created
  <2>1. CASE e \in ids
    BY <1>1, <1>2, <1>3, <2>1 DEF Listed
  <2>2. CASE e \notin ids
    BY <1>1, <1>3, <2>2, ZenonT(60) DEF Listed
  <2> QED BY <2>1, <2>2, Zenon
<1> QED BY <1>3, Zenon

\* A list without t has no new names on it.
LEMMA LifeErase ==
  ASSUME Types, NEW t, NEW ids, \A e \in Eids \cap ids : events[e] # None,
         events' = [e \in Eids |-> IF e \in ids THEN erase_all(events[e], t) ELSE events[e]]
  PROVE  \A x \in Threads, e \in Eids : Listed(x, e)' => Listed(x, e)
<1>1. ASSUME NEW e \in Eids \cap ids
      PROVE  Range(erase_all(events[e], t)) = Range(events[e]) \ {t}
  <2>1. events[e] \in Seq(Threads) BY Zenon DEF Types
  <2> QED BY <2>1, EraseAll, Zenon
<1> QED BY <1>1, Zenon DEF Listed

\* The running thread has been created.
LEMMA RunningCreated ==
  ASSUME QueueInv, LifeInv
  PROVE  this_thread \in created
BY Zenon DEF QueueInv, RunQueueExact, LifeInv

\* Calls that change neither the thread table nor anybody's position.
LEMMA LifeCalls ==
  ASSUME QueueInv, Types, LifeInv, NEW t \in Threads
  PROVE  /\ create_process(t) => LifeInv'
         /\ \A p \in Pids, i \in Tids : wakeup_thread(t, p, i) => LifeInv'
         /\ sleep_this_thread(t) => LifeInv'
         /\ \A n \in 1..MaxSuspend : suspend_this_thread(t, n) => LifeInv'
         /\ \A es \in Spans : unwait_events(t, es) => LifeInv'
         /\ \A e \in UserEids : notify_event(t, e) => LifeInv'
         /\ exit_sleep(t) => LifeInv'
<1>1. ASSUME create_process(t) PROVE LifeInv'
  BY <1>1, LifeFrame, Zenon DEF create_process, queue, control, Listed
<1>2. ASSUME NEW p \in Pids, NEW i \in Tids, wakeup_thread(t, p, i) PROVE LifeInv'
  <2>0. threads[p][i] \in Threads /\ threads[p][i] \in created
    <3>1. threads[p][i] # None BY <1>2, Zenon DEF wakeup_thread
    <3> QED BY <3>1, SlotType, Zenon DEF LifeInv
  <2>1. <<threads[p][i]>> \in Seq(Threads) BY <2>0
  <2>2. running_on' = [x \in Threads |-> running_on[x] \/ x \in Range(<<threads[p][i]>>)]
    BY <1>2, <2>1, WakeupThreads, Zenon DEF wakeup_thread
  <2>3. Range(<<threads[p][i]>>) = {threads[p][i]} BY Singleton, Zenon
  <2>4. UNCHANGED <<threads, created, pc, events>>
    BY <1>2, Zenon DEF wakeup_thread, tables, control
  <2>5. \A x \in Threads : running_on'[x] => running_on[x] \/ x \in created
    BY <2>0, <2>2, <2>3, ZenonT(60)
  <2> QED BY <2>4, <2>5, LifeFrame, Zenon DEF Listed
<1>3. ASSUME sleep_this_thread(t) PROVE LifeInv'
  <2>1. \A x \in Threads : running_on'[x] => running_on[x]
    BY <1>3, LifeSleep, ZenonT(60) DEF sleep_this_thread, Call
  <2> QED BY <1>3, <2>1, LifeFrame, ZenonT(60) DEF sleep_this_thread, tables, control, Listed
<1>4. ASSUME NEW n \in 1..MaxSuspend, suspend_this_thread(t, n) PROVE LifeInv'
  <2>1. running_on' = running_on
    BY <1>4, Zenon DEF suspend_this_thread, switch_thread
  <2> QED BY <1>4, <2>1, LifeFrame, ZenonT(60) DEF suspend_this_thread, tables, control, Listed
<1>5. ASSUME NEW es \in Spans, unwait_events(t, es) PROVE LifeInv'
  <2>1. PICK n \in 0..Len(es) :
          /\ \A k \in 1..n : events[es[k]] # None
          /\ events' = [e \in Eids |-> IF e \in {es[k] : k \in 1..n} THEN erase_all(events[e], t) ELSE events[e]]
    BY <1>5, Zenon DEF unwait_events
  <2>2. \A x \in Threads, e \in Eids : Listed(x, e)' => Listed(x, e)
    <3> DEFINE ids == {es[k] : k \in 1..n}
    <3>1. \A e \in Eids \cap ids : events[e] # None BY <2>1, ZenonT(60)
    <3>2. events' = [e \in Eids |-> IF e \in ids THEN erase_all(events[e], t) ELSE events[e]]
      BY <2>1, ZenonT(60)
    <3> HIDE DEF ids
    <3> QED BY <3>1, <3>2, LifeErase, ZenonT(60)
  <2> QED BY <1>5, <2>2, LifeFrame, ZenonT(60) DEF unwait_events, tables, queue, control
<1>6. ASSUME NEW e \in UserEids, notify_event(t, e) PROVE LifeInv'
  <2>0. e \in Eids BY Zenon DEF UserEids
  <2>1. /\ \A x \in Threads : running_on'[x] => running_on[x] \/ x \in created
        /\ \A x \in Threads, d \in Eids : Listed(x, d)' => Listed(x, d)
    BY <1>6, <2>0, LifeNotify, Zenon DEF notify_event
  <2> QED BY <1>6, <2>1, LifeFrame, ZenonT(60) DEF notify_event, tables, control
<1>7. ASSUME exit_sleep(t) PROVE LifeInv'
  <2>1. \A x \in Threads : running_on'[x] => running_on[x]
    BY <1>7, LifeSleep, CallerNotIdle, Zenon DEF exit_sleep, Resume
  <2> QED BY <1>7, <2>1, LifeFrame, Zenon DEF exit_sleep, tables, control, Listed
<1> QED BY <1>1, <1>2, <1>3, <1>4, <1>5, <1>6, <1>7, SMTT(30)
\* Joining: a Thread object is freed only once its thread has notified its exit.
LEMMA LifeTables ==
  ASSUME QueueInv, Types, LifeInv, NotifierRuns, ZombiesExit, NEW t \in Threads
  PROVE  /\ \A p \in Pids : create_thread(t, p) => LifeInv'
         /\ \A p \in Pids, i \in Tids : wait_thread(t, p, i) => LifeInv'
         /\ \A p \in Pids : wait_process(t, p) => LifeInv'
<1>a. \A q \in Pids : threads[q] \in [Tids -> Threads \cup {None}] /\ DOMAIN threads = Pids
  BY Zenon DEF Types
<1>b. \A l, a : Goto(t, l, a) => \A x \in Threads \ {t} : pc'[x] = pc[x]
  BY Zenon DEF Goto, Types
<1>c. t \in created \/ t # this_thread
  BY RunningCreated, ZenonT(60)
<1>1. ASSUME NEW p \in Pids, create_thread(t, p) PROVE LifeInv'
  <2>1. PICK x \in Threads \ created, i \in Tids :
          /\ threads[p][i] = None
          /\ threads' = [threads EXCEPT ![p][i] = x] /\ created' = created \cup {x}
    BY <1>1, Zenon DEF create_thread, IsEmptySlot
  <2>2. UNCHANGED <<pc, running_on, events>>
    BY <1>1, Zenon DEF create_thread, queue, control
  <2>3. \A q \in Pids, j \in Tids : threads'[q][j] = IF q = p /\ j = i THEN x ELSE threads[q][j]
    BY <1>a, <2>1, Zenon
  <2>4. \A y \in Threads : Freed(y)' => Freed(y)
    <3> SUFFICES ASSUME NEW y \in Threads, Freed(y)' PROVE Freed(y)
      BY Zenon
    <3>1. y # x BY <2>3, Zenon DEF Freed, Allocated
    <3>2. y \in created BY <2>1, <3>1, ZenonT(60) DEF Freed
    <3>3. ~Allocated(y)
      <4> SUFFICES ASSUME NEW q \in Pids, NEW j \in Tids, threads[q][j] = y PROVE FALSE
        BY Zenon DEF Allocated
      <4>1. ~(q = p /\ j = i) BY <2>1, ConstantsAssumption, ZenonT(60)
      <4> QED BY <2>3, <4>1, Zenon DEF Freed, Allocated
    <3> QED BY <3>2, <3>3, Zenon DEF Freed
  <2>5. \A q \in Pids, j \in Tids : threads'[q][j] # None => threads'[q][j] \in created'
    BY <2>1, <2>3 DEF LifeInv
  <2>6. created \subseteq created' BY <2>1, Zenon
  <2>7. {Kernel, Idle} \subseteq created' BY <2>6, Zenon DEF LifeInv
  <2>8. \A y \in Threads : Freed(y)' => pc'[y] = "exit_sleep" BY <2>2, <2>4, ZenonT(60) DEF LifeInv
  <2>9. \A y \in Threads : running_on'[y] => y \in created' BY <2>2, <2>6, ZenonT(60) DEF LifeInv
  <2>10. \A y \in Threads, e \in Eids : Listed(y, e)' => y \in created'
    BY <2>2, <2>6, Zenon DEF LifeInv, Listed
  <2> QED BY <2>5, <2>7, <2>8, <2>9, <2>10, ZenonT(60) DEF LifeInv
<1>2. ASSUME wait_joined(t), t = this_thread, t # Idle, pc[t] # "exit_sleep",
             UNCHANGED <<threads, created>>, NEW l, NEW a, Goto(t, l, a)
      PROVE  LifeInv'
  <2>1. \A x \in Threads : running_on'[x] => running_on[x]
    BY <1>2, LifeSleep, Zenon DEF wait_joined
  <2>2. \A x \in Threads, e \in Eids : Listed(x, e)' => Listed(x, e) \/ x \in created
    BY <1>2, <1>c, LifeRegister, ZenonT(60) DEF wait_joined
  <2>3. \A x \in Threads \ {t} : pc'[x] = pc[x]
    BY <1>2, <1>b, Zenon
  <2> QED BY <1>2, <2>1, <2>2, <2>3, LifeFrame, ZenonT(60)
<1>3. ASSUME NEW p \in Pids, NEW i \in Tids, wait_thread(t, p, i) PROVE LifeInv'
  <2>1. t = this_thread /\ pc[t] \in {"run", "wait_thread"} /\ t # Idle /\ created' = created
    BY <1>3, CallerNotIdle, Zenon DEF wait_thread, Call, Resume
  <2>2. Return(t) => \A x \in Threads \ {t} : pc'[x] = pc[x]
    BY <1>b, Zenon DEF Return
  <2>3. CASE Return(t) /\ UNCHANGED <<threads, queue, waiting, events, fatal>>
    BY <2>1, <2>2, <2>3, LifeFrame, ZenonT(60) DEF queue, Listed
  <2>4. CASE wait_joined(t) /\ Goto(t, "wait_thread", Arg(p, i, {})) /\ UNCHANGED threads
    BY <1>2, <2>1, <2>4, Zenon
  <2>5. CASE /\ threads[p][i] # None /\ zombie[threads[p][i]]
             /\ threads' = [threads EXCEPT ![p][i] = None]
             /\ Return(t) /\ UNCHANGED <<queue, waiting, events, fatal>>
    <3>1. threads[p][i] \in Threads
      BY <2>5, SlotType, Zenon
    <3>2. pc[threads[p][i]] = "exit_sleep" /\ threads[p][i] # t
      BY <2>1, <2>5, <3>1, ZenonT(60) DEF ZombiesExit, NotifierRuns
    <3>3. \A q \in Pids, j \in Tids : threads'[q][j] = IF q = p /\ j = i THEN None ELSE threads[q][j]
      BY <1>a, <2>5, ZenonT(60)
    <3>4. \A y \in Threads : Freed(y)' => Freed(y) \/ y = threads[p][i]
      BY <2>1, <3>3 DEF Freed, Allocated
    <3>5. \A y \in Threads : pc[y] = "exit_sleep" => pc'[y] = "exit_sleep"
      BY <2>1, <2>2, <2>5, ZenonT(60)
    <3>6. \A y \in Threads : Freed(y)' => pc'[y] = "exit_sleep"
      BY <3>2, <3>4, <3>5, ZenonT(60) DEF LifeInv
    <3>7. \A q \in Pids, j \in Tids : threads'[q][j] # None => threads'[q][j] \in created'
      BY <2>1, <3>3 DEF LifeInv
    <3> QED BY <2>1, <2>5, <3>6, <3>7, ZenonT(60) DEF LifeInv, queue, Listed
  <2> QED BY <1>3, <2>3, <2>4, <2>5, ZenonT(60) DEF wait_thread
<1>4. ASSUME NEW p \in Pids, wait_process(t, p) PROVE LifeInv'
  <2>1. /\ t = this_thread /\ pc[t] \in {"run", "wait_process"} /\ t # Idle
        /\ UNCHANGED <<threads, created>>
    BY <1>4, CallerNotIdle, Zenon DEF wait_process, Call, Resume
  <2>2. CASE Return(t) /\ UNCHANGED <<queue, waiting, events, fatal>>
    <3>1. \A x \in Threads \ {t} : pc'[x] = pc[x]
      BY <1>b, <2>2, Zenon DEF Return
    <3> QED BY <2>1, <2>2, <3>1, LifeFrame, ZenonT(60) DEF queue, Listed
  <2>3. CASE wait_joined(t) /\ Goto(t, "wait_process", Arg(p, 0, {}))
    BY <1>2, <2>1, <2>3, ZenonT(60)
  <2> QED BY <1>4, <2>2, <2>3, ZenonT(60) DEF wait_process
<1> QED BY <1>1, <1>3, <1>4, ZenonT(60)
\* Waiting for events, and creating and deleting them.
LEMMA LifeEvents ==
  ASSUME QueueInv, Types, LifeInv, NEW t \in Threads
  PROVE  /\ \A es \in Spans : wait_events(t, es) => LifeInv'
         /\ wait_events_return(t) => LifeInv'
         /\ create_event(t) => LifeInv'
         /\ create_event_emplace(t) => LifeInv'
         /\ \A e \in UserEids : delete_event(t, e) => LifeInv'
         /\ delete_event_reset(t) => LifeInv'
<1>b. \A l, a : Goto(t, l, a) => \A x \in Threads \ {t} : pc'[x] = pc[x]
  BY Zenon DEF Goto, Types
<1>c. t \in created \/ t # this_thread
  BY RunningCreated, Zenon
<1>d. ASSUME pc[t] # "exit_sleep", UNCHANGED <<threads, created, running_on>>, NEW l, NEW a, Goto(t, l, a),
             \A x \in Threads, e \in Eids : Listed(x, e)' => Listed(x, e)
      PROVE  LifeInv'
  <2>1. \A x \in Threads \ {t} : pc'[x] = pc[x]
    BY <1>b, <1>d, Zenon
  <2> QED BY <1>d, <2>1, LifeFrame, ZenonT(60)
<1>1. ASSUME NEW es \in Spans, wait_events(t, es) PROVE LifeInv'
  <2>1. t = this_thread /\ t # Idle /\ pc[t] = "run" /\ UNCHANGED <<threads, created>>
    BY <1>1, Zenon DEF wait_events, Call, tables
  <2>2. PICK n \in 0..Len(es) :
          /\ register(t, es, n)
          /\ IF n = Len(es)
             THEN sleep_this /\ Goto(t, "wait_events", Arg(0, 0, {es[k] : k \in 1..n}))
             ELSE UNCHANGED <<queue, fatal, control>>
    BY <1>1, Zenon DEF wait_events
  <2>3. \A x \in Threads, e \in Eids : Listed(x, e)' => Listed(x, e) \/ x \in created
    BY <1>c, <2>1, <2>2, LifeRegister, ZenonT(60)
  <2>4. CASE n = Len(es)
    <3>1. \A x \in Threads : running_on'[x] => running_on[x]
      BY <2>1, <2>2, <2>4, LifeSleep, ZenonT(60)
    <3>2. \A x \in Threads \ {t} : pc'[x] = pc[x]
      BY <1>b, <2>2, <2>4, ZenonT(60)
    <3> QED BY <2>1, <2>3, <3>1, <3>2, LifeFrame, ZenonT(60)
  <2>5. CASE n # Len(es)
    BY <2>1, <2>2, <2>3, <2>5, LifeFrame, ZenonT(60) DEF queue, control
  <2> QED BY <2>4, <2>5, Zenon
<1>2. ASSUME wait_events_return(t) PROVE LifeInv'
  BY <1>2, <1>d, ZenonT(60) DEF wait_events_return, Resume, Return, tables, queue, Listed
<1>3. ASSUME create_event(t) PROVE LifeInv'
  BY <1>3, <1>d, ZenonT(60) DEF create_event, Call, tables, queue, Listed
<1>4. ASSUME create_event_emplace(t) PROVE LifeInv'
  <2>1. events' = [e \in Eids |-> IF e \in arg[t].eids THEN <<>> ELSE events[e]]
    BY <1>4, Zenon DEF create_event_emplace
  <2>2. Range(<<>>) = {} BY DEF Range
  <2>3. \A x \in Threads, e \in Eids : Listed(x, e)' => Listed(x, e)
    BY <2>1, <2>2, Zenon DEF Listed
  <2> QED BY <1>4, <1>d, <2>3, ZenonT(60) DEF create_event_emplace, Resume, Return, tables, queue
<1>5. ASSUME NEW e \in UserEids, delete_event(t, e) PROVE LifeInv'
  BY <1>5, <1>d, Zenon DEF delete_event, Call, tables, queue, Listed
<1>6. ASSUME delete_event_reset(t) PROVE LifeInv'
  <2>1. events' = [e \in Eids |-> IF e \in arg[t].eids THEN None ELSE events[e]]
    BY <1>6, Zenon DEF delete_event_reset
  <2>2. \A x \in Threads, e \in Eids : Listed(x, e)' => Listed(x, e)
    BY <2>1, Zenon DEF Listed
  <2> QED BY <1>6, <1>d, <2>2, ZenonT(60) DEF delete_event_reset, Resume, Return, tables, queue
<1> QED BY <1>1, <1>2, <1>3, <1>4, <1>5, <1>6, ZenonT(60)

\* Exits and interrupts.
LEMMA LifeExit ==
  ASSUME QueueInv, Types, LifeInv, NEW t \in Threads
  PROVE  exit_this_thread(t) \/ exit_notify(t) => LifeInv'
<1>b. \A l, a : Goto(t, l, a) => \A x \in Threads \ {t} : pc'[x] = pc[x]
  BY Zenon DEF Goto, Types
<1>1. ASSUME exit_this_thread(t) PROVE LifeInv'
  <2>1. /\ pc[t] = "run" /\ UNCHANGED <<threads, created, running_on>>
        /\ Goto(t, "exit_notify", NoArg) /\ cancel_events_of_thread(t)
    BY <1>1, Zenon DEF exit_this_thread, Call, tables, queue
  <2>2. \A x \in Threads, e \in Eids : Listed(x, e)' => Listed(x, e)
    <3>1. CASE \E e \in Eids : waiting[t][e] > 0 /\ events[e] = None
      BY <2>1, <3>1, Zenon DEF cancel_events_of_thread, Listed
    <3>2. CASE ~ \E e \in Eids : waiting[t][e] > 0 /\ events[e] = None
      <4> DEFINE ids == {e \in Eids : waiting[t][e] > 0}
      <4>1. events' = [e \in Eids |-> IF e \in ids THEN erase_all(events[e], t) ELSE events[e]]
        BY <2>1, <3>2, Zenon DEF cancel_events_of_thread
      <4>2. \A e \in Eids \cap ids : events[e] # None
        BY <3>2, Zenon
      <4> HIDE DEF ids
      <4> QED BY <4>1, <4>2, LifeErase, ZenonT(60)
    <3> QED BY <3>1, <3>2, Zenon
  <2>3. \A x \in Threads \ {t} : pc'[x] = pc[x]
    BY <1>b, <2>1, Zenon
  <2> QED BY <2>1, <2>2, <2>3, LifeFrame, ZenonT(60)
<1>2. ASSUME exit_notify(t) PROVE LifeInv'
  <2>1. thread_joined_event \in Eids
    BY ArgType, Zenon DEF thread_joined_event
  <2>2. /\ \A x \in Threads : running_on'[x] => running_on[x] \/ x \in created
        /\ \A x \in Threads, d \in Eids : Listed(x, d)' => Listed(x, d)
    BY <1>2, <2>1, LifeNotify, ZenonT(60) DEF exit_notify
  <2>3. \A x \in Threads \ {t} : pc'[x] = pc[x]
    BY <1>2, <1>b, ZenonT(60) DEF exit_notify
  <2>4. pc[t] = "exit_notify" /\ UNCHANGED <<threads, created>>
    BY <1>2, Zenon DEF exit_notify, Resume, tables
  <2> QED BY <2>2, <2>3, <2>4, LifeFrame, ZenonT(60)
<1> QED BY <1>1, <1>2, Zenon

LEMMA LifeInterrupts ==
  ASSUME QueueInv, Types, LifeInv
  PROVE  Tick \/ timer_tick_missed \/ device_interrupt => LifeInv'
<1>k. Kernel \in created /\ Kernel \in Threads
  BY ConstantsAssumption, Zenon DEF LifeInv
<1>1. ASSUME NEW message \in BOOLEAN, timer_tick(message) PROVE LifeInv'
  <2>1. running_on' = [running_on EXCEPT ![Kernel] = @ \/ message]
    BY <1>1, TimerTick, ZenonT(60) DEF Types
  <2>2. \A x \in Threads : running_on'[x] => running_on[x] \/ x \in created
    BY <1>k, <2>1, Zenon DEF QueueInv
  <2> QED BY <1>1, <2>2, LifeFrame, ZenonT(60) DEF timer_tick, tables, control, Listed
<1>2. ASSUME timer_tick_missed PROVE LifeInv'
  BY <1>2, LifeFrame, Zenon DEF timer_tick_missed, tables, control, Listed
<1>3. ASSUME device_interrupt PROVE LifeInv'
  <2>1. <<Kernel>> \in Seq(Threads)
    BY ConstantsAssumption
  <2>2. Range(<<Kernel>>) = {Kernel} BY Singleton, Zenon
  <2>3. running_on' = [x \in Threads |-> running_on[x] \/ x \in Range(<<Kernel>>)]
    BY <1>3, <2>1, WakeupThreads, ZenonT(60) DEF device_interrupt
  <2>4. \A x \in Threads : running_on'[x] => running_on[x] \/ x \in created
    BY <1>k, <2>2, <2>3, ZenonT(60)
  <2> QED BY <1>3, <2>4, LifeFrame, ZenonT(60) DEF device_interrupt, tables, control, Listed
<1> QED BY <1>1, <1>2, <1>3, ZenonT(60) DEF Tick

LEMMA LifeNext == Inv /\ JoinInvariant /\ LifeInv /\ [Next]_vars => LifeInv'
<1> SUFFICES ASSUME Inv, JoinInvariant, LifeInv, [Next]_vars PROVE LifeInv'
  BY Zenon
<1>0. QueueInv /\ Types /\ NotifierRuns /\ ZombiesExit
  BY InvParts, Zenon DEF JoinInvariant
<1>1. ASSUME NEW t \in Threads, Begin(t) PROVE LifeInv'
  <2>1. CASE create_process(t) \/ sleep_this_thread(t) \/ exit_this_thread(t) \/ create_event(t)
    BY <1>0, <2>1, LifeCalls, LifeExit, LifeEvents, ZenonT(60)
  <2>2. CASE \E p \in Pids : create_thread(t, p) \/ (pc[t] = "run" /\ wait_process(t, p))
    BY <1>0, <2>2, LifeTables, ZenonT(60)
  <2>3. CASE \E p \in Pids, i \in Tids :
               wakeup_thread(t, p, i) \/ (pc[t] = "run" /\ wait_thread(t, p, i))
    BY <1>0, <2>3, LifeCalls, LifeTables, ZenonT(60)
  <2>4. CASE \E n \in 1..MaxSuspend : suspend_this_thread(t, n)
    BY <1>0, <2>4, LifeCalls, ZenonT(60)
  <2>5. CASE \E es \in Spans : wait_events(t, es) \/ unwait_events(t, es)
    BY <1>0, <2>5, LifeCalls, LifeEvents, ZenonT(60)
  <2>6. CASE \E e \in UserEids : notify_event(t, e) \/ delete_event(t, e)
    BY <1>0, <2>6, LifeCalls, LifeEvents, ZenonT(60)
  <2> QED BY <1>1, <2>1, <2>2, <2>3, <2>4, <2>5, <2>6, ZenonT(60) DEF Begin
<1>2. ASSUME NEW t \in Threads, Continue(t) PROVE LifeInv'
  <2>1. arg[t].pid \in Pids /\ arg[t].tid \in Tids BY <1>0, Zenon DEF Types
  <2>2. CASE exit_notify(t) \/ exit_sleep(t)
    BY <1>0, <2>2, LifeCalls, LifeExit, ZenonT(60)
  <2>3. CASE wait_events_return(t) \/ create_event_emplace(t) \/ delete_event_reset(t)
    BY <1>0, <2>3, LifeEvents, ZenonT(60)
  <2>4. CASE wait_thread(t, arg[t].pid, arg[t].tid) \/ wait_process(t, arg[t].pid)
    BY <1>0, <2>1, <2>4, LifeTables, ZenonT(60)
  <2> QED BY <1>2, <2>2, <2>3, <2>4, ZenonT(60) DEF Continue
<1>3. CASE Tick \/ timer_tick_missed \/ device_interrupt
  BY <1>0, <1>3, LifeInterrupts, ZenonT(60)
<1>4. CASE UNCHANGED vars
  BY <1>4, LifeFrame, Zenon DEF vars, tables, control, queue, Listed
<1> QED BY <1>1, <1>2, <1>3, <1>4, ZenonT(60) DEF Next, Stopped

LEMMA LifeInvariance == Spec => [](Inv /\ JoinInvariant /\ LifeInv)
BY LifeInit, LifeNext, JoinInvariance, PTL DEF Spec

\* A freed Thread that is still in the run queue was preempted between the
\* notification of its exit and its last sleep_thread: wait_thread frees no
\* thread elsewhere in its life, whatever the calls and ticks around it.
THEOREM FreedInExitWindow == Spec => []FreedOnlyInExitWindow
<1>1. Inv /\ LifeInv => FreedOnlyInExitWindow
  <2> SUFFICES ASSUME QueueInv, LifeInv, NEW t \in Range(run_queue), Freed(t) PROVE pc[t] = "exit_sleep"
    BY InvParts, Zenon DEF FreedOnlyInExitWindow
  <2>1. t \in Threads BY DEF QueueInv, Range
  <2> QED BY <2>1, Zenon DEF LifeInv
<1> QED BY <1>1, LifeInvariance, PTL
-----------------------------------------------------------------------------
(* Registrations.  create_event and delete_event look at the table and     *)
(* change it under a lock that nobody waits for, and a tick in between can *)
(* reset a list that has members by then (run process_event_deleted), so   *)
(* what follows is about instances whose events are made at the start.     *)

SteadyEvents == Ops \cap {"create_event", "delete_event"} = {}

\* How often t is registered with e.
Count(t, e) == IF events[e] = None THEN 0 ELSE Cardinality(Occurrences(events[e], t))

\* A thread that has not exited holds as many registrations with an event as the
\* event's list has entries of it, so cancel_events_of_thread meets no unknown
\* event, and a thread asleep in wait_event(s) is on every list it waits for.
SteadyInv ==
  /\ fatal = "none"
  /\ \A t \in Threads : pc[t] \notin {"create_event", "delete_event"}
  /\ \A t \in Threads, e \in Eids : ~zombie[t] => waiting[t][e] = Count(t, e)
  /\ \A t \in Threads : pc[t] = "wait_events" /\ ~running_on[t] =>
       \A e \in arg[t].eids : Listed(t, e)

LEMMA CountZero ==
  ASSUME Types, NEW t \in Threads, NEW e \in Eids
  PROVE  Count(t, e) \in Nat /\ (Count(t, e) = 0 <=> ~Listed(t, e))
<1>1. CASE events[e] = None
  BY <1>1, Zenon DEF Count, Listed
<1>2. CASE events[e] # None
  <2>1. events[e] \in Seq(Threads) BY <1>2, Zenon DEF Types
  <2>2. /\ Cardinality(Occurrences(events[e], t)) \in Nat
        /\ Cardinality(Occurrences(events[e], t)) = 0 <=> t \notin Range(events[e])
    BY <2>1, OccurrencesFinite, Zenon
  <2> QED BY <1>2, <2>2, Zenon DEF Count, Listed
<1> QED BY <1>1, <1>2, Zenon

LEMMA SteadyInit == Init => SteadyInv
<1> SUFFICES ASSUME Init PROVE SteadyInv
  BY Zenon
<1>0. Types BY InvInit, InvParts, Zenon
<1>1. \A t \in Threads, e \in Eids : ~Listed(t, e)
  <2>1. \A e \in Eids : events[e] # None => events[e] = <<>>
    BY Zenon DEF Init
  <2>2. Range(<<>>) = {} BY DEF Range
  <2> QED BY <2>1, <2>2, Zenon DEF Listed
<1>2. \A t \in Threads, e \in Eids : waiting[t][e] = 0
  BY Zenon DEF Init
<1>3. \A t \in Threads, e \in Eids : waiting[t][e] = Count(t, e)
  BY <1>0, <1>1, <1>2, CountZero, ZenonT(60)
<1>4. fatal = "none" /\ \A t \in Threads : pc[t] = "run"
  BY Zenon DEF Init
<1> QED BY <1>3, <1>4, Zenon DEF SteadyInv

\* A step that leaves the registrations alone and puts nobody to sleep in
\* wait_event(s).
LEMMA SteadyFrame ==
  ASSUME SteadyInv, UNCHANGED <<zombie, waiting, events, fatal>>,
         \A t \in Threads : pc'[t] \notin {"create_event", "delete_event"},
         \A t \in Threads : pc'[t] = "wait_events" /\ ~running_on'[t] =>
           pc[t] = "wait_events" /\ ~running_on[t] /\ arg'[t] = arg[t]
  PROVE  SteadyInv'
BY Zenon DEF SteadyInv, Count, Listed

\* Registering adds one on both sides.
LEMMA SteadyRegister ==
  ASSUME Types, NEW t \in Threads, NEW es, NEW n, register(t, es, n)
  PROVE  /\ \A x \in Threads, e \in Eids :
              /\ waiting[x][e] = Count(x, e) => waiting'[x][e] = Count(x, e)'
              /\ Listed(x, e) => Listed(x, e)'
         /\ \A e \in Eids : e \in {es[k] : k \in 1..n} => Listed(t, e)'
<1> DEFINE ids == {es[k] : k \in 1..n}
<1>1. /\ \A e \in ids : events[e] # None
      /\ events' = [e \in Eids |-> IF e \in ids THEN Append(events[e], t) ELSE events[e]]
      /\ waiting' = [waiting EXCEPT ![t] =
                       [e \in Eids |-> IF e \in ids THEN waiting[t][e] + 1 ELSE waiting[t][e]]]
  BY Zenon DEF register
<1> HIDE DEF ids
<1>2. waiting \in [Threads -> [Eids -> Nat]] BY Zenon DEF Types
<1>3. \A x \in Threads, e \in Eids :
        waiting'[x][e] = IF x = t /\ e \in ids THEN waiting[x][e] + 1 ELSE waiting[x][e]
  BY <1>1, <1>2, ZenonT(60)
<1>4. ASSUME NEW x \in Threads, NEW e \in Eids
      PROVE  /\ waiting[x][e] = Count(x, e) => waiting'[x][e] = Count(x, e)'
             /\ Listed(x, e) => Listed(x, e)'
             /\ e \in ids => Listed(t, e)'
  <2>1. CASE e \in ids
    <3>1. events[e] \in Seq(Threads) /\ events[e] # None
      BY <1>1, <2>1, ZenonT(60) DEF Types
    <3>2. /\ events'[e] = Append(events[e], t)
          /\ Append(events[e], t) \in Seq(Threads)
          /\ Range(Append(events[e], t)) = Range(events[e]) \cup {t}
      BY <1>1, <2>1, <3>1, AppendElement, SMTT(30)
    <3>3. events'[e] # None BY <3>2, ConstantsAssumption, ZenonT(60)
    <3>4. Cardinality(Occurrences(Append(events[e], t), x)) =
            Cardinality(Occurrences(events[e], x)) + (IF x = t THEN 1 ELSE 0)
      BY <3>1, AppendOccurrences, SMTT(30)
    <3>5. Cardinality(Occurrences(events[e], x)) \in Nat
      BY <3>1, OccurrencesFinite, ZenonT(60)
    <3>6. Count(x, e)' = Count(x, e) + (IF x = t THEN 1 ELSE 0) /\ Count(x, e) \in Nat
      BY <3>1, <3>2, <3>3, <3>4, <3>5, ZenonT(60) DEF Count
    <3>7. waiting[x][e] = Count(x, e) => waiting'[x][e] = Count(x, e)'
      BY <1>3, <2>1, <3>6, SMTT(30)
    <3> QED BY <3>1, <3>2, <3>3, <3>7, ZenonT(60) DEF Listed
  <2>2. CASE e \notin ids
    <3>1. events'[e] = events[e] /\ waiting'[x][e] = waiting[x][e]
      BY <1>1, <1>3, <2>2, ZenonT(60)
    <3> QED BY <2>2, <3>1, ZenonT(60) DEF Count, Listed
  <2> QED BY <2>1, <2>2, ZenonT(60)
<1> QED BY <1>4, Zenon DEF ids

\* Erasing t from lists leaves the other threads' entries alone.
LEMMA SteadyErase ==
  ASSUME Types, NEW t \in Threads, NEW ids, \A e \in Eids \cap ids : events[e] # None,
         events' = [e \in Eids |-> IF e \in ids THEN erase_all(events[e], t) ELSE events[e]]
  PROVE  /\ \A x \in Threads, e \in Eids : x # t \/ e \notin ids =>
              Count(x, e)' = Count(x, e) /\ (Listed(x, e) => Listed(x, e)')
         /\ \A e \in Eids \cap ids : Count(t, e)' = 0
<1>1. ASSUME NEW e \in Eids \cap ids
      PROVE  /\ events[e] \in Seq(Threads) /\ events[e] # None
             /\ events'[e] = erase_all(events[e], t)
             /\ events'[e] \in Seq(Threads) /\ events'[e] # None
             /\ Range(events'[e]) = Range(events[e]) \ {t}
  <2>1. events[e] \in Seq(Threads) /\ events[e] # None BY Zenon DEF Types
  <2>2. /\ erase_all(events[e], t) \in Seq(Threads)
        /\ Range(erase_all(events[e], t)) = Range(events[e]) \ {t}
    BY <2>1, EraseAll, ZenonT(60)
  <2>3. events'[e] = erase_all(events[e], t) BY Zenon
  <2> QED BY <2>1, <2>2, <2>3, ConstantsAssumption, ZenonT(60)
<1>2. ASSUME NEW x \in Threads, NEW e \in Eids, x # t \/ e \notin ids
      PROVE  Count(x, e)' = Count(x, e) /\ (Listed(x, e) => Listed(x, e)')
  <2>1. CASE e \in ids
    <3>1. Cardinality(Occurrences(erase_all(events[e], t), x)) = Cardinality(Occurrences(events[e], x))
      BY <1>1, <1>2, <2>1, EraseAllOccurrences, ZenonT(60)
    <3>2. Count(x, e)' = Count(x, e)
      BY <1>1, <2>1, <3>1, ZenonT(60) DEF Count
    <3>3. Listed(x, e) => Listed(x, e)'
      BY <1>1, <1>2, <2>1, ZenonT(60) DEF Listed
    <3> QED BY <3>2, <3>3, ZenonT(60)
  <2>2. CASE e \notin ids
    <3>1. events'[e] = events[e] BY <2>2, Zenon
    <3> QED BY <3>1, Zenon DEF Count, Listed
  <2> QED BY <2>1, <2>2, ZenonT(60)
<1>3. ASSUME NEW e \in Eids \cap ids PROVE Count(t, e)' = 0
  <2>1. t \notin Range(events'[e]) /\ events'[e] \in Seq(Threads) BY <1>1, Zenon
  <2>2. Cardinality(Occurrences(events'[e], t)) = 0
    BY <2>1, OccurrencesFinite, ZenonT(60)
  <2> QED BY <2>2, Zenon DEF Count
<1> QED BY <1>2, <1>3, Zenon

\* Notifying e takes every thread off its list and forgets it on both sides.
LEMMA SteadyNotify ==
  ASSUME QueueInv, Types, SteadyInv, NEW e \in Eids, notify(e),
         UNCHANGED <<suspended, this_thread, zombie>>
  PROVE  /\ \A x \in Threads, d \in Eids : ~zombie'[x] => waiting'[x][d] = Count(x, d)'
         /\ \A x \in Threads : ~running_on'[x] => ~running_on[x] /\ ~Listed(x, e)
         /\ \A x \in Threads, d \in Eids \ {e} : Listed(x, d) => Listed(x, d)'
<1>1. events[e] \in Seq(Threads) /\ events[e] # None
  BY NotifyTypes, Zenon DEF notify
<1>2. running_on' = [x \in Threads |-> running_on[x] \/ x \in Range(events[e])]
  BY <1>1, WakeupThreads, ZenonT(60) DEF notify
<1>3. events'[e] = <<>> /\ \A d \in Eids \ {e} : events'[d] = events[d]
  <2>1. DOMAIN events = Eids BY Zenon DEF Types
  <2> QED BY <2>1, Zenon DEF notify
<1>4. \A x \in Threads, d \in Eids :
        waiting'[x][d] = IF d = e /\ x \in Range(events[e]) THEN 0 ELSE waiting[x][d]
  <2>1. waiting \in [Threads -> [Eids -> Nat]] BY Zenon DEF Types
  <2> QED BY <2>1, Zenon DEF notify
<1>5. \A x \in Threads : Count(x, e)' = 0
  <2>2. \A x \in Threads : Occurrences(<<>>, x) = {} BY DEF Occurrences
  <2> QED BY <1>3, <2>2, FS_EmptySet, ZenonT(60) DEF Count
<1>6. \A x \in Threads, d \in Eids : ~zombie'[x] => waiting'[x][d] = Count(x, d)'
  <2> SUFFICES ASSUME NEW x \in Threads, NEW d \in Eids, ~zombie[x] PROVE waiting'[x][d] = Count(x, d)'
    BY Zenon
  <2>0. waiting[x][d] = Count(x, d) BY Zenon DEF SteadyInv
  <2>1. CASE d = e
    <3>1. Count(x, e) = 0 <=> x \notin Range(events[e]) BY <1>1, CountZero, ZenonT(60) DEF Listed
    <3> QED BY <1>4, <1>5, <2>0, <2>1, <3>1, ZenonT(60)
  <2>2. CASE d # e
    <3>1. events'[d] = events[d] BY <1>3, <2>2, ZenonT(60)
    <3> QED BY <1>4, <2>0, <2>2, <3>1, ZenonT(60) DEF Count
  <2> QED BY <2>1, <2>2, ZenonT(60)
<1>7. \A x \in Threads : ~running_on'[x] => ~running_on[x] /\ ~Listed(x, e)
  BY <1>2, Zenon DEF Listed
<1>8. \A x \in Threads, d \in Eids \ {e} : Listed(x, d) => Listed(x, d)'
  BY <1>3, Zenon DEF Listed
<1> QED BY <1>6, <1>7, <1>8, ZenonT(60)

\* Steps that register and unregister nobody.
LEMMA SteadyCalls ==
  ASSUME QueueInv, Types, SteadyInv, NEW t \in Threads
  PROVE  /\ create_process(t) => SteadyInv'
         /\ \A p \in Pids : create_thread(t, p) => SteadyInv'
         /\ \A p \in Pids, i \in Tids : wakeup_thread(t, p, i) => SteadyInv'
         /\ sleep_this_thread(t) => SteadyInv'
         /\ \A n \in 1..MaxSuspend : suspend_this_thread(t, n) => SteadyInv'
         /\ wait_events_return(t) => SteadyInv'
         /\ exit_sleep(t) => SteadyInv'
<1>a. ASSUME UNCHANGED <<zombie, waiting, events, fatal, pc, arg>>,
             \A x \in Threads : ~running_on'[x] => ~running_on[x] \/ pc[x] # "wait_events"
      PROVE  SteadyInv'
  <2>1. \A x \in Threads : pc'[x] \notin {"create_event", "delete_event"}
    BY <1>a, Zenon DEF SteadyInv
  <2> QED BY <1>a, <2>1, SteadyFrame, ZenonT(60)
<1>1. ASSUME create_process(t) PROVE SteadyInv'
  BY <1>1, <1>a, ZenonT(60) DEF create_process, queue, control
<1>2. ASSUME NEW p \in Pids, create_thread(t, p) PROVE SteadyInv'
  BY <1>2, <1>a, ZenonT(60) DEF create_thread, queue, control
<1>3. ASSUME NEW p \in Pids, NEW i \in Tids, wakeup_thread(t, p, i) PROVE SteadyInv'
  <2>0. threads[p][i] \in Threads
    <3>1. threads[p][i] # None BY <1>3, ZenonT(60) DEF wakeup_thread
    <3> QED BY <3>1, SlotType, ZenonT(60)
  <2>1. <<threads[p][i]>> \in Seq(Threads) BY <2>0
  <2>2. running_on' = [x \in Threads |-> running_on[x] \/ x \in Range(<<threads[p][i]>>)]
    BY <1>3, <2>1, WakeupThreads, ZenonT(60) DEF wakeup_thread
  <2>3. \A x \in Threads : ~running_on'[x] => ~running_on[x]
    BY <2>2, ZenonT(60)
  <2> QED BY <1>3, <1>a, <2>3, ZenonT(60) DEF wakeup_thread, control
<1>4. ASSUME sleep_this_thread(t) \/ exit_sleep(t) PROVE SteadyInv'
  <2>1. /\ t = this_thread /\ t # Idle /\ sleep_this /\ pc[t] # "wait_events"
        /\ UNCHANGED <<zombie, waiting, events, pc, arg>>
    BY <1>4, CallerNotIdle, ZenonT(60) DEF sleep_this_thread, exit_sleep, Call, Resume, control
  <2>2. fatal' = fatal /\ running_on' = [running_on EXCEPT ![this_thread] = FALSE]
    BY <2>1, SleepThis, ZenonT(60)
  <2>3. \A x \in Threads : ~running_on'[x] => ~running_on[x] \/ pc[x] # "wait_events"
    BY <2>1, <2>2, ZenonT(60) DEF QueueInv
  <2> QED BY <1>a, <2>1, <2>2, <2>3, ZenonT(60)
<1>5. ASSUME NEW n \in 1..MaxSuspend, suspend_this_thread(t, n) PROVE SteadyInv'
  <2>1. running_on' = running_on
    BY <1>5, ZenonT(60) DEF suspend_this_thread, switch_thread
  <2>2. fatal' = fatal
    <3>1. t # Idle /\ t = this_thread
      BY <1>5, CallerNotIdle, ZenonT(60) DEF suspend_this_thread
    <3> DEFINE sus == [suspended EXCEPT ![t] = n]
    <3>2. sus \in [Threads -> Nat] /\ sus[Idle] = 0
      BY <3>1, ConstantsAssumption, SMTT(30) DEF QueueInv
    <3>3. switch_thread(run_queue, running_on, sus, tick)
      BY <1>5, ZenonT(60) DEF suspend_this_thread
    <3> HIDE DEF sus
    <3> QED BY <3>2, <3>3, SwitchThread, ZenonT(60) DEF QueueInv, RunQueueExact
  <2> QED BY <1>5, <1>a, <2>1, <2>2, ZenonT(60) DEF suspend_this_thread, control
<1>6. ASSUME wait_events_return(t) PROVE SteadyInv'
  <2>1. /\ UNCHANGED <<zombie, running_on, events, waiting, fatal>>
        /\ \A x \in Threads \ {t} : pc'[x] = pc[x] /\ arg'[x] = arg[x]
        /\ pc'[t] = "run"
    BY <1>6, ZenonT(60) DEF wait_events_return, queue, Return, Goto, Types
  <2>2. \A x \in Threads : pc'[x] \notin {"create_event", "delete_event"}
    BY <2>1, ZenonT(60) DEF SteadyInv
  <2> QED BY <2>1, <2>2, SteadyFrame, ZenonT(60)
<1> QED BY <1>1, <1>2, <1>3, <1>4, <1>5, <1>6, ZenonT(60)

\* Waiting for and forgetting events.
LEMMA SteadyWaits ==
  ASSUME QueueInv, Types, ZombiesExit, SteadyInv, NEW t \in Threads
  PROVE  /\ \A es \in Spans : wait_events(t, es) => SteadyInv'
         /\ \A es \in Spans : unwait_events(t, es) => SteadyInv'
         /\ \A e \in UserEids : notify_event(t, e) => SteadyInv'
<1>1. ASSUME NEW es \in Spans, wait_events(t, es) PROVE SteadyInv'
  <2>1. t = this_thread /\ t # Idle /\ pc[t] = "run" /\ zombie' = zombie
    BY <1>1, ZenonT(60) DEF wait_events, Call
  <2>2. PICK n \in 0..Len(es) :
          /\ register(t, es, n)
          /\ IF n = Len(es)
             THEN sleep_this /\ Goto(t, "wait_events", Arg(0, 0, {es[k] : k \in 1..n}))
             ELSE UNCHANGED <<queue, fatal, control>>
    BY <1>1, Zenon DEF wait_events
  <2> DEFINE ids == {es[k] : k \in 1..n}
  <2>3. /\ \A x \in Threads, e \in Eids :
              /\ waiting[x][e] = Count(x, e) => waiting'[x][e] = Count(x, e)'
              /\ Listed(x, e) => Listed(x, e)'
        /\ \A e \in Eids : e \in ids => Listed(t, e)'
    BY <2>2, SteadyRegister, ZenonT(60)
  <2>4. ids \subseteq Eids
    <3>1. n <= Len(es) BY <2>2, SpanIds
    <3> QED BY <3>1, SpanIds DEF UserEids
  <2> HIDE DEF ids
  <2>5. \A x \in Threads, e \in Eids : ~zombie'[x] => waiting'[x][e] = Count(x, e)'
    BY <2>1, <2>3, ZenonT(60) DEF SteadyInv
  <2>6. \A x \in Threads : arg[x].eids \subseteq Eids BY Zenon DEF Types
  <2>7. CASE n = Len(es)
    <3>1. fatal' = fatal /\ running_on' = [running_on EXCEPT ![this_thread] = FALSE]
      BY <2>1, <2>2, <2>7, SleepThis, ZenonT(60)
    <3>2. /\ \A x \in Threads \ {t} : pc'[x] = pc[x] /\ arg'[x] = arg[x] /\ running_on'[x] = running_on[x]
          /\ pc'[t] = "wait_events" /\ arg'[t].eids = ids
      <4>1. Goto(t, "wait_events", Arg(0, 0, ids)) BY <2>2, <2>7, ZenonT(60) DEF ids
      <4>2. Arg(0, 0, ids).eids = ids BY Zenon DEF Arg
      <4>3. pc'[t] = "wait_events" /\ arg'[t] = Arg(0, 0, ids)
        BY <4>1, ZenonT(60) DEF Goto, Types
      <4> QED BY <2>1, <3>1, <4>1, <4>2, <4>3, ZenonT(60) DEF Goto, Types, QueueInv
    <3>3. ASSUME NEW x \in Threads, pc'[x] = "wait_events", ~running_on'[x], NEW e \in arg'[x].eids
          PROVE  Listed(x, e)'
      <4>1. CASE x = t
        BY <2>3, <2>4, <3>2, <3>3, <4>1, ZenonT(60)
      <4>2. CASE x # t
        BY <2>3, <2>6, <3>2, <3>3, <4>2, ZenonT(60) DEF SteadyInv
      <4> QED BY <4>1, <4>2, ZenonT(60)
    <3> QED BY <2>5, <3>1, <3>2, <3>3, ZenonT(60) DEF SteadyInv
  <2>8. CASE n # Len(es)
    <3>1. UNCHANGED <<running_on, fatal, pc, arg>> BY <2>2, <2>8, ZenonT(60) DEF queue, control
    <3>2. \A x \in Threads : pc'[x] = "wait_events" /\ ~running_on'[x] =>
            \A e \in arg'[x].eids : Listed(x, e)'
      BY <2>3, <2>6, <3>1, ZenonT(60) DEF SteadyInv
    <3> QED BY <2>5, <3>1, <3>2, ZenonT(60) DEF SteadyInv
  <2> QED BY <2>7, <2>8, ZenonT(60)
<1>2. ASSUME NEW es \in Spans, unwait_events(t, es) PROVE SteadyInv'
  <2>1. t = this_thread /\ pc[t] = "run" /\ UNCHANGED <<zombie, running_on, pc, arg, fatal>>
    BY <1>2, ZenonT(60) DEF unwait_events, Call, queue, control
  <2>2. PICK n \in 0..Len(es) :
          /\ \A k \in 1..n : events[es[k]] # None
          /\ events' = [e \in Eids |-> IF e \in {es[k] : k \in 1..n} THEN erase_all(events[e], t) ELSE events[e]]
          /\ waiting' = [waiting EXCEPT ![t] =
                           [e \in Eids |-> IF e \in {es[k] : k \in 1..n} THEN 0 ELSE waiting[t][e]]]
    BY <1>2, ZenonT(60) DEF unwait_events
  <2> DEFINE ids == {es[k] : k \in 1..n}
  <2>3. /\ \A e \in Eids \cap ids : events[e] # None
        /\ events' = [e \in Eids |-> IF e \in ids THEN erase_all(events[e], t) ELSE events[e]]
        /\ waiting' = [waiting EXCEPT ![t] = [e \in Eids |-> IF e \in ids THEN 0 ELSE waiting[t][e]]]
    BY <2>2, ZenonT(60)
  <2> HIDE DEF ids
  <2>4. /\ \A x \in Threads, e \in Eids : x # t \/ e \notin ids =>
              Count(x, e)' = Count(x, e) /\ (Listed(x, e) => Listed(x, e)')
        /\ \A e \in Eids \cap ids : Count(t, e)' = 0
    BY <2>3, SteadyErase, ZenonT(60)
  <2>5. \A x \in Threads, e \in Eids :
          waiting'[x][e] = IF x = t /\ e \in ids THEN 0 ELSE waiting[x][e]
    <3>1. waiting \in [Threads -> [Eids -> Nat]] BY ZenonT(60) DEF Types
    <3> QED BY <2>3, <3>1, ZenonT(60)
  <2>6. \A x \in Threads, e \in Eids : ~zombie'[x] => waiting'[x][e] = Count(x, e)'
    BY <2>1, <2>4, <2>5, SMTT(30) DEF SteadyInv
  <2>7. \A x \in Threads : arg[x].eids \subseteq Eids BY ZenonT(60) DEF Types
  <2>8. \A x \in Threads : pc'[x] = "wait_events" /\ ~running_on'[x] =>
          \A e \in arg'[x].eids : Listed(x, e)'
    BY <2>1, <2>4, <2>7, ZenonT(60) DEF SteadyInv
  <2> QED BY <2>1, <2>6, <2>8, ZenonT(60) DEF SteadyInv
<1>3. ASSUME NEW e \in UserEids, notify_event(t, e) PROVE SteadyInv'
  <2>1. e \in Eids /\ UNCHANGED <<zombie, suspended, this_thread, pc, arg, fatal>> /\ notify(e)
    BY <1>3, ZenonT(60) DEF notify_event, control, UserEids
  <2>2. /\ \A x \in Threads, d \in Eids : ~zombie'[x] => waiting'[x][d] = Count(x, d)'
        /\ \A x \in Threads : ~running_on'[x] => ~running_on[x] /\ ~Listed(x, e)
        /\ \A x \in Threads, d \in Eids \ {e} : Listed(x, d) => Listed(x, d)'
    BY <2>1, SteadyNotify, ZenonT(60)
  <2>3. \A x \in Threads : arg[x].eids \subseteq Eids BY Zenon DEF Types
  <2>4. \A x \in Threads : pc'[x] = "wait_events" /\ ~running_on'[x] =>
          \A d \in arg'[x].eids : Listed(x, d)'
    BY <2>1, <2>2, <2>3, ZenonT(60) DEF SteadyInv
  <2> QED BY <2>1, <2>2, <2>4, ZenonT(60) DEF SteadyInv
<1> QED BY <1>1, <1>2, <1>3, ZenonT(60)

\* Joining and exiting.
LEMMA SteadyJoins ==
  ASSUME QueueInv, Types, ZombiesExit, SteadyInv, NEW t \in Threads
  PROVE  /\ \A p \in Pids, i \in Tids : wait_thread(t, p, i) => SteadyInv'
         /\ \A p \in Pids : wait_process(t, p) => SteadyInv'
         /\ exit_this_thread(t) => SteadyInv'
         /\ exit_notify(t) => SteadyInv'
<1>0. thread_joined_event \in Eids BY ArgType, Zenon DEF thread_joined_event
<1>b. \A l, a : Goto(t, l, a) =>
        /\ \A x \in Threads \ {t} : pc'[x] = pc[x] /\ arg'[x] = arg[x]
        /\ pc'[t] = l
  BY Zenon DEF Goto, Types
<1>c. \A x \in Threads : arg[x].eids \subseteq Eids BY Zenon DEF Types
<1>1. ASSUME wait_joined(t), t = this_thread, t # Idle, zombie' = zombie,
             NEW l, NEW a, Goto(t, l, a), l \in {"wait_thread", "wait_process"}
      PROVE  SteadyInv'
  <2>1. \A x \in Threads, e \in Eids :
          /\ waiting[x][e] = Count(x, e) => waiting'[x][e] = Count(x, e)'
          /\ Listed(x, e) => Listed(x, e)'
    BY <1>1, SteadyRegister, ZenonT(60) DEF wait_joined
  <2>2. fatal' = fatal /\ running_on' = [running_on EXCEPT ![this_thread] = FALSE]
    BY <1>1, SleepThis, ZenonT(60) DEF wait_joined
  <2>3. \A x \in Threads, e \in Eids : ~zombie'[x] => waiting'[x][e] = Count(x, e)'
    BY <1>1, <2>1, ZenonT(60) DEF SteadyInv
  <2>4. /\ \A x \in Threads \ {t} : pc'[x] = pc[x] /\ arg'[x] = arg[x] /\ running_on'[x] = running_on[x]
        /\ pc'[t] = l
    BY <1>1, <1>b, <2>2, ZenonT(60) DEF QueueInv
  <2>5. \A x \in Threads : pc'[x] = "wait_events" /\ ~running_on'[x] =>
          \A e \in arg'[x].eids : Listed(x, e)'
    BY <1>1, <1>c, <2>1, <2>4, ZenonT(60) DEF SteadyInv
  <2>6. \A x \in Threads : pc'[x] \notin {"create_event", "delete_event"}
    BY <1>1, <2>4, ZenonT(60) DEF SteadyInv
  <2> QED BY <2>2, <2>3, <2>5, <2>6, ZenonT(60) DEF SteadyInv
<1>2. ASSUME Return(t), UNCHANGED <<queue, waiting, events, fatal, zombie>> PROVE SteadyInv'
  <2>1. /\ \A x \in Threads \ {t} : pc'[x] = pc[x] /\ arg'[x] = arg[x]
        /\ pc'[t] = "run"
    BY <1>2, <1>b, ZenonT(60) DEF Return
  <2>2. \A x \in Threads : pc'[x] \notin {"create_event", "delete_event"}
    BY <2>1, Zenon DEF SteadyInv
  <2>3. running_on' = running_on BY <1>2, ZenonT(60) DEF queue
  <2> QED BY <1>2, <2>1, <2>2, <2>3, SteadyFrame, ZenonT(60)
<1>3. ASSUME NEW p \in Pids, NEW i \in Tids, wait_thread(t, p, i) PROVE SteadyInv'
  <2>1. t = this_thread /\ t # Idle /\ zombie' = zombie
    BY <1>3, CallerNotIdle, ZenonT(60) DEF wait_thread, Call, Resume
  <2>2. CASE Return(t) /\ UNCHANGED <<queue, waiting, events, fatal>>
    BY <1>2, <2>1, <2>2, ZenonT(60)
  <2>3. CASE wait_joined(t) /\ Goto(t, "wait_thread", Arg(p, i, {}))
    BY <1>1, <2>1, <2>3, ZenonT(60)
  <2> QED BY <1>3, <2>2, <2>3, ZenonT(60) DEF wait_thread
<1>4. ASSUME NEW p \in Pids, wait_process(t, p) PROVE SteadyInv'
  <2>1. t = this_thread /\ t # Idle /\ zombie' = zombie
    BY <1>4, CallerNotIdle, ZenonT(60) DEF wait_process, Call, Resume
  <2>2. CASE Return(t) /\ UNCHANGED <<queue, waiting, events, fatal>>
    BY <1>2, <2>1, <2>2, ZenonT(60)
  <2>3. CASE wait_joined(t) /\ Goto(t, "wait_process", Arg(p, 0, {}))
    BY <1>1, <2>1, <2>3, ZenonT(60)
  <2> QED BY <1>4, <2>2, <2>3, ZenonT(60) DEF wait_process
<1>5. ASSUME exit_this_thread(t) PROVE SteadyInv'
  <2>1. /\ pc[t] = "run" /\ zombie' = [zombie EXCEPT ![t] = TRUE] /\ UNCHANGED <<waiting, running_on>>
        /\ Goto(t, "exit_notify", NoArg) /\ cancel_events_of_thread(t)
    BY <1>5, Zenon DEF exit_this_thread, Call, queue
  <2>2. ~zombie[t] BY <2>1, Zenon DEF ZombiesExit
  <2>3. ~ \E e \in Eids : waiting[t][e] > 0 /\ events[e] = None
    <3> SUFFICES ASSUME NEW e \in Eids, waiting[t][e] > 0, events[e] = None PROVE FALSE
      BY Zenon
    <3>1. waiting[t][e] = Count(t, e) BY <2>2, Zenon DEF SteadyInv
    <3> QED BY <3>1 DEF Count
  <2> DEFINE ids == {e \in Eids : waiting[t][e] > 0}
  <2>4. /\ events' = [e \in Eids |-> IF e \in ids THEN erase_all(events[e], t) ELSE events[e]]
        /\ fatal' = fatal
    BY <2>1, <2>3, ZenonT(60) DEF cancel_events_of_thread
  <2>5. \A e \in Eids \cap ids : events[e] # None
    BY <2>3, Zenon
  <2> HIDE DEF ids
  <2>6. \A x \in Threads \ {t}, e \in Eids :
          Count(x, e)' = Count(x, e) /\ (Listed(x, e) => Listed(x, e)')
    BY <2>4, <2>5, SteadyErase, ZenonT(60)
  <2>7. /\ \A x \in Threads \ {t} : pc'[x] = pc[x] /\ arg'[x] = arg[x] /\ zombie'[x] = zombie[x]
        /\ pc'[t] = "exit_notify" /\ zombie'[t]
    BY <1>b, <2>1, ZenonT(60) DEF Types
  <2>8. \A x \in Threads, e \in Eids : ~zombie'[x] => waiting'[x][e] = Count(x, e)'
    BY <2>1, <2>6, <2>7, SMTT(30) DEF SteadyInv
  <2>9. \A x \in Threads : pc'[x] = "wait_events" /\ ~running_on'[x] =>
          \A e \in arg'[x].eids : Listed(x, e)'
    BY <1>c, <2>1, <2>6, <2>7, ZenonT(60) DEF SteadyInv
  <2>10. \A x \in Threads : pc'[x] \notin {"create_event", "delete_event"}
    BY <2>7, Zenon DEF SteadyInv
  <2> QED BY <2>4, <2>8, <2>9, <2>10, ZenonT(60) DEF SteadyInv
<1>6. ASSUME exit_notify(t) PROVE SteadyInv'
  <2> DEFINE e == thread_joined_event
  <2>1. /\ notify(e) /\ Goto(t, "exit_sleep", NoArg)
        /\ UNCHANGED <<suspended, this_thread, zombie, fatal>>
    BY <1>6, ZenonT(60) DEF exit_notify
  <2>2. /\ \A x \in Threads, d \in Eids : ~zombie'[x] => waiting'[x][d] = Count(x, d)'
        /\ \A x \in Threads : ~running_on'[x] => ~running_on[x] /\ ~Listed(x, e)
        /\ \A x \in Threads, d \in Eids \ {e} : Listed(x, d) => Listed(x, d)'
    BY <1>0, <2>1, SteadyNotify, ZenonT(60)
  <2>3. /\ \A x \in Threads \ {t} : pc'[x] = pc[x] /\ arg'[x] = arg[x]
        /\ pc'[t] = "exit_sleep"
    BY <1>b, <2>1, ZenonT(60)
  <2>4. \A x \in Threads : pc'[x] = "wait_events" /\ ~running_on'[x] =>
          \A d \in arg'[x].eids : Listed(x, d)'
    BY <1>c, <2>2, <2>3, ZenonT(60) DEF SteadyInv
  <2>5. \A x \in Threads : pc'[x] \notin {"create_event", "delete_event"}
    BY <2>3, ZenonT(60) DEF SteadyInv
  <2> QED BY <2>1, <2>2, <2>4, <2>5, ZenonT(60) DEF SteadyInv
<1> QED BY <1>3, <1>4, <1>5, <1>6, ZenonT(60)

LEMMA SteadyInterrupts ==
  ASSUME QueueInv, Types, SteadyInv
  PROVE  Tick \/ timer_tick_missed \/ device_interrupt => SteadyInv'
<1>a. ASSUME UNCHANGED <<zombie, waiting, events, fatal, pc, arg>>,
             \A x \in Threads : ~running_on'[x] => ~running_on[x]
      PROVE  SteadyInv'
  <2>1. \A x \in Threads : pc'[x] \notin {"create_event", "delete_event"}
    BY <1>a, ZenonT(60) DEF SteadyInv
  <2> QED BY <1>a, <2>1, SteadyFrame, ZenonT(60)
<1>1. ASSUME NEW message \in BOOLEAN, timer_tick(message) PROVE SteadyInv'
  <2>1. fatal' = fatal /\ running_on' = [running_on EXCEPT ![Kernel] = @ \/ message]
    BY <1>1, TimerTick, ZenonT(60) DEF Types
  <2>2. \A x \in Threads : ~running_on'[x] => ~running_on[x]
    BY <2>1, ZenonT(60) DEF QueueInv
  <2> QED BY <1>1, <1>a, <2>1, <2>2, ZenonT(60) DEF timer_tick, control
<1>2. ASSUME timer_tick_missed PROVE SteadyInv'
  BY <1>2, <1>a, ZenonT(60) DEF timer_tick_missed, control
<1>3. ASSUME device_interrupt PROVE SteadyInv'
  <2>1. <<Kernel>> \in Seq(Threads)
    BY ConstantsAssumption
  <2>2. running_on' = [x \in Threads |-> running_on[x] \/ x \in Range(<<Kernel>>)]
    BY <1>3, <2>1, WakeupThreads, ZenonT(60) DEF device_interrupt
  <2>3. \A x \in Threads : ~running_on'[x] => ~running_on[x]
    BY <2>2, ZenonT(60)
  <2> QED BY <1>3, <1>a, <2>3, ZenonT(60) DEF device_interrupt, control
<1> QED BY <1>1, <1>2, <1>3, ZenonT(60) DEF Tick

LEMMA SteadyNext ==
  ASSUME SteadyEvents
  PROVE  Inv /\ JoinInvariant /\ SteadyInv /\ [Next]_vars => SteadyInv'
<1> SUFFICES ASSUME Inv, JoinInvariant, SteadyInv, [Next]_vars PROVE SteadyInv'
  BY Zenon
<1>0. QueueInv /\ Types /\ ZombiesExit
  BY InvParts, ZenonT(60) DEF JoinInvariant
<1>1. ASSUME NEW t \in Threads, Begin(t) PROVE SteadyInv'
  <2>1. CASE create_process(t) \/ sleep_this_thread(t) \/ exit_this_thread(t)
    BY <1>0, <2>1, SteadyCalls, SteadyJoins, ZenonT(60)
  <2>2. CASE \E p \in Pids : create_thread(t, p) \/ (pc[t] = "run" /\ wait_process(t, p))
    BY <1>0, <2>2, SteadyCalls, SteadyJoins, ZenonT(60)
  <2>3. CASE \E p \in Pids, i \in Tids :
               wakeup_thread(t, p, i) \/ (pc[t] = "run" /\ wait_thread(t, p, i))
    BY <1>0, <2>3, SteadyCalls, SteadyJoins, ZenonT(60)
  <2>4. CASE \E n \in 1..MaxSuspend : suspend_this_thread(t, n)
    BY <1>0, <2>4, SteadyCalls, ZenonT(60)
  <2>5. CASE \E es \in Spans : wait_events(t, es) \/ unwait_events(t, es)
    BY <1>0, <2>5, SteadyWaits, ZenonT(60)
  <2>6. CASE \E e \in UserEids : notify_event(t, e)
    BY <1>0, <2>6, SteadyWaits, ZenonT(60)
  <2>7. ~create_event(t) /\ ~ \E e \in UserEids : delete_event(t, e)
    BY Zenon DEF SteadyEvents, create_event, delete_event, Call
  <2> QED BY <1>1, <2>1, <2>2, <2>3, <2>4, <2>5, <2>6, <2>7, SMTT(30) DEF Begin
<1>2. ASSUME NEW t \in Threads, Continue(t) PROVE SteadyInv'
  <2>1. arg[t].pid \in Pids /\ arg[t].tid \in Tids BY <1>0, ZenonT(60) DEF Types
  <2>2. CASE exit_notify(t) \/ exit_sleep(t) \/ wait_events_return(t)
    BY <1>0, <2>2, SteadyCalls, SteadyJoins, ZenonT(60)
  <2>3. ~create_event_emplace(t) /\ ~delete_event_reset(t)
    BY Zenon DEF SteadyInv, create_event_emplace, delete_event_reset, Resume
  <2>4. CASE wait_thread(t, arg[t].pid, arg[t].tid) \/ wait_process(t, arg[t].pid)
    BY <1>0, <2>1, <2>4, SteadyJoins, ZenonT(60)
  <2> QED BY <1>2, <2>2, <2>3, <2>4, ZenonT(60) DEF Continue
<1>3. CASE Tick \/ timer_tick_missed \/ device_interrupt
  BY <1>0, <1>3, SteadyInterrupts, ZenonT(60)
<1>4. CASE UNCHANGED vars
  <2>1. UNCHANGED <<zombie, waiting, events, fatal, pc, arg, running_on>>
    BY <1>4, Zenon DEF vars, queue, control
  <2> QED BY <2>1, ZenonT(60) DEF SteadyInv, Count, Listed
<1> QED BY <1>1, <1>2, <1>3, <1>4, ZenonT(60) DEF Next, Stopped

LEMMA SteadyInvariance ==
  ASSUME SteadyEvents
  PROVE  Spec => [](Inv /\ JoinInvariant /\ LifeInv /\ SteadyInv)
BY SteadyInit, SteadyNext, LifeInvariance, PTL DEF Spec

\* An event's list and the threads' own registrations agree, entry for entry,
\* and nobody who has exited or has been freed is listed.
THEOREM RegistrationsAgree ==
  ASSUME SteadyEvents
  PROVE  Spec => []RegistrationsMatch
<1>1. Inv /\ JoinInvariant /\ LifeInv /\ SteadyInv => RegistrationsMatch
  <2> SUFFICES ASSUME Inv, JoinInvariant, LifeInv, SteadyInv, NEW t \in Threads, NEW e \in Eids
               PROVE  LET listed == IF events[e] = None THEN {}
                                    ELSE {k \in DOMAIN events[e] : events[e][k] = t} IN
                      /\ ~zombie[t] => waiting[t][e] = Cardinality(listed)
                      /\ zombie[t] \/ ~Allocated(t) => listed = {}
    BY Zenon DEF RegistrationsMatch
  <2> DEFINE listed == IF events[e] = None THEN {} ELSE {k \in DOMAIN events[e] : events[e][k] = t}
  <2>0. Types BY InvParts, ZenonT(60)
  <2>1. Count(t, e) = Cardinality(listed)
    BY FS_EmptySet, ZenonT(60) DEF Count, Occurrences
  <2>2. ~zombie[t] => waiting[t][e] = Cardinality(listed)
    BY <2>1, Zenon DEF SteadyInv
  <2>3. ASSUME zombie[t] \/ ~Allocated(t) PROVE ~Listed(t, e)
    <3>1. zombie[t] => ~Listed(t, e)
      BY Zenon DEF JoinInvariant, RegisteredKnown, SteadyInv, Listed
    <3>2. ~Allocated(t) /\ t \in created => zombie[t]
      BY Zenon DEF LifeInv, Freed, JoinInvariant, ZombiesExit
    <3>3. t \notin created => ~Listed(t, e)
      BY Zenon DEF LifeInv
    <3> QED BY <2>3, <3>1, <3>2, <3>3, ZenonT(60)
  <2>4. ~Listed(t, e) => listed = {}
    BY Zenon DEF Listed, Range
  <2> QED BY <2>2, <2>3, <2>4, ZenonT(60)
<1> QED BY <1>1, SteadyInvariance, PTL

\* A thread asleep in wait_event or wait_events has missed no notification.
THEOREM NoEventIsLost ==
  ASSUME SteadyEvents
  PROVE  Spec => []EventNotLost
<1>1. SteadyInv => EventNotLost
  BY Zenon DEF SteadyInv, EventNotLost, Listed
<1> QED BY <1>1, SteadyInvariance, PTL

\* exit_thread's fatal error, an unknown event id in cancel_events_of_thread,
\* does not happen.
THEOREM ExitKnowsEvents ==
  ASSUME SteadyEvents
  PROVE  Spec => []NoUnknownEvent
<1>1. SteadyInv => NoUnknownEvent
  BY Zenon DEF SteadyInv, NoUnknownEvent
<1> QED BY <1>1, SteadyInvariance, PTL
=============================================================================
