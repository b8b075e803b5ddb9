-------------------------------- MODULE Smp --------------------------------
(***************************************************************************)
(* Several processors: boot_aps (main.cpp) starts the application          *)
(* processors one after the other through one trampoline page (smp/ap.hpp, *)
(* smp/trampoline.asm), and the timer interrupt of the boot processor is   *)
(* handed on from each processor to the next, together with the lock of    *)
(* the process manager (process/manager.hpp, switch_thread_may_fail).      *)
(*                                                                         *)
(* Processors are named by their local APIC identifiers; the boot          *)
(* processor is bsp.  What a processor does between interrupts is left out,*)
(* and so are the threads that contend for the lock: SpinLock has those.   *)
(* As SpinLock shows, aquire never waits for longer than one failed        *)
(* attempt, so capture_context gets the lock whatever the flag says.       *)
(***************************************************************************)
EXTENDS Integers, Sequences

CONSTANTS
  Ids,       \* the processors
  bsp,       \* the boot processor
  IdOrders,  \* the orders in which the MADT may list the processors
  Faults     \* what may go wrong: "memory", "trampoline", "lost"

none == -1

VARIABLES
  ids,        \* detect_cores().lapic_ids
  boot, k,    \* the boot processor: where it is, its loop variable
  page,       \* the processor whose variables are in the trampoline page
  parameter,  \* the processor whose APBootParameter is on the boot stack
  notify,     \* APBootParameter::notify
  ap, entry,  \* application processors: where they are, the parameter read
  lapic_id,   \* ProcessorLocal::lapic_id by processor number
  flag,       \* the spin lock of the process manager
  pending,    \* processors with a timer interrupt pending
  handler,    \* per processor: "out", "switch" (in its section), "return"
  failed,     \* history: processors that boot_ap gave up on
  kept,       \* history: a processor passed the tick on and kept its thread
  captured    \* history: capture_context ended while a tick was under way

booting == <<boot, k, page, parameter, notify>>
starting == <<ap, entry, lapic_id>>
ticking == <<flag, pending, handler>>
history == <<failed, kept, captured>>
vars == <<ids, booting, starting, ticking, history>>

first_lapic_id == ids[1]
last_lapic_id == ids[Len(ids)]

\* lapic_id_to_index_table: the boot processor is 0, the others in order
get_processor_number(id) ==
  LET others == SelectSeq(ids, LAMBDA x : x # bsp) IN
  IF id = bsp THEN 0 ELSE CHOOSE n \in DOMAIN others : others[n] = id

UnderWay == pending # {} \/ \E id \in Ids : handler[id] # "out"

\* The table is written and the locals expanded before the first is started.
Init ==
  /\ ids \in IdOrders
  /\ boot = "loop" /\ k = 1
  /\ page = none /\ parameter = none /\ notify = 0
  /\ ap = [id \in Ids |-> "off"]
  /\ entry = [id \in Ids |-> none]
  /\ lapic_id = [n \in 0..Len(ids) - 1 |-> IF n = 0 THEN bsp ELSE 0]
  /\ flag = 0 /\ pending = {}
  /\ handler = [id \in Ids |-> "out"]
  /\ failed = {} /\ kept = FALSE /\ captured = FALSE

-----------------------------------------------------------------------------
(* The boot processor.                                                     *)

\* Deliberately wrong: break instead of continue at the boot processor.
boot_aps_break ==
  /\ boot = "loop" /\ k <= Len(ids)
  /\ \/ ids[k] = bsp /\ k' = Len(ids) + 1 /\ UNCHANGED <<boot, parameter, notify, failed>>
     \/ /\ ids[k] # bsp
        /\ parameter' = ids[k] /\ notify' = 0 /\ boot' = "start"
        /\ UNCHANGED <<k, failed>>
  /\ UNCHANGED <<ids, page, starting, ticking, kept, captured>>

\* The loop of boot_aps; an allocation that fails only costs this processor
boot_aps ==
  /\ boot = "loop" /\ k <= Len(ids)
  /\ \/ ids[k] = bsp /\ k' = k + 1 /\ UNCHANGED <<boot, parameter, notify, failed>>
     \/ /\ ids[k] # bsp /\ "memory" \in Faults
        /\ failed' = failed \cup {ids[k]} /\ k' = k + 1
        /\ UNCHANGED <<boot, parameter, notify>>
     \/ /\ ids[k] # bsp
        /\ parameter' = ids[k] /\ notify' = 0 /\ boot' = "start"
        /\ UNCHANGED <<k, failed>>
  /\ UNCHANGED <<ids, page, starting, ticking, kept, captured>>

\* start_ap, whose result is ignored: the page or the PML4 may be out of reach
start_ap ==
  /\ boot = "start"
  /\ \/ "trampoline" \in Faults /\ UNCHANGED <<page, ap>>
     \/ page' = ids[k] /\ ap' = [ap EXCEPT ![ids[k]] = "startup"]
  /\ boot' = "wait"
  /\ UNCHANGED <<ids, k, parameter, notify, entry, lapic_id, ticking, history>>

\* Deliberately wrong: the next processor is started at once.
boot_ap_return_now ==
  /\ boot = "wait"
  /\ parameter' = none /\ boot' = "loop" /\ k' = k + 1
  /\ UNCHANGED <<ids, page, notify, starting, ticking, history>>

\* The wait for notify ends, and with it the life of boot_parameter
boot_ap_return ==
  /\ boot = "wait" /\ notify = 1
  /\ parameter' = none /\ boot' = "loop" /\ k' = k + 1
  /\ UNCHANGED <<ids, page, notify, starting, ticking, history>>

\* ap_trampoline_page.free() and start_timer
start_timer ==
  /\ boot = "loop" /\ k > Len(ids)
  /\ boot' = "running" /\ page' = none
  /\ UNCHANGED <<ids, k, parameter, notify, starting, ticking, history>>

-----------------------------------------------------------------------------
(* An application processor.                                               *)

\* The startup interrupt arrives, or the processor does not answer
real_start(id) ==
  /\ ap[id] = "startup"
  /\ \/ ap' = [ap EXCEPT ![id] = "trampoline"]
     \/ "lost" \in Faults /\ ap' = [ap EXCEPT ![id] = "dead"]
  /\ UNCHANGED <<ids, booting, entry, lapic_id, ticking, history>>

\* The trampoline relocates itself in the page and loads stack and parameter
long_start(id) ==
  /\ ap[id] = "trampoline"
  /\ ap' = [ap EXCEPT ![id] = "entry"]
  /\ entry' = [entry EXCEPT ![id] = page]
  /\ UNCHANGED <<ids, booting, lapic_id, ticking, history>>

\* ap_main reads the parameter, then notifies
ap_main(id) ==
  /\ ap[id] = "entry"
  /\ notify' = 1
  /\ ap' = [ap EXCEPT ![id] = "main"]
  /\ UNCHANGED <<ids, boot, k, page, parameter, entry, lapic_id, ticking, history>>

\* capture_context: first the identifier, then the threads under the lock
capture_context_id(id) ==
  /\ ap[id] = "main"
  /\ ap' = [ap EXCEPT ![id] = "capture"]
  /\ lapic_id' = [lapic_id EXCEPT ![get_processor_number(id)] = id]
  /\ UNCHANGED <<ids, booting, entry, ticking, history>>

capture_context_aquire(id) ==
  /\ ap[id] = "capture"
  /\ ap' = [ap EXCEPT ![id] = "locked"]
  /\ flag' = 1
  /\ UNCHANGED <<ids, booting, entry, lapic_id, pending, handler, history>>

\* The threads are made, and sleep_this_thread goes to the idle thread, the
\* first code of this processor to run with interrupts enabled
capture_context_release(id) ==
  /\ ap[id] = "locked"
  /\ ap' = [ap EXCEPT ![id] = "ready"]
  /\ flag' = 0
  /\ captured' = (captured \/ UnderWay)
  /\ UNCHANGED <<ids, booting, entry, lapic_id, pending, handler, failed, kept>>

-----------------------------------------------------------------------------
(* switch_thread_may_fail.                                                 *)

Interruptible(id) ==
  /\ handler[id] = "out"
  /\ IF id = bsp THEN boot = "running" ELSE ap[id] = "ready" /\ id \in pending

\* The first processor takes the lock, or gives the tick up; the others take
\* it for handed over
timer_interrupt(id) ==
  /\ Interruptible(id)
  /\ pending' = pending \ {id}
  /\ IF id = first_lapic_id /\ flag = 1 THEN UNCHANGED <<flag, handler>>
     ELSE /\ handler' = [handler EXCEPT ![id] = "switch"]
          /\ flag' = IF id = first_lapic_id THEN 1 ELSE flag
  /\ UNCHANGED <<ids, booting, starting, history>>

\* trigger_timer_interrupt_to_next_processor
Triggered(id) ==
  IF id = last_lapic_id THEN pending
  ELSE pending \cup {lapic_id[get_processor_number(id) + 1]}

\* switch_thread with current_thread = next_thread: hand on, then return
switch_thread_same(id) ==
  /\ handler[id] = "switch"
  /\ pending' = Triggered(id)
  /\ handler' = [handler EXCEPT ![id] = "return"]
  /\ kept' = (kept \/ id # last_lapic_id)
  /\ UNCHANGED <<ids, booting, starting, flag, failed, captured>>

\* ~AutoMutex on that return: the lock is released, handed on or not
switch_thread_return(id) ==
  /\ handler[id] = "return"
  /\ flag' = 0
  /\ handler' = [handler EXCEPT ![id] = "out"]
  /\ UNCHANGED <<ids, booting, starting, pending, history>>

\* Deliberately wrong: the lock is released although it is handed on.
switch_thread_release(id) ==
  /\ handler[id] = "switch"
  /\ pending' = Triggered(id)
  /\ flag' = 0
  /\ handler' = [handler EXCEPT ![id] = "out"]
  /\ UNCHANGED <<ids, booting, starting, history>>

\* switch_thread to another thread: lock.forget() and hand on, or release
switch_thread(id) ==
  /\ handler[id] = "switch"
  /\ pending' = Triggered(id)
  /\ flag' = IF id = last_lapic_id THEN 0 ELSE flag
  /\ handler' = [handler EXCEPT ![id] = "out"]
  /\ UNCHANGED <<ids, booting, starting, history>>

-----------------------------------------------------------------------------
Boot == boot_aps \/ start_ap \/ boot_ap_return \/ start_timer

Start(id) ==
  \/ real_start(id) \/ long_start(id) \/ ap_main(id)
  \/ capture_context_id(id) \/ capture_context_aquire(id) \/ capture_context_release(id)

Switch(id) == switch_thread_same(id) \/ switch_thread_return(id) \/ switch_thread(id)

Next ==
  \/ Boot
  \/ \E id \in Ids : Start(id) \/ timer_interrupt(id) \/ Switch(id)

Spec == Init /\ [][Next]_vars

\* Code that runs gets on, a pending interrupt is delivered, and not every
\* tick finds the lock taken.
Local(id) == Start(id) \/ timer_interrupt(id) \/ Switch(id)
Tick == flag = 0 /\ timer_interrupt(bsp)

FairSpec ==
  Spec /\ WF_vars(Boot) /\ SF_vars(Tick) /\ \A id \in Ids : WF_vars(Local(id))

-----------------------------------------------------------------------------
(* Properties.                                                             *)

\* A processor in the trampoline finds its own variables in the page, and
\* ap_main finds its own parameter on the boot processor's stack: both are
\* reused only after the processor has said that it no longer needs them.
OwnTrampoline ==
  \A id \in Ids : /\ ap[id] \in {"startup", "trampoline"} => page = id
                  /\ ap[id] = "entry" => entry[id] = id /\ parameter = id

\* Two processors are only both in the section of the tick when one of them
\* passed the tick on, kept its thread and released the lock all the same, when
\* a starting processor released it, or when the first processor of the table
\* is not the one with the timer.
TickExclusive ==
  \A id, jd \in Ids : handler[id] = "switch" /\ handler[jd] = "switch" /\ id # jd =>
    kept \/ captured \/ first_lapic_id # bsp

Excused ==
  \/ first_lapic_id # bsp
  \/ failed # {}
  \/ boot = "wait" /\ ap[ids[k]] \in {"off", "dead"}

Ticked(id) == handler[id] = "switch" \/ Excused

\* Every processor is ticked again and again, unless the boot processor waits
\* for one that did not start, one was given up, or the timer is not the first's.
AllTicked == \A id \in Ids : []<>Ticked(id)
=============================================================================
