-------------------------------- MODULE Ahci ---------------------------------
(***************************************************************************)
(* AHCI disks (ahci/ahci.hpp) and the blocking transfers on them           *)
(* (block/drivers/ahci.hpp).                                               *)
(*                                                                         *)
(* The page cache of a disk is locked during a transfer, so each disk has  *)
(* one client at a time.  The kernel thread runs on_interrupt for every    *)
(* AHCIInterrupt message, the device finder waits until all disks are      *)
(* identified.  wait_event and notify_event of the process manager are one *)
(* step each.                                                              *)
(***************************************************************************)
EXTENDS Naturals, FiniteSets, FiniteSetsExt

CONSTANTS
  NumDisks,     \* every implemented port has a disk
  NumSlots,     \* num_command_slots
  Clients,      \* the disks that are read and written
  MaxMessages   \* bound: AHCIInterrupt messages in the queue that are counted

Disks == 1..NumDisks
Slots == 0..NumSlots - 1

VARIABLES
  running,            \* SATADevice::running_operations
  ci, tfes,           \* HBAPort::ci and the error bit of HBAPort::is
  is,                 \* HBAHeader::is; nobody clears it
  messages,           \* AHCIInterrupt messages in the kernel's queue
  kernel,             \* the kernel thread: position, disk, slot, the copy of is
  count,              \* IdentifySync::count
  flag, registered,   \* the events: of the finder (0) and of the client of a disk
  thread, slot,       \* the finder (0) and the clients, and the slot of a command
  transferred,        \* history: the device has executed the client's command
  early, cleared, missed \* history, see the properties

port == <<ci, tfes, is, messages>>
events == <<flag, registered, missed>>
vars == <<running, port, kernel, count, events, thread, slot, transferred, early, cleared>>

Finder == 0
Waiters == {Finder} \cup Disks

\* The constructor of Controller has sent an IDENTIFY command to every disk and
\* posted a message; the finder thread starts.
Init ==
  /\ running = [d \in Disks |-> [s \in Slots |-> IF s = 0 THEN "Identify" ELSE "None"]]
  /\ ci = [d \in Disks |-> {0}] /\ tfes = [d \in Disks |-> FALSE]
  /\ is = {} /\ messages = 1
  /\ kernel = [pc |-> "idle", disk |-> 1, slot |-> 0, is |-> {}]
  /\ count = 0
  /\ flag = [w \in Waiters |-> FALSE] /\ registered = {} /\ missed = {}
  /\ thread = [w \in Waiters |-> IF w = Finder THEN "count" ELSE "idle"]
  /\ slot = [d \in Disks |-> 0] /\ transferred = [d \in Disks |-> FALSE]
  /\ early = {} /\ cleared = {}

Go(w, pc) == thread' = [thread EXCEPT ![w] = pc]

-----------------------------------------------------------------------------
(* The device.                                                             *)

\* Messages are all alike: past the bound one more changes nothing.
Interrupt(d) ==
  /\ messages' = Min({messages + 1, MaxMessages})
  /\ is' = is \cup {d}

complete(d, s) ==
  /\ s \in ci[d] /\ ~tfes[d]
  /\ Interrupt(d)
  /\ ci' = [ci EXCEPT ![d] = @ \ {s}]
  /\ transferred' = [transferred EXCEPT ![d] = @ \/ (s = slot[d] /\ thread[d] # "idle")]
  /\ UNCHANGED <<running, tfes, kernel, count, events, thread, slot, early, cleared>>

\* A task file error: the port stops with the command in its slot.
fail(d) ==
  /\ ci[d] # {} /\ ~tfes[d]
  /\ Interrupt(d)
  /\ tfes' = [tfes EXCEPT ![d] = TRUE]
  /\ UNCHANGED <<running, ci, kernel, count, events, thread, slot, transferred, early, cleared>>

-----------------------------------------------------------------------------
(* A client: Device::read or write, and SATADevice::emit_h2d_command.      *)

\* find_lazy_command_slot succeeds: the first slot the device does not hold
emit_h2d_command(d) ==
  LET free == Slots \ ci[d]
  IN  /\ d \in Clients /\ thread[d] = "idle" /\ thread[Finder] = "done"
      /\ free # {}
      /\ slot' = [slot EXCEPT ![d] = Min(free)]
      /\ flag' = [flag EXCEPT ![d] = FALSE]
      /\ transferred' = [transferred EXCEPT ![d] = FALSE]
      /\ Go(d, "run")
      /\ UNCHANGED <<running, port, kernel, count, registered, missed, early, cleared>>

\* running_operations[slot] = operation
set_operation(d) ==
  /\ thread[d] = "run"
  /\ running' = [running EXCEPT ![d][slot[d]] = "Transfer"]
  /\ Go(d, "issue")
  /\ UNCHANGED <<port, kernel, count, events, slot, transferred, early, cleared>>

\* port->ci = 1 << slot
issue(d) ==
  /\ thread[d] = "issue"
  /\ ci' = [ci EXCEPT ![d] = @ \cup {slot[d]}]
  /\ Go(d, "test")
  /\ UNCHANGED <<running, tfes, is, messages, kernel, count, events, slot, transferred, early, cleared>>

return(d) ==
  /\ thread[d] = "return"
  /\ Go(d, "idle")
  /\ UNCHANGED <<running, port, kernel, count, events, slot, transferred, early, cleared>>

-----------------------------------------------------------------------------
(* Event::wait, and Controller::wait_identify in the finder.               *)

wait_identify ==
  /\ thread[Finder] = "count"
  /\ Go(Finder, IF count = NumDisks THEN "done" ELSE "test")
  /\ UNCHANGED <<running, port, kernel, count, events, slot, transferred, early, cleared>>

test(w) ==
  /\ thread[w] = "test"
  /\ Go(w, IF ~flag[w] THEN "wait" ELSE IF w = Finder THEN "count" ELSE "return")
  /\ missed' = missed \ {w}
  /\ UNCHANGED <<running, port, kernel, count, flag, registered, slot, transferred, early, cleared>>

wait_event(w) ==
  /\ thread[w] = "wait"
  /\ registered' = registered \cup {w}
  /\ Go(w, "asleep")
  /\ UNCHANGED <<running, port, kernel, count, flag, missed, slot, transferred, early, cleared>>

-----------------------------------------------------------------------------
(* The kernel thread in on_interrupt.                                      *)

Operation == running[kernel.disk][kernel.slot]
Target == IF kernel.pc = "identified" THEN Finder ELSE kernel.disk

\* The next slot of the port, else the next port with an interrupt, else the end.
Advance ==
  LET later == {d \in kernel.is : d > kernel.disk}
  IN  kernel' = IF kernel.slot + 1 \in Slots THEN [kernel EXCEPT !.pc = "slot", !.slot = @ + 1]
                ELSE IF later # {} THEN [kernel EXCEPT !.pc = "slot", !.disk = Min(later), !.slot = 0]
                ELSE [pc |-> "idle", disk |-> 1, slot |-> 0, is |-> {}]

on_interrupt ==
  /\ kernel.pc = "idle" /\ messages > 0
  /\ messages' = messages - 1
  /\ kernel' = IF is = {} THEN kernel ELSE [pc |-> "slot", disk |-> Min(is), slot |-> 0, is |-> is]
  /\ UNCHANGED <<running, ci, tfes, is, count, events, thread, slot, transferred, early, cleared>>

skip_slot ==
  /\ kernel.pc = "slot" /\ Operation = "None"
  /\ Advance
  /\ UNCHANGED <<running, port, count, events, thread, slot, transferred, early, cleared>>

\* Deliberately wrong: does not wait for the command.
wait_compelete_not ==
  /\ kernel.pc = "slot" /\ Operation # "None"
  /\ count' = IF Operation = "Identify" THEN count + 1 ELSE count
  /\ kernel' = [kernel EXCEPT !.pc = IF Operation = "Identify" THEN "identified" ELSE "notify"]
  /\ early' = IF Operation = "Transfer" /\ thread[kernel.disk] = "issue" THEN early \cup {kernel.disk} ELSE early
  /\ UNCHANGED <<running, port, events, thread, slot, transferred, cleared>>

\* wait_compelete spins until the device has executed the command or stopped;
\* its result is ignored.
wait_compelete ==
  /\ kernel.pc = "slot" /\ Operation # "None"
  /\ kernel.slot \notin ci[kernel.disk] \/ tfes[kernel.disk]
  /\ count' = IF Operation = "Identify" THEN count + 1 ELSE count
  /\ kernel' = [kernel EXCEPT !.pc = IF Operation = "Identify" THEN "identified" ELSE "notify"]
  /\ early' = IF Operation = "Transfer" /\ thread[kernel.disk] = "issue" THEN early \cup {kernel.disk} ELSE early
  /\ UNCHANGED <<running, port, events, thread, slot, transferred, cleared>>

\* Event::notify
notify ==
  /\ kernel.pc \in {"identified", "notify"}
  /\ flag' = [flag EXCEPT ![Target] = TRUE]
  /\ kernel' = [kernel EXCEPT !.pc = IF flag[Target] THEN "clear" ELSE
                                     IF Target = Finder THEN "wake finder" ELSE "wake client"]
  /\ UNCHANGED <<running, port, count, registered, missed, thread, slot, transferred, early, cleared>>

Sleeper == IF kernel.pc = "wake finder" THEN Finder ELSE kernel.disk

\* Deliberately wrong: nobody is woken.
notify_event_silent ==
  /\ kernel.pc \in {"wake finder", "wake client"}
  /\ registered' = registered \ {Sleeper}
  /\ missed' = IF thread[Sleeper] = "wait" THEN missed \cup {Sleeper} ELSE missed
  /\ kernel' = [kernel EXCEPT !.pc = "clear"]
  /\ UNCHANGED <<running, port, count, flag, thread, slot, transferred, early, cleared>>

\* A client that sees the flag before it is woken returns and destroys its Event:
\* the number that is read from it is then that of its next Event or of none.
notify_event ==
  /\ kernel.pc \in {"wake finder", "wake client"}
  /\ \/ /\ registered' = registered \ {Sleeper}
        /\ thread' = IF thread[Sleeper] = "asleep" /\ Sleeper \in registered
                     THEN [thread EXCEPT ![Sleeper] = "test"] ELSE thread
        /\ missed' = IF thread[Sleeper] = "wait" THEN missed \cup {Sleeper} ELSE missed
     \/ /\ ~flag[Sleeper]
        /\ UNCHANGED <<registered, missed, thread>>
  /\ kernel' = [kernel EXCEPT !.pc = "clear"]
  /\ UNCHANGED <<running, port, count, flag, slot, transferred, early, cleared>>

\* The client's next command is already entered in the slot.
Reentered(d, s) ==
  slot[d] = s /\ ~flag[d] /\ thread[d] \in {"issue", "test", "wait", "asleep"}

\* running_operations[slot] = Operation::None
clear_operation ==
  /\ kernel.pc = "clear"
  /\ running' = [running EXCEPT ![kernel.disk][kernel.slot] = "None"]
  /\ cleared' = IF Reentered(kernel.disk, kernel.slot) THEN cleared \cup {kernel.disk} ELSE cleared
  /\ Advance
  /\ UNCHANGED <<port, count, events, thread, slot, transferred, early>>

-----------------------------------------------------------------------------
kernel_thread ==
  on_interrupt \/ skip_slot \/ wait_compelete \/ notify \/ notify_event \/ clear_operation

client(d) == set_operation(d) \/ issue(d) \/ test(d) \/ wait_event(d) \/ return(d)
finder == wait_identify \/ test(Finder) \/ wait_event(Finder)
device(d) == \E s \in Slots : complete(d, s)

Next ==
  \/ kernel_thread \/ finder
  \/ \E d \in Disks : emit_h2d_command(d) \/ client(d) \/ device(d) \/ fail(d)

Spec == Init /\ [][Next]_vars

\* Threads are scheduled, and a device executes its commands unless it fails.
FairSpec ==
  /\ Spec
  /\ WF_vars(kernel_thread) /\ WF_vars(finder)
  /\ \A d \in Disks : WF_vars(client(d)) /\ WF_vars(device(d))

-----------------------------------------------------------------------------
(* Properties.                                                             *)

\* Every variable keeps its type: IdentifySync::count never exceeds the disks.
TypeOK ==
  /\ running \in [Disks -> [Slots -> {"None", "Identify", "Transfer"}]]
  /\ ci \in [Disks -> SUBSET Slots] /\ tfes \in [Disks -> BOOLEAN]
  /\ is \subseteq Disks /\ messages \in 0..MaxMessages
  /\ kernel \in [pc : {"idle", "slot", "identified", "notify", "wake finder", "wake client", "clear"},
                 disk : Disks, slot : Slots, is : SUBSET Disks]
  /\ count \in 0..NumDisks
  /\ flag \in [Waiters -> BOOLEAN] /\ registered \subseteq Waiters /\ missed \subseteq Waiters
  /\ thread \in [Waiters -> {"idle", "run", "issue", "test", "wait", "asleep", "return", "count", "done"}]
  /\ slot \in [Disks -> Slots] /\ transferred \in [Disks -> BOOLEAN]
  /\ early \subseteq Disks /\ cleared \subseteq Disks

\* The finder goes on only when every disk has answered IDENTIFY or stopped.
AllIdentified ==
  thread[Finder] = "done" =>
    \A d \in Disks : tfes[d] \/ running[d][0] # "Identify" \/ 0 \notin ci[d]

\* A transfer that returns has been executed, unless the disk has failed, or
\* on_interrupt ran for an older message after the operation was entered in
\* running_operations and before the command was given to the device: it then
\* takes the command for complete.
TransferDone ==
  \A d \in Disks : thread[d] = "return" => transferred[d] \/ tfes[d] \/ d \in early

\* A client has no transfer under way and the finder has finished, with the same exceptions.
Finished(w) ==
  IF w = Finder THEN thread[w] = "done" \/ w \in missed
  ELSE thread[w] \in {"idle", "run", "return"} \/ tfes[w] \/ w \in missed \cup cleared \cup early

\* Nobody waits for its commands for ever.
Returns == \A w \in Clients \cup {Finder} : []<>Finished(w)
=============================================================================
