------------------------------ MODULE Keyboard ------------------------------
(***************************************************************************)
(* KeyboardDevice (fs/drivers/dev/keyboard.hpp) and the Event (mutex.hpp)  *)
(* its reader waits for.                                                   *)
(*                                                                         *)
(* The kernel thread pushes packets, the shell thread reads them, the      *)
(* terminal thread opens the device and closes it after it has joined the  *)
(* shell.  The device is exclusive: there is one handle at a time.  A      *)
(* region under the mutex of the packets is one step, and so are the       *)
(* process manager's wait_event and notify_event.                          *)
(***************************************************************************)
EXTENDS Naturals, Sequences, SequencesExt

CONSTANTS Packets, MaxCount   \* bound: packets asked for in one read

VARIABLES
  packets, active,     \* KeyboardDevice::critical_packets, active
  handle,              \* the terminal's handle
  flag, registered,    \* write_event: its flag, the shell is on its list
  kernel, packet,      \* the kernel thread in push_packet, and its argument
  shell,               \* the shell thread in read
  count, copy_num,     \* read: argument and local
  missed               \* history: notified between its test and its wait_event

vars == <<packets, active, handle, flag, registered, kernel, packet, shell, count, copy_num, missed>>
device == <<packets, active, handle>>
event == <<flag, registered, missed>>
reading == <<shell, count, copy_num>>

Init ==
  /\ packets = <<>> /\ active = FALSE /\ handle = "closed"
  /\ flag = FALSE /\ registered = FALSE /\ missed = FALSE
  /\ kernel = "idle" /\ packet \in Packets
  /\ shell = "idle" /\ count = 0 /\ copy_num = 0

-----------------------------------------------------------------------------
(* The terminal thread.                                                    *)

on_handle_create ==
  /\ handle = "closed"
  /\ handle' = "open" /\ active' = TRUE
  /\ UNCHANGED <<packets, event, kernel, packet, reading>>

\* active = false; the shell thread has exited (wait_thread in terminal_main)
on_handle_destroy ==
  /\ handle = "open" /\ shell = "idle"
  /\ handle' = "closing" /\ active' = FALSE
  /\ UNCHANGED <<packets, event, kernel, packet, reading>>

on_handle_destroy_clear ==
  /\ handle = "closing"
  /\ handle' = "closed" /\ packets' = <<>>
  /\ UNCHANGED <<active, event, kernel, packet, reading>>

-----------------------------------------------------------------------------
(* The kernel thread.                                                      *)

push_packet(p) ==
  /\ kernel = "idle" /\ active
  /\ p \notin ToSet(packets)
  /\ kernel' = "push" /\ packet' = p
  /\ UNCHANGED <<device, event, reading>>

emplace_back ==
  /\ kernel = "push"
  /\ packets' = Append(packets, packet)
  /\ kernel' = "notify"
  /\ UNCHANGED <<active, handle, event, packet, reading>>

\* Event::notify
notify ==
  /\ kernel = "notify"
  /\ flag' = TRUE
  /\ kernel' = IF flag THEN "idle" ELSE "notify_event"
  /\ UNCHANGED <<device, registered, missed, packet, reading>>

notify_event ==
  /\ kernel = "notify_event"
  /\ shell' = IF registered /\ shell = "asleep" THEN "test" ELSE shell
  /\ registered' = FALSE
  /\ missed' = (missed \/ shell = "wait")
  /\ kernel' = "idle"
  /\ UNCHANGED <<device, flag, packet, count, copy_num>>

-----------------------------------------------------------------------------
(* The shell thread.                                                       *)

read(n) ==
  /\ handle = "open" /\ shell = "idle"
  /\ shell' = "look" /\ count' = n /\ copy_num' = 0
  /\ UNCHANGED <<device, event, kernel, packet>>

look ==
  /\ shell = "look"
  /\ copy_num' = IF count < Len(packets) THEN count ELSE Len(packets)
  /\ shell' = IF packets # <<>> THEN "take" ELSE "test"
  /\ UNCHANGED <<device, event, kernel, packet, count>>

\* Event::wait, the condition of its loop
test ==
  /\ shell = "test"
  /\ shell' = IF flag THEN "reset" ELSE "wait"
  /\ missed' = FALSE
  /\ UNCHANGED <<device, flag, registered, kernel, packet, count, copy_num>>

wait_event ==
  /\ shell = "wait"
  /\ shell' = "asleep" /\ registered' = TRUE
  /\ UNCHANGED <<device, flag, missed, kernel, packet, count, copy_num>>

\* The shell is woken by another event it is still registered with.
wakeup_thread ==
  /\ shell = "asleep"
  /\ shell' = "test"
  /\ UNCHANGED <<device, event, kernel, packet, count, copy_num>>

\* Deliberately wrong: the reader goes back to sleep without another look.
reset_only ==
  /\ shell = "reset"
  /\ flag' = FALSE /\ shell' = "test"
  /\ UNCHANGED <<device, registered, missed, kernel, packet, count, copy_num>>

\* Event::reset
reset ==
  /\ shell = "reset"
  /\ flag' = FALSE /\ shell' = "look"
  /\ UNCHANGED <<device, registered, missed, kernel, packet, count, copy_num>>

\* memcpy and erase
take ==
  /\ shell = "take"
  /\ packets' = SubSeq(packets, copy_num + 1, Len(packets))
  /\ shell' = "idle" /\ count' = 0 /\ copy_num' = 0
  /\ UNCHANGED <<active, handle, event, kernel, packet>>

reader == \/ \E n \in 1..MaxCount : read(n)
          \/ look \/ test \/ wait_event \/ reset \/ take

pusher == emplace_back \/ notify \/ notify_event

Next ==
  \/ on_handle_create \/ on_handle_destroy \/ on_handle_destroy_clear
  \/ \E p \in Packets : push_packet(p)
  \/ pusher
  \/ reader \/ wakeup_thread

Spec == Init /\ [][Next]_vars

\* The kernel and the shell thread are scheduled, and the shell reads on.
FairSpec == Spec /\ WF_vars(pusher) /\ WF_vars(reader)

-----------------------------------------------------------------------------
(* Properties.                                                             *)

\* Every variable keeps its type.  copy_num, computed in one region under the
\* mutex and used in the next, never exceeds the number of packets.
TypeOK ==
  /\ packets \in Seq(Packets) /\ active \in BOOLEAN
  /\ handle \in {"closed", "open", "closing"}
  /\ flag \in BOOLEAN /\ registered \in BOOLEAN /\ missed \in BOOLEAN
  /\ kernel \in {"idle", "push", "notify", "notify_event"} /\ packet \in Packets
  /\ shell \in {"idle", "look", "test", "wait", "asleep", "reset", "take"}
  /\ count \in 0..MaxCount /\ copy_num \in 0..count
  /\ shell = "take" => copy_num \in 1..Len(packets)

\* on_handle_destroy leaves nothing for the next reader, but for the one packet
\* whose push_packet looked at active before.
AtMostOneStale ==
  handle = "closed" => Len(packets) <= IF kernel = "push" THEN 0 ELSE 1

\* A packet is read in the end, unless the device is closed or a notification
\* is missed as above.
PacketsAreRead ==
  \A p \in Packets :
    p \in ToSet(packets) ~> p \notin ToSet(packets) \/ missed \/ handle # "open"
=============================================================================
