------------------------------ MODULE PmTimer ------------------------------
(***************************************************************************)
(* acpi::wait_microseconds (acpi.hpp), with which a starting processor is  *)
(* given its time and the local APIC timer is calibrated.  The timer has   *)
(* 2^Low values, or 2^High when the FADT says so (24 and 32 bits), and     *)
(* advances by at most Gap between two reads.  `end` has 64 bits.          *)
(***************************************************************************)
EXTENDS Integers

CONSTANTS
  Low, High,
  Gap,
  Waits        \* durations, in counts of the timer

VARIABLES
  wide,        \* pm_timer_32
  wait,        \* pm_timer_freq * us / 1'000'000
  start, end,  \* locals
  timer,       \* the value of the timer
  pc,          \* "start", "overflow" (first loop), "wait" (second), "done"
  elapsed      \* counts since the first read, up to a whole turn

vars == <<wide, wait, start, end, timer, pc, elapsed>>

Turn == IF wide THEN 2^High ELSE 2^Low

Init ==
  /\ wide \in BOOLEAN /\ wait \in Waits
  /\ timer \in 0..Turn - 1
  /\ start = timer /\ end = 0 /\ pc = "start" /\ elapsed = 0

\* io_read32: some time has gone by since the last read
io_read32 ==
  \E d \in 1..Gap :
    /\ timer' = (timer + d) % Turn
    /\ elapsed' = IF elapsed + d > Turn THEN Turn ELSE elapsed + d

wait_microseconds ==
  /\ pc = "start"
  /\ end' = IF wide THEN start + wait ELSE (start + wait) % 2^Low
  /\ pc' = IF end' < start THEN "overflow" ELSE "wait"
  /\ UNCHANGED <<wide, wait, start, timer, elapsed>>

\* Deliberately wrong: the first loop ends at once.
read_overflow_once ==
  /\ pc = "overflow"
  /\ io_read32
  /\ pc' = "wait"
  /\ UNCHANGED <<wide, wait, start, end>>

\* A turn of the first loop: until the timer has wrapped
read_overflow ==
  /\ pc = "overflow"
  /\ io_read32
  /\ pc' = IF timer' >= start THEN "overflow" ELSE "wait"
  /\ UNCHANGED <<wide, wait, start, end>>

\* A turn of the second loop
read_end ==
  /\ pc = "wait"
  /\ io_read32
  /\ pc' = IF timer' < end THEN "wait" ELSE "done"
  /\ UNCHANGED <<wide, wait, start, end>>

Next == wait_microseconds \/ read_overflow \/ read_end

\* The processor goes on executing the loop.
FairSpec == Init /\ [][Next]_vars /\ WF_vars(Next)

-----------------------------------------------------------------------------
(* Properties.                                                             *)

\* The values that end the second loop may all be passed between two reads;
\* with the wide timer `end` is not reduced, and there may be none at all.
Missable == end + Gap > Turn

Waited == IF pc = "done" THEN elapsed >= wait ELSE Missable

\* The wait returns, and never before its time, also across a wrap of the
\* timer; it is only kept from returning when the end can be missed.
WaitElapses == []<>Waited
=============================================================================
