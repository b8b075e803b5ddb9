------------------------------ MODULE XhciRing -------------------------------
(***************************************************************************)
(* The rings of the xHCI driver (usb/xhci/ring.hpp) as one control pipe    *)
(* uses them (usb/xhci/device.hpp).  The driver writes the stages of a     *)
(* request into the transfer ring, a word at a time, while the controller  *)
(* reads it; the controller answers through the event ring with the        *)
(* address of a stage, and the driver finds the request by that address.   *)
(* A cycle bit tells the TRBs of this round from those of the last one.    *)
(***************************************************************************)
EXTENDS Naturals, Sequences, FiniteSets

CONSTANTS
  TransferCount,   \* buffer_count of the transfer ring; the stages of the requests under way and a
                   \* status stage that is still unread must leave one place free, for a link
                   \* that is written again before it has been read stops the controller
  EventCount,      \* buffer_count of the event ring
  Requests,        \* SetupData
  MaxOutstanding   \* bound: requests the drivers have issued and not seen completed

VARIABLES
  ring, write_index, cycle_bit,     \* the transfer ring
  stages, position, written,        \* what control_in or control_out has still to push
  setup_stage_map,                  \* address of the last stage -> address of its setup stage
  dequeue, consumer_cycle, current, \* the controller: what it reads next, the request it executes
  events, enqueue, producer_cycle,  \* the event ring and the controller's end of it
  erdp, event_cycle,                \* and the driver's
  outstanding, answer               \* the requests under way; the last answer

transfer == <<ring, write_index, cycle_bit>>
pushing == <<stages, position, written>>
controller == <<dequeue, consumer_cycle, current>>
event_ring == <<events, enqueue, producer_cycle, erdp, event_cycle>>
vars == <<transfer, pushing, setup_stage_map, controller, event_ring, outstanding, answer>>

NoStage == TransferCount
Zero == [type |-> 0, request |-> "none", ioc |-> FALSE, cycle |-> FALSE]
SetupStageTRB(r) == [type |-> 2, request |-> r, ioc |-> FALSE]
DataStageTRB == [type |-> 3, request |-> "none", ioc |-> TRUE]
StatusStageTRB(ioc) == [type |-> 4, request |-> "none", ioc |-> ioc]
LinkTRB == [type |-> 6, request |-> "none", ioc |-> FALSE]
-----------------------------------------------------------------------------
(* Requests *)

\* Deliberately wrong: the status stage interrupts in any case
control_both(r, with_data) ==
  /\ stages = <<>> /\ Cardinality(outstanding) < MaxOutstanding /\ r \notin outstanding
  /\ stages' = IF with_data THEN <<SetupStageTRB(r), DataStageTRB, StatusStageTRB(TRUE)>>
               ELSE <<SetupStageTRB(r), StatusStageTRB(TRUE)>>
  /\ outstanding' = outstanding \cup {r}
  /\ UNCHANGED <<transfer, position, written, setup_stage_map, controller, event_ring, answer>>

\* control_in and control_out: with a buffer there is a data stage, which interrupts, and
\* without one the status stage does
control(r, with_data) ==
  /\ stages = <<>> /\ Cardinality(outstanding) < MaxOutstanding /\ r \notin outstanding
  /\ stages' = IF with_data THEN <<SetupStageTRB(r), DataStageTRB, StatusStageTRB(FALSE)>>
               ELSE <<SetupStageTRB(r), StatusStageTRB(TRUE)>>
  /\ outstanding' = outstanding \cup {r}
  /\ UNCHANGED <<transfer, position, written, setup_stage_map, controller, event_ring, answer>>

\* copy_to_last: data[0..2] first, then data[3] with the type and the cycle bit
copy_to_last(trb) ==
  IF ~written THEN ring' = [ring EXCEPT ![write_index].request = trb.request]
  ELSE ring' = [ring EXCEPT ![write_index].type = trb.type, ![write_index].ioc = trb.ioc,
                            ![write_index].cycle = cycle_bit]

\* Half of a Ring::push.  A stage that fills the last place but one is followed by the
\* link, with which the next round begins; after the last stage the address of the one
\* that interrupts is remembered
push ==
  /\ stages # <<>>
  /\ copy_to_last(Head(stages))
  /\ written' = ~written
  /\ IF ~written THEN UNCHANGED <<write_index, cycle_bit, stages, position, setup_stage_map>>
     ELSE LET trb == Head(stages)
              rest == IF write_index = TransferCount - 2 THEN <<LinkTRB>> \o Tail(stages) ELSE Tail(stages)
              at == IF trb.type = 2 THEN [position EXCEPT !.setup = write_index]
                    ELSE IF trb.ioc THEN [position EXCEPT !.last = write_index] ELSE position
          IN  /\ stages' = rest
              /\ write_index' = IF trb = LinkTRB THEN 0 ELSE write_index + 1
              /\ cycle_bit' = IF trb = LinkTRB THEN ~cycle_bit ELSE cycle_bit
              /\ position' = IF rest = <<>> THEN [setup |-> 0, last |-> 0] ELSE at
              /\ setup_stage_map' = IF rest = <<>> THEN [setup_stage_map EXCEPT ![at.last] = at.setup]
                                    ELSE setup_stage_map
  /\ UNCHANGED <<controller, event_ring, outstanding, answer>>
-----------------------------------------------------------------------------
(* The controller *)

\* It reads the next TRB if the cycle bit says that it is new, follows a link, keeps the
\* request of a setup stage, and reports a stage that interrupts if there is room
Execute ==
  LET trb == ring[dequeue]
      next == (enqueue + 1) % EventCount
  IN  /\ trb.cycle = consumer_cycle
      /\ dequeue' = IF trb.type = 6 THEN 0 ELSE dequeue + 1
      /\ consumer_cycle' = IF trb.type = 6 THEN ~consumer_cycle ELSE consumer_cycle
      /\ current' = IF trb.type = 2 THEN trb.request ELSE current
      /\ IF trb.ioc
         THEN /\ next # erdp
              /\ events' = [events EXCEPT ![enqueue] = [pointer |-> dequeue, done |-> current, cycle |-> producer_cycle]]
              /\ enqueue' = next
              /\ producer_cycle' = IF next = 0 THEN ~producer_cycle ELSE producer_cycle
         ELSE UNCHANGED <<events, enqueue, producer_cycle>>
      /\ UNCHANGED <<transfer, pushing, setup_stage_map, erdp, event_cycle, outstanding, answer>>
-----------------------------------------------------------------------------
(* The events *)

\* EventRing::has_front and get_front
get_front == events[erdp]
has_front == get_front.cycle = event_cycle

\* EventRing::pop
pop ==
  /\ erdp' = IF erdp + 1 = EventCount THEN 0 ELSE erdp + 1
  /\ event_cycle' = IF erdp + 1 = EventCount THEN ~event_cycle ELSE event_cycle

\* Controller::process_event with Device::on_transfer_event_received: the kernel thread,
\* which is not in the middle of a request, looks the stage up and reads the request from
\* the setup stage it finds.  The entry of the map is read after it has been erased: by
\* then another thread may use its memory, and the address is arbitrary
process_event ==
  /\ stages = <<>> /\ has_front
  /\ LET at == get_front.pointer
         found == setup_stage_map[at]
     IN  /\ \/ answer' = [done |-> get_front.done,
                          request |-> IF found = NoStage THEN "none" ELSE ring[found].request]
            \/ /\ found # NoStage
               /\ answer' = [done |-> get_front.done, request |-> "reused"]
         /\ setup_stage_map' = [setup_stage_map EXCEPT ![at] = NoStage]
         /\ outstanding' = outstanding \ {get_front.done}
  /\ pop
  /\ UNCHANGED <<transfer, pushing, controller, events, enqueue, producer_cycle>>

\* Ring::initialize and EventRing::initialize
Init ==
  /\ ring = [i \in 0..TransferCount - 1 |-> Zero] /\ write_index = 0 /\ cycle_bit = TRUE
  /\ stages = <<>> /\ position = [setup |-> 0, last |-> 0] /\ written = FALSE
  /\ setup_stage_map = [i \in 0..TransferCount - 2 |-> NoStage]
  /\ dequeue = 0 /\ consumer_cycle = TRUE /\ current = "none"
  /\ events = [i \in 0..EventCount - 1 |-> [pointer |-> 0, done |-> "none", cycle |-> FALSE]]
  /\ enqueue = 0 /\ producer_cycle = TRUE /\ erdp = 0 /\ event_cycle = TRUE
  /\ outstanding = {} /\ answer = [done |-> "none", request |-> "none"]

Next ==
  \/ \E r \in Requests, with_data \in BOOLEAN : control(r, with_data)
  \/ push \/ Execute \/ process_event

Spec == Init /\ [][Next]_vars
-----------------------------------------------------------------------------
(* Properties *)

\* The request the driver takes an event for is the one that the controller has executed,
\* however often the two rings have come round, and no event is taken twice.  (Not if the
\* memory of the erased entry had been used again.)
RequestsMatched == answer.request \in {"reused", answer.done}
=============================================================================
