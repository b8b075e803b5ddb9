------------------------------ MODULE MCDevices ------------------------------
(***************************************************************************)
(* The device drivers for TLC: the AHCI disks, the xHCI controller, once   *)
(* with two ports where everything may go wrong and once with three ports  *)
(* where nothing does, and the virtio GPU.  They share no state: part says *)
(* which of them a behaviour is about, and only that one moves.            *)
(***************************************************************************)
EXTENDS Xhci

VARIABLES
  part,
  running, ci, tfes, is, messages, a_kernel, count, flag, registered, thread, slot, transferred,
  early, cleared, missed,
  driver, device_status, offers, descriptors, free_head, added_descriptors, avail, avail_index,
  used, used_index, last_used, seen, message, v_kernel, worker, framebuffer, created, sync_done,
  swapping, swaps, queued, answer, v_causes

\* A device with two endpoints of its driver, one with one, and one without a driver
Drivers == [k \in {"combined", "keyboard", "other"} |->
              IF k = "combined" THEN 2 ELSE IF k = "keyboard" THEN 1 ELSE 0]
Combined == {"combined"}

X3 == INSTANCE Xhci WITH
        MaxPorts <- 3, MaxSlots <- 3, Kinds <- {"keyboard", "other"}, Endpoints <- Drivers,
        MaxPlugs <- 0, Faults <- {}

A == INSTANCE Ahci WITH NumDisks <- 2, NumSlots <- 2, Clients <- {2}, MaxMessages <- 2, kernel <- a_kernel

V == INSTANCE VirtioGpu WITH
       QueueSizes <- [i \in 0..2 |-> IF i = 0 THEN 0 ELSE 8], Width <- 16, MaxSwaps <- 5,
       kernel <- v_kernel, causes <- v_causes

ahci == <<running, ci, tfes, is, messages, a_kernel, count, flag, registered, thread, slot,
          transferred, early, cleared, missed>>
virtio == <<driver, device_status, offers, descriptors, free_head, added_descriptors, avail,
            avail_index, used, used_index, last_used, seen, message, v_kernel, worker, framebuffer,
            created, sync_done, swapping, swaps, queued, answer, v_causes>>
all == <<part, ahci, vars, virtio>>

Disks == part = "ahci" /\ UNCHANGED <<part, vars, virtio>>
Usb(p) == part = p /\ UNCHANGED <<part, ahci, virtio>>
Gpu == part = "gpu" /\ UNCHANGED <<part, ahci, vars>>

\* The parts that stand still have one initial state each
XhciStill ==
  Init /\ ~hc.run /\ portsc = [p \in Ports |-> Unplugged]
VirtioStill == driver = 0 /\ device_status = 0 /\ offers = 0 /\ descriptors = 0 /\ free_head = 0
               /\ added_descriptors = 0 /\ avail = 0 /\ avail_index = 0 /\ used = 0 /\ used_index = 0
               /\ last_used = 0 /\ seen = 0 /\ message = 0 /\ v_kernel = 0 /\ worker = 0
               /\ framebuffer = 0 /\ created = 0 /\ sync_done = 0 /\ swapping = 0 /\ swaps = 0
               /\ queued = 0 /\ answer = 0 /\ v_causes = 0

DevicesInit ==
  \/ part = "ahci" /\ A!Init /\ XhciStill /\ VirtioStill
  \/ part = "xhci" /\ Init /\ A!Init /\ VirtioStill
  \/ part = "xhci 3" /\ X3!Init /\ A!Init /\ VirtioStill
  \/ part = "gpu" /\ V!Init /\ A!Init /\ XhciStill

DevicesNext ==
  \/ Disks /\ A!Next
  \/ Usb("xhci") /\ Next
  \/ Usb("xhci 3") /\ X3!Next
  \/ Gpu /\ V!Next

\* The fairness of Ahci, Xhci and VirtioGpu.  part never changes, so an action that is one
\* of each part has to be taken if that of the part is
Kernel == \/ Disks /\ A!kernel_thread
          \/ Usb("xhci") /\ kernel_thread
          \/ Usb("xhci 3") /\ X3!kernel_thread
          \/ Gpu /\ V!kernel_thread
Controllers == \/ Disks /\ A!device(1)
               \/ Usb("xhci") /\ controller
               \/ Usb("xhci 3") /\ X3!controller
               \/ Gpu /\ V!Device
Fair(i) == \/ i = 1 /\ Disks /\ A!device(2)
           \/ i = 2 /\ Disks /\ A!finder
           \/ i = 3 /\ Disks /\ A!client(2)
           \/ i < 3 /\ Usb("xhci") /\ Transfer(i, "control")
           \/ Usb("xhci 3") /\ X3!Transfer(i, "control")
           \/ i = 1 /\ Gpu /\ V!initialize
           \/ i = 2 /\ Gpu /\ V!swap_end

DevicesSpec ==
  /\ DevicesInit /\ [][DevicesNext]_all
  /\ WF_all(Kernel) /\ WF_all(Controllers) /\ \A i \in 0..3 : WF_all(Fair(i))
-----------------------------------------------------------------------------
\* The device finder goes on only when every disk has been identified, and a
\* client returns only when its command has been executed
CommandsDone == part = "ahci" => A!AllIdentified /\ A!TransferDone

\* The finder and the clients return, but for the windows A!Returns names
Returns == \A w \in {0, 2} : []<>(part = "ahci" => A!Finished(w))

\* Every port with a device ends up configured, but for what PortsConfigured names
AllPortsConfigured == []<>(AllSettled /\ (part = "xhci 3" => X3!AllSettled))

\* An answer of the GPU is read once, with the request it answers
AnswersMatched == part = "gpu" => V!AnswersMatched

\* The virtio framebuffer becomes a device file unless the device refuses
FramebufferAppears == []<>(part = "gpu" => V!Appeared)
=============================================================================
