-------------------------------- MODULE Xhci ---------------------------------
(***************************************************************************)
(* The xHCI driver (usb/xhci/xhci.hpp) with the devices it configures      *)
(* (usb/device.hpp, usb/xhci/device.hpp) and the HID class drivers.  The   *)
(* kernel thread starts the controller, asks every connected port to be    *)
(* configured and then handles the events of the controller one by one.    *)
(* Only one port at a time may have a device that answers at the default   *)
(* address, so the ports queue for addressing_port.  The controller, the   *)
(* devices and whoever plugs them are the environment.  The rings are      *)
(* queues here; XhciRing has their layout.                                 *)
(***************************************************************************)
EXTENDS Naturals, Sequences, FiniteSets

CONSTANTS
  MaxPorts,     \* Controller::max_ports
  MaxSlots,     \* device_size
  Kinds,        \* the descriptors a device may have
  Endpoints,    \* of a kind: how many endpoint numbers its driver gets, 0 if no driver knows it
  MaxPlugs,     \* bound: how often a device is plugged or unplugged
  Faults        \* what may go wrong: "memory", "command", "transfer"

ASSUME ConstantsAssumption == MaxPorts \in Nat /\ MaxSlots \in Nat

Ports == 1..MaxPorts
Slots == 0..MaxSlots   \* a failed EnableSlot reports slot 0, and the driver takes it for a slot

ConfigPhase == {"NotConnected", "WaitingAddressed", "ResettingPort", "EnablingSlot",
                "AddressingDevice", "InitializingDevice", "ConfiguringEndpoints", "Configured"}

VARIABLES
  kernel, asked,     \* where setup_xhc is, or "loop": in the message loop; the ports it has passed
  hc,                \* the controller: semaphores, USBCMD and USBSTS
  portsc,            \* PORTSC of every port
  kind,              \* the kind of device that is plugged into a port
  port_config_phase, addressing_port, \* 0 stands for every number that no port has
  devices,           \* DeviceManager::devices
  cr, er,            \* the command ring and the event ring
  transfers,         \* the default control pipe and the interrupt endpoint of every device
  default,           \* the ports whose device answers at the default address
  plugs, causes      \* the plugs so far; history: what has gone wrong

vars == <<kernel, asked, hc, portsc, kind, port_config_phase, addressing_port, devices, cr, er,
          transfers, default, plugs, causes>>
start == <<kernel, asked, hc>>
environment == <<kind, plugs, causes>>
-----------------------------------------------------------------------------
(* TRBs: the type of a TRB and what the handlers read of it *)

NormalTRB == [type |-> 1, request |-> "none"]
DataStageTRB(request) == [type |-> 3, request |-> request]
StatusStageTRB(request) == [type |-> 4, request |-> request]
EnableSlotCommandTRB == [type |-> 9, slot |-> 0]
AddressDeviceCommandTRB(s) == [type |-> 11, slot |-> s]
ConfigureEndpointCommandTRB(s) == [type |-> 12, slot |-> s]
TransferEventTRB(s, trb, ok) == [type |-> 32, slot |-> s, issuer |-> trb, ok |-> ok]
CommandCompletionEventTRB(s, trb) == [type |-> 33, slot |-> s, issuer |-> trb]
PortStatusChangeEventTRB(p) == [type |-> 34, port |-> p]

\* What the driver reads and writes of USBCMD and USBSTS, and the legacy capability with its
\* two semaphores, of a controller that the firmware has used or not
Registers(used) ==
  [legacy |-> used, bios |-> used, os |-> FALSE, run |-> used, halted |-> ~used,
   reset |-> FALSE, not_ready |-> FALSE]

\* A device as allocate_device makes it; number is root_hub_port_num of its device
\* context, which the controller fills in
Device == [allocated |-> TRUE, number |-> 0, initialize_phase |-> 0, initialized |-> FALSE,
           drivers |-> 0, waiters |-> {}, hid |-> 0]

NoDevice == [Device EXCEPT !.allocated = FALSE]
-----------------------------------------------------------------------------
(* Ports *)

Unplugged == [connected |-> FALSE, enabled |-> FALSE, csc |-> FALSE, prc |-> FALSE]
Plugged == [connected |-> TRUE, enabled |-> FALSE, csc |-> TRUE, prc |-> FALSE]

\* The events that are left when the handler of the first one returns: process_event pops it
Rest == IF kernel = "loop" THEN Tail(er) ELSE er

\* The controller reports a port when the first of its change bits is set
Report(p, changed) == IF changed THEN <<>> ELSE <<PortStatusChangeEventTRB(p)>>

\* Deliberately wrong: the reset leaves the connect status change bit set
reset_unacknowledged(p) ==
  /\ portsc' = [portsc EXCEPT ![p].enabled = TRUE, ![p].prc = TRUE]
  /\ er' = Rest \o Report(p, portsc[p].csc \/ portsc[p].prc)
  /\ default' = default \cup {p}

\* Port::reset clears CSC, sets PR and spins until the controller has reset the port;
\* the device then answers at the default address
reset(p) ==
  /\ portsc' = [portsc EXCEPT ![p].csc = FALSE, ![p].enabled = TRUE, ![p].prc = TRUE]
  /\ er' = Rest \o Report(p, portsc[p].prc)
  /\ default' = default \cup {p}

\* A handler that resets no port
NoReset == portsc' = portsc /\ er' = Rest /\ default' = default

\* Deliberately wrong: a port does not wait for the one that is being addressed
reset_port_eager(p, phase, addressing) ==
  IF ~portsc[p].connected
  THEN port_config_phase' = phase /\ addressing_port' = addressing /\ NoReset
  ELSE port_config_phase' = [phase EXCEPT ![p] = "ResettingPort"] /\ addressing_port' = p /\ reset(p)

\* reset_port with the phases and addressing_port its caller has left; a port that is in
\* neither of the two phases is refused (InvalidPhase)
reset_port(p, phase, addressing) ==
  IF ~portsc[p].connected \/ (addressing = 0 /\ phase[p] \notin {"NotConnected", "WaitingAddressed"})
  THEN port_config_phase' = phase /\ addressing_port' = addressing /\ NoReset
  ELSE IF addressing # 0
  THEN port_config_phase' = [phase EXCEPT ![p] = "WaitingAddressed"] /\ addressing_port' = addressing /\ NoReset
  ELSE port_config_phase' = [phase EXCEPT ![p] = "ResettingPort"] /\ addressing_port' = p /\ reset(p)
-----------------------------------------------------------------------------
(* Starting the controller *)

Goto(k) == kernel' = k
Idle == UNCHANGED <<asked, portsc, kind, port_config_phase, addressing_port, devices, cr, er, transfers,
                    default, plugs>>

\* Something fails; bound: faults of one sort in a behaviour
Fault(what) == what \in Faults /\ causes \subseteq {what} /\ causes' = {what}

\* An allocation fails: setup_xhc gives up
GiveUp == Fault("memory") /\ Goto("none")

\* initialize up to the wait for the firmware: the device table is made, and a controller
\* with the legacy capability that the system does not own yet is asked for
request_hc_ownership ==
  /\ kernel = "initialize"
  /\ \/ GiveUp /\ UNCHANGED hc
     \/ /\ IF hc.legacy /\ ~hc.os
           THEN Goto("ownership") /\ hc' = [hc EXCEPT !.os = TRUE]
           ELSE Goto("halt") /\ UNCHANGED hc
        /\ UNCHANGED causes
  /\ Idle

\* The loops of request_hc_ownership, initialize and run that wait for the controller
AwaitController ==
  /\ \/ kernel = "ownership" /\ ~hc.bios /\ Goto("halt")
     \/ kernel = "halting" /\ hc.halted /\ Goto("reset")
     \/ kernel = "resetting" /\ ~hc.reset /\ Goto("notready")
     \/ kernel = "notready" /\ ~hc.not_ready /\ Goto("program")
     \/ kernel = "starting" /\ ~hc.halted /\ Goto("ports")
  /\ UNCHANGED <<hc, causes>> /\ Idle

\* initialize halts the controller, resets it and programs its registers, and run starts
\* it; the rings and the scratchpad are allocated in between
initialize ==
  /\ \/ kernel = "halt" /\ Goto("halting") /\ hc' = [hc EXCEPT !.run = FALSE] /\ UNCHANGED causes
     \/ kernel = "reset" /\ Goto("resetting") /\ hc' = [hc EXCEPT !.reset = TRUE] /\ UNCHANGED causes
     \/ kernel = "program" /\ GiveUp /\ UNCHANGED hc
     \/ kernel = "program" /\ Goto("starting") /\ hc' = [hc EXCEPT !.run = TRUE] /\ UNCHANGED causes
  /\ Idle

\* setup_xhc asks for every connected port to be configured, in order
configure_port ==
  /\ kernel = "ports"
  /\ IF asked = MaxPorts
     THEN Goto("loop") /\ UNCHANGED <<asked, port_config_phase, addressing_port>> /\ NoReset
     ELSE /\ asked' = asked + 1
          /\ IF portsc[asked'].connected /\ port_config_phase[asked'] = "NotConnected"
             THEN reset_port(asked', port_config_phase, addressing_port)
             ELSE UNCHANGED <<port_config_phase, addressing_port>> /\ NoReset
          /\ UNCHANGED kernel
  /\ UNCHANGED <<hc, devices, cr, transfers>> /\ UNCHANGED environment

\* A set of ports in order
InOrder(S) ==
  {ports \in UNION {[1..n -> S] : n \in 0..MaxPorts} :
     /\ \A i, j \in DOMAIN ports : i < j => ports[i] < ports[j]
     /\ \A p \in S : \E i \in DOMAIN ports : ports[i] = p}

\* The controller: the firmware lets go, it halts, resets, gets ready and starts, and may
\* or may not report the ports that are connected already
Controller ==
  /\ \/ hc.os /\ hc.bios /\ hc' = [hc EXCEPT !.bios = FALSE] /\ UNCHANGED er
     \/ ~hc.run /\ ~hc.halted /\ hc' = [hc EXCEPT !.halted = TRUE] /\ UNCHANGED er
     \/ hc.reset /\ hc' = [hc EXCEPT !.reset = FALSE, !.not_ready = TRUE] /\ UNCHANGED er
     \/ hc.not_ready /\ ~hc.reset /\ hc' = [hc EXCEPT !.not_ready = FALSE] /\ UNCHANGED er
     \/ /\ hc.run /\ hc.halted /\ hc' = [hc EXCEPT !.halted = FALSE]
        /\ \/ er' = <<>>
           \/ \E ports \in InOrder({p \in Ports : portsc[p].connected}) :
                er' = [i \in DOMAIN ports |-> PortStatusChangeEventTRB(ports[i])]
  /\ UNCHANGED <<kernel, asked, portsc, port_config_phase, addressing_port, devices, cr, transfers, default>>
  /\ UNCHANGED environment
-----------------------------------------------------------------------------
(* Configuring a port *)


\* enable_slot: the reset is complete
enable_slot(p) ==
  /\ IF portsc[p].enabled /\ portsc[p].prc
     THEN /\ portsc' = [portsc EXCEPT ![p].prc = FALSE]
          /\ port_config_phase' = [port_config_phase EXCEPT ![p] = "EnablingSlot"]
          /\ cr' = Append(cr, EnableSlotCommandTRB)
     ELSE UNCHANGED <<portsc, port_config_phase, cr>>
  /\ er' = Rest /\ UNCHANGED <<addressing_port, default>>

\* address_device: the slot must be free; it gets a device, unless the memory is missing
address_device(p, s) ==
  /\ IF devices[s].allocated
     THEN UNCHANGED <<devices, port_config_phase, cr, causes>>
     ELSE \/ Fault("memory") /\ UNCHANGED <<devices, port_config_phase, cr>>
          \/ /\ devices' = [devices EXCEPT ![s] = Device]
             /\ port_config_phase' = [port_config_phase EXCEPT ![p] = "AddressingDevice"]
             /\ cr' = Append(cr, AddressDeviceCommandTRB(s))
             /\ UNCHANGED causes
  /\ NoReset /\ UNCHANGED <<addressing_port, transfers>>

\* A device has its address: the first port that waits is reset, and the phase of p
\* becomes the one initialize_device gives it
next_waiting(p) ==
  LET waiting == {q \in Ports : port_config_phase[q] = "WaitingAddressed"}
      phase == [port_config_phase EXCEPT ![p] = "InitializingDevice"]
  IN  IF waiting = {} THEN port_config_phase' = phase /\ addressing_port' = 0 /\ NoReset
      ELSE \E q \in waiting : (\A r \in waiting : q <= r) /\ reset_port(q, phase, 0)
-----------------------------------------------------------------------------
(* A device; every operation returns the device and its transfers *)

\* control_in and control_out put a request on the default control pipe; the event of a
\* request is that of its data stage, or of its status stage if it has no data
control_in(t, request) == [t EXCEPT !.control = Append(@, DataStageTRB(request))]
control_out(t, request) == [t EXCEPT !.control = Append(@, StatusStageTRB(request))]
interrupt_in(t) == [t EXCEPT !.interrupt = Append(@, NormalTRB)]

State(d, t) == [dev |-> d, trs |-> t]

start_initializing(d, t) ==
  State([d EXCEPT !.initialized = FALSE, !.initialize_phase = 1], control_in(t, "GetDeviceDescriptor"))

initialize_phase1(d, t) ==
  State([d EXCEPT !.initialize_phase = 2], control_in(t, "GetConfigurationDescriptor"))

\* The first interface that a class driver knows is taken; without one nothing follows
initialize_phase2(d, t, k) ==
  IF Endpoints[k] = 0 THEN State(d, t)
  ELSE State([d EXCEPT !.drivers = Endpoints[k], !.initialize_phase = 3], control_out(t, "SetConfiguration"))

initialize_phase3(d, t) == State([d EXCEPT !.initialize_phase = 4, !.initialized = TRUE], t)

\* HIDBaseDriver::on_endpoint_configured, called once per endpoint number of the driver
hid_on_endpoint_configured(d, t) ==
  LET once == control_out(t, "SetProtocol")
  IN  State([d EXCEPT !.hid = 1, !.waiters = @ \cup {"SetProtocol"}],
            IF d.drivers = 2 THEN control_out(once, "SetProtocol") ELSE once)

\* Deliberately wrong: every completed request starts the interrupt transfers
hid_on_control_completed_again(d, t) == State([d EXCEPT !.hid = 2], interrupt_in(t))

\* HIDBaseDriver::on_control_completed; only the first of two requests is expected
hid_on_control_completed(d, t) ==
  IF d.hid # 1 THEN State(d, t) ELSE State([d EXCEPT !.hid = 2], interrupt_in(t))

\* Device::on_control_completed; the other requests are answered with an error code
on_control_completed(d, t, request, k) ==
  CASE d.initialized /\ request \in d.waiters -> hid_on_control_completed(d, t)
    [] ~d.initialized /\ d.initialize_phase = 1 /\ request = "GetDeviceDescriptor" -> initialize_phase1(d, t)
    [] ~d.initialized /\ d.initialize_phase = 2 /\ request = "GetConfigurationDescriptor" -> initialize_phase2(d, t, k)
    [] ~d.initialized /\ d.initialize_phase = 3 /\ request = "SetConfiguration" -> initialize_phase3(d, t)
    [] OTHER -> State(d, t)

\* on_interrupt_completed hands the report to the class driver, which asks for the next
on_interrupt_completed(d, t) == State(d, interrupt_in(t))

\* on_transfer_event_received
on_transfer_event_received(d, t, e, k) ==
  IF e.issuer.type = NormalTRB.type THEN on_interrupt_completed(d, t)
  ELSE on_control_completed(d, t, e.issuer.request, k)
-----------------------------------------------------------------------------
(* The events *)

\* PortStatusChange
on_port_status_change(e) ==
  /\ CASE port_config_phase[e.port] = "NotConnected" ->
            reset_port(e.port, port_config_phase, addressing_port) /\ UNCHANGED cr
       [] port_config_phase[e.port] = "ResettingPort" -> enable_slot(e.port)
       [] OTHER -> UNCHANGED <<port_config_phase, addressing_port, cr>> /\ NoReset
  /\ UNCHANGED <<devices, transfers, causes>>

\* configure_endpoints, for a port whose speed is known and with memory for the rings
configure_endpoints(s) ==
  LET p == devices[s].number
  IN  \/ portsc[p].connected
         /\ port_config_phase' = [port_config_phase EXCEPT ![p] = "ConfiguringEndpoints"]
         /\ cr' = Append(cr, ConfigureEndpointCommandTRB(s))
         /\ UNCHANGED causes
      \/ ~portsc[p].connected /\ UNCHANGED <<port_config_phase, cr, causes>>
      \/ Fault("memory") /\ UNCHANGED <<port_config_phase, cr>>

\* TransferEvent; a transfer that failed is not handed on
on_transfer(e) ==
  LET d == devices[e.slot]
      n == IF e.ok THEN on_transfer_event_received(d, transfers[e.slot], e, kind[d.number])
           ELSE State(d, transfers[e.slot])
  IN  /\ devices' = [devices EXCEPT ![e.slot] = n.dev]
      /\ transfers' = [transfers EXCEPT ![e.slot] = n.trs]
      /\ IF e.ok /\ n.dev.initialized /\ port_config_phase[d.number] = "InitializingDevice"
         THEN configure_endpoints(e.slot)
         ELSE UNCHANGED <<port_config_phase, cr, causes>>
      /\ NoReset /\ UNCHANGED addressing_port

\* CommandCompletion; the completion code is not looked at.  The port of a device is the
\* one in its device context
on_command_completion(e) ==
  LET d == devices[e.slot]
      Drive(n) == /\ devices' = [devices EXCEPT ![e.slot] = n.dev]
                  /\ transfers' = [transfers EXCEPT ![e.slot] = n.trs]
      Refuse == UNCHANGED <<devices, transfers, port_config_phase, addressing_port, cr, causes>> /\ NoReset
  IN  CASE e.issuer.type = EnableSlotCommandTRB.type ->
             IF addressing_port # 0 /\ port_config_phase[addressing_port] = "EnablingSlot"
             THEN address_device(addressing_port, e.slot)
             ELSE Refuse
        [] e.issuer.type = AddressDeviceCommandTRB(0).type ->
             IF d.number = addressing_port /\ port_config_phase[d.number] = "AddressingDevice"
             THEN /\ next_waiting(d.number)
                  /\ Drive(start_initializing(d, transfers[e.slot]))
                  /\ UNCHANGED <<cr, causes>>
             ELSE Refuse
        [] OTHER ->
             IF port_config_phase[d.number] = "ConfiguringEndpoints"
             THEN /\ Drive(hid_on_endpoint_configured(d, transfers[e.slot]))
                  /\ port_config_phase' = [port_config_phase EXCEPT ![d.number] = "Configured"]
                  /\ NoReset /\ UNCHANGED <<addressing_port, cr, causes>>
             ELSE Refuse

\* The kernel thread handles the first event
process_event ==
  /\ kernel = "loop" /\ er # <<>>
  /\ \/ Head(er).type = 34 /\ on_port_status_change(Head(er))
     \/ Head(er).type = 32 /\ on_transfer(Head(er))
     \/ Head(er).type = 33 /\ on_command_completion(Head(er))
  /\ UNCHANGED <<start, kind, plugs>>
-----------------------------------------------------------------------------
(* The environment *)

\* The controller executes a command.  A failed EnableSlot has no slot; a failed
\* AddressDevice leaves the device context as it was in memory
Command ==
  /\ cr # <<>>
  /\ cr' = Tail(cr)
  /\ LET c == Head(cr)
         p == addressing_port
         free == {s \in Slots \ {0} : ~devices[s].allocated}
         Complete(s) == er' = Append(er, CommandCompletionEventTRB(s, c))
     IN  \/ c.type = 9 /\ (\E s \in free : (\A r \in free : s <= r) /\ Complete(s)) /\ UNCHANGED <<devices, default, causes>>
         \/ c.type = 9 /\ Fault("command") /\ Complete(0) /\ UNCHANGED <<devices, default>>
         \/ /\ c.type = 11 /\ p \in default
            /\ devices' = [devices EXCEPT ![c.slot].number = p]
            /\ default' = default \ {p}
            /\ Complete(c.slot) /\ UNCHANGED causes
         \/ /\ c.type = 11 /\ Fault("command")
            /\ \E n \in {0} \cup Ports : devices' = [devices EXCEPT ![c.slot].number = n]
            /\ Complete(c.slot) /\ UNCHANGED default
         \/ c.type = 12 /\ Complete(c.slot) /\ UNCHANGED <<devices, default, causes>>
  /\ UNCHANGED <<start, portsc, kind, port_config_phase, addressing_port, transfers, plugs>>

\* A device answers a transfer; one that has gone does not, and a transfer may fail
Transfer(s, pipe) ==
  /\ transfers[s][pipe] # <<>>
  /\ transfers' = [transfers EXCEPT ![s][pipe] = Tail(@)]
  /\ LET here == devices[s].number \in Ports /\ portsc[devices[s].number].connected
     IN  \E ok \in BOOLEAN :
           /\ ok => here
           /\ er' = Append(er, TransferEventTRB(s, Head(transfers[s][pipe]), ok))
           /\ IF here /\ ~ok THEN Fault("transfer") ELSE UNCHANGED causes
  /\ UNCHANGED <<start, portsc, kind, port_config_phase, addressing_port, devices, cr, default, plugs>>

\* A device is plugged in or unplugged while the controller runs.  Recorded: doing so on a
\* port that is being configured, and plugging one in whose port still has a change bit set,
\* which the controller does not report
plug(p) ==
  LET changed == portsc[p].csc \/ portsc[p].prc
      busy == port_config_phase[p] # "NotConnected"
  IN  /\ plugs < MaxPlugs /\ plugs' = plugs + 1
      /\ hc.run /\ ~hc.halted
      /\ er' = er \o Report(p, changed)
      /\ portsc' = [portsc EXCEPT ![p].connected = ~@, ![p].enabled = FALSE, ![p].csc = TRUE]
      /\ default' = default \ {p}
      /\ causes \subseteq {"plugged"}
      /\ causes' = IF busy \/ (changed /\ ~portsc[p].connected) THEN {"plugged"} ELSE causes
      /\ UNCHANGED <<start, kind, port_config_phase, addressing_port, devices, cr, transfers>>

Init ==
  /\ kernel = "initialize" /\ asked = 0
  /\ hc \in {Registers(used) : used \in BOOLEAN}
  /\ portsc \in [Ports -> {Unplugged, Plugged}]
  /\ kind \in [Ports -> Kinds]
  /\ port_config_phase = [p \in {0} \cup Ports |-> "NotConnected"] /\ addressing_port = 0
  /\ devices = [s \in Slots |-> NoDevice]
  /\ cr = <<>> /\ er = <<>>
  /\ transfers = [s \in Slots |-> [control |-> <<>>, interrupt |-> <<>>]]
  /\ default = {} /\ plugs = 0 /\ causes = {}

kernel_thread == request_hc_ownership \/ AwaitController \/ initialize \/ configure_port \/ process_event

controller == Controller \/ Command

Next ==
  \/ kernel_thread \/ controller
  \/ \E s \in Slots, pipe \in {"control", "interrupt"} : Transfer(s, pipe)
  \/ \E p \in Ports : plug(p)

\* The kernel thread runs again and again, and the controller and the devices go on with
\* what they are asked; nobody has to press a key or to plug a device
Fairness ==
  /\ WF_vars(kernel_thread) /\ WF_vars(controller)
  /\ \A s \in Slots : WF_vars(Transfer(s, "control"))

Spec == Init /\ [][Next]_vars /\ Fairness
-----------------------------------------------------------------------------
(* Properties *)

\* There is never a second device that answers at the default address: a port is reset
\* only when the device of the last one has its address or has gone.  (A failed command
\* is taken for a completed one, so the device may still be at the default address.)
DefaultAddressExclusive == "command" \in causes \/ Cardinality(default) <= 1

\* A class driver that receives reports has exactly one transfer for the next report with
\* the controller or among the events, unless a transfer failed: a second one would report
\* every key twice, and without one the keyboard is dead
ReportsRequested ==
  \A s \in Slots :
    LET reported == {i \in DOMAIN er : er[i].type = 32 /\ er[i].slot = s /\ er[i].issuer = NormalTRB}
        requested == Len(transfers[s].interrupt) + Cardinality(reported)
    IN  /\ requested <= 1
        /\ devices[s].hid = 2 /\ causes = {} => requested = 1

\* Port p is configured, as far as a class driver knows its device, or something is wrong
Settled(p) ==
  \/ causes # {} \/ ~portsc[p].connected
  \/ Endpoints[kind[p]] = 0 /\ port_config_phase[p] = "InitializingDevice"
  \/ port_config_phase[p] = "Configured" /\ \E s \in Slots : devices[s].number = p /\ devices[s].hid = 2

AllSettled == \A p \in Ports : Settled(p)

\* Every device that is plugged in ends up configured, with its reports requested if a class
\* driver knows it, in whatever order the ports, the events and the answers come: no port
\* waits for ever for the default address.  (Not after a failure or after a port has been
\* plugged in one of the two ways that plug records.)
PortsConfigured == []<>AllSettled
=============================================================================
