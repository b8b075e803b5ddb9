----------------------------- MODULE XhciProofs -----------------------------
(***************************************************************************)
(* Proofs about Xhci, for any number of ports and slots, any kinds of      *)
(* devices and any plugging: that one port at a time has a device at the   *)
(* default address, and that a keyboard has one report requested.          *)
(***************************************************************************)
EXTENDS Xhci, TLAPS

-----------------------------------------------------------------------------
(* One device at the default address.                                      *)

AllPorts == {0} \cup Ports
Commands == [type : {9, 11, 12}, slot : Slots]
Requests == {"none", "GetDeviceDescriptor", "GetConfigurationDescriptor", "SetConfiguration",
             "SetProtocol"}
Controls == [type : {3, 4}, request : Requests]
Stages == Controls \cup {NormalTRB}
Events ==
  [type : {34}, port : Ports] \cup [type : {33}, slot : Slots, issuer : Commands]
    \cup [type : {32}, slot : Slots, issuer : Stages, ok : BOOLEAN]
\* The number of endpoints that kind[n] stands for is left open for the port 0 that is none
DriverCounts == {0} \cup {Endpoints[kind[n]] : n \in AllPorts}
DeviceSet ==
  [allocated : BOOLEAN, number : AllPorts, initialize_phase : 0..4, initialized : BOOLEAN,
   drivers : DriverCounts, waiters : SUBSET {"SetProtocol"}, hid : 0..2]
Pipes == [control : Seq(Controls), interrupt : Seq({NormalTRB})]

TypeInv ==
  /\ asked \in 0..MaxPorts
  /\ port_config_phase \in [AllPorts -> ConfigPhase] /\ addressing_port \in AllPorts
  /\ devices \in [Slots -> DeviceSet] /\ transfers \in [Slots -> Pipes]
  /\ cr \in Seq(Commands) /\ er \in Seq(Events)

-----------------------------------------------------------------------------
(* Queues.                                                                 *)

Has(q, M) == \E i \in DOMAIN q : q[i] \in M
AtMostOne(q, M) == \A i, j \in DOMAIN q : q[i] \in M /\ q[j] \in M => i = j

LEMMA TailFacts ==
  ASSUME NEW S, NEW q \in Seq(S), q # <<>>
  PROVE  /\ Tail(q) \in Seq(S) /\ Head(q) \in S /\ Head(q) = q[1]
         /\ DOMAIN q = 1..Len(q) /\ Len(q) \in Nat \ {0}
         /\ DOMAIN Tail(q) = 1..(Len(q) - 1) /\ \A i \in 1..(Len(q) - 1) : Tail(q)[i] = q[i + 1]
OBVIOUS

LEMMA AppendFacts ==
  ASSUME NEW S, NEW q \in Seq(S), NEW e \in S
  PROVE  /\ Append(q, e) \in Seq(S) /\ Len(q) \in Nat /\ DOMAIN q = 1..Len(q)
         /\ DOMAIN Append(q, e) = 1..(Len(q) + 1)
         /\ \A i \in 1..Len(q) : Append(q, e)[i] = q[i]
         /\ Append(q, e)[Len(q) + 1] = e
OBVIOUS

LEMMA ConcatFacts ==
  ASSUME NEW S, NEW q \in Seq(S), NEW e \in S
  PROVE  q \o <<>> = q /\ q \o <<e>> = Append(q, e)
OBVIOUS

LEMMA TailOnce ==
  ASSUME NEW S, NEW q \in Seq(S), q # <<>>, NEW M, AtMostOne(q, M)
  PROVE  /\ AtMostOne(Tail(q), M) /\ (Has(Tail(q), M) => Has(q, M) /\ Head(q) \notin M)
         /\ Has(q, M) => Head(q) \in M \/ Has(Tail(q), M)
<1>1. /\ DOMAIN q = 1..Len(q) /\ Len(q) \in Nat \ {0} /\ Head(q) = q[1]
      /\ DOMAIN Tail(q) = 1..(Len(q) - 1) /\ \A i \in 1..(Len(q) - 1) : Tail(q)[i] = q[i + 1]
  BY TailFacts
<1>2. \A i \in 1..(Len(q) - 1) : i + 1 \in DOMAIN q /\ i + 1 # 1
  BY <1>1
<1>3. \A i \in DOMAIN q : i = 1 \/ (i - 1 \in DOMAIN Tail(q) /\ q[i] = Tail(q)[i - 1])
  BY <1>1
<1>4. \A i, j \in DOMAIN Tail(q) : i + 1 = j + 1 => i = j
  BY <1>1
<1>5. AtMostOne(Tail(q), M) BY <1>1, <1>2, <1>4, Zenon DEF AtMostOne
<1>6. Has(Tail(q), M) => Has(q, M) /\ Head(q) \notin M
  <2> SUFFICES ASSUME NEW i \in DOMAIN Tail(q), Tail(q)[i] \in M PROVE Has(q, M) /\ Head(q) \notin M
    BY Zenon DEF Has
  <2>1. i + 1 \in DOMAIN q /\ q[i + 1] \in M /\ i + 1 # 1 /\ 1 \in DOMAIN q BY <1>1, <1>2
  <2> QED BY <1>1, <2>1, Zenon DEF Has, AtMostOne
<1>7. Has(q, M) => Head(q) \in M \/ Has(Tail(q), M) BY <1>1, <1>3, Zenon DEF Has
<1> QED BY <1>5, <1>6, <1>7

LEMMA TailHas ==
  ASSUME NEW S, NEW q \in Seq(S), q # <<>>, NEW M
  PROVE  (Has(Tail(q), M) => Has(q, M)) /\ (Has(q, M) => Head(q) \in M \/ Has(Tail(q), M))
<1>1. /\ DOMAIN q = 1..Len(q) /\ Len(q) \in Nat \ {0} /\ Head(q) = q[1]
      /\ DOMAIN Tail(q) = 1..(Len(q) - 1) /\ \A i \in 1..(Len(q) - 1) : Tail(q)[i] = q[i + 1]
  BY TailFacts
<1>2. \A i \in 1..(Len(q) - 1) : i + 1 \in DOMAIN q BY <1>1
<1>3. \A i \in DOMAIN q : i = 1 \/ (i - 1 \in DOMAIN Tail(q) /\ q[i] = Tail(q)[i - 1]) BY <1>1
<1> QED BY <1>1, <1>2, <1>3, Zenon DEF Has

LEMMA AppendOnce ==
  ASSUME NEW S, NEW q \in Seq(S), NEW e \in S, NEW M
  PROVE  /\ Has(Append(q, e), M) <=> Has(q, M) \/ e \in M
         /\ AtMostOne(q, M) /\ (Has(q, M) => e \notin M) => AtMostOne(Append(q, e), M)
<1>1. /\ Len(q) \in Nat /\ DOMAIN q = 1..Len(q) /\ DOMAIN Append(q, e) = 1..(Len(q) + 1)
      /\ \A i \in 1..Len(q) : Append(q, e)[i] = q[i]
      /\ Append(q, e)[Len(q) + 1] = e
  BY AppendFacts
<1>2. DOMAIN Append(q, e) = DOMAIN q \cup {Len(q) + 1} BY <1>1
<1>3. \A i \in DOMAIN q : Append(q, e)[i] = q[i] BY <1>1, Zenon
<1> QED BY <1>1, <1>2, <1>3, Zenon DEF Has, AtMostOne
-----------------------------------------------------------------------------
(* Types.                                                                  *)

LEMMA PortFacts ==
  /\ 0 \in AllPorts /\ 0 \notin Ports /\ 0 \in Slots /\ Ports \subseteq AllPorts
  /\ \A p \in AllPorts : p # 0 => p \in Ports
BY ConstantsAssumption DEF AllPorts, Ports, Slots

LEMMA EventFacts ==
  ASSUME NEW e \in Events
  PROVE  /\ e.type \in {32, 33, 34}
         /\ e.type = 34 => e.port \in Ports
         /\ e.type = 33 => e.slot \in Slots /\ e.issuer \in Commands
         /\ e.type = 32 => e.slot \in Slots /\ e.issuer \in Stages /\ e.ok \in BOOLEAN
<1>1. CASE e \in [type : {34}, port : Ports] BY <1>1
<1>2. CASE e \in [type : {33}, slot : Slots, issuer : Commands] BY <1>2
<1>3. CASE e \in [type : {32}, slot : Slots, issuer : Stages, ok : BOOLEAN] BY <1>3
<1> QED BY <1>1, <1>2, <1>3, Zenon DEF Events

LEMMA PortEvent ==
  ASSUME NEW p \in Ports
  PROVE  PortStatusChangeEventTRB(p) \in Events /\ PortStatusChangeEventTRB(p).type = 34
BY DEF Events, PortStatusChangeEventTRB

LEMMA CommandEvent ==
  ASSUME NEW s \in Slots, NEW c \in Commands
  PROVE  /\ CommandCompletionEventTRB(s, c) \in Events /\ CommandCompletionEventTRB(s, c).type = 33
         /\ CommandCompletionEventTRB(s, c).slot = s /\ CommandCompletionEventTRB(s, c).issuer = c
BY DEF Events, CommandCompletionEventTRB

LEMMA TransferEvent ==
  ASSUME NEW s \in Slots, NEW t \in Stages, NEW ok \in BOOLEAN
  PROVE  /\ TransferEventTRB(s, t, ok) \in Events /\ TransferEventTRB(s, t, ok).type = 32
         /\ TransferEventTRB(s, t, ok).slot = s /\ TransferEventTRB(s, t, ok).issuer = t
BY Zenon DEF Events, TransferEventTRB

LEMMA NewCommands ==
  /\ EnableSlotCommandTRB \in Commands /\ EnableSlotCommandTRB.type = 9
  /\ \A s \in Slots :
       /\ AddressDeviceCommandTRB(s) \in Commands /\ AddressDeviceCommandTRB(s).type = 11
       /\ AddressDeviceCommandTRB(s).slot = s
       /\ ConfigureEndpointCommandTRB(s) \in Commands /\ ConfigureEndpointCommandTRB(s).type = 12
       /\ ConfigureEndpointCommandTRB(s).slot = s
BY PortFacts DEF Commands, EnableSlotCommandTRB, AddressDeviceCommandTRB, ConfigureEndpointCommandTRB

LEMMA RestType ==
  ASSUME er \in Seq(Events), kernel = "loop" => er # <<>>
  PROVE  Rest \in Seq(Events)
BY TailFacts, Zenon DEF Rest

\* Adding the report of a port changes no event that is not one
LEMMA ReportCases ==
  ASSUME NEW q \in Seq(Events), NEW p \in Ports, NEW b
  PROVE  q \o Report(p, b) = q \/ q \o Report(p, b) = Append(q, PortStatusChangeEventTRB(p))
<1>1. PortStatusChangeEventTRB(p) \in Events BY PortEvent, Zenon
<1>2. Report(p, b) = <<>> \/ Report(p, b) = <<PortStatusChangeEventTRB(p)>> BY Zenon DEF Report
<1> QED BY <1>1, <1>2, ConcatFacts, Zenon

\* What a handler leaves of the events: the rest, and perhaps the report of a port
EventsLeft(q) == er' = q \/ \E p \in Ports : er' = Append(q, PortStatusChangeEventTRB(p))

LEMMA EventsLeftType ==
  ASSUME NEW q \in Seq(Events), EventsLeft(q)
  PROVE  er' \in Seq(Events)
<1>1. \A p \in Ports : PortStatusChangeEventTRB(p) \in Events BY PortEvent, Zenon
<1>2. \A p \in Ports : Append(q, PortStatusChangeEventTRB(p)) \in Seq(Events) BY <1>1, AppendFacts, Zenon
<1> QED BY <1>2, Zenon DEF EventsLeft

\* The three ways reset_port ends
LEMMA ResetPort ==
  ASSUME NEW p \in Ports, NEW phase, NEW a, reset_port(p, phase, a),
         er \in Seq(Events), kernel = "loop" => er # <<>>
  PROVE  /\ EventsLeft(Rest)
         /\ \/ port_config_phase' = phase /\ addressing_port' = a /\ default' = default
            \/ /\ port_config_phase' = [phase EXCEPT ![p] = "WaitingAddressed"] /\ a # 0
               /\ addressing_port' = a /\ default' = default
            \/ /\ port_config_phase' = [phase EXCEPT ![p] = "ResettingPort"] /\ a = 0
               /\ addressing_port' = p /\ default' = default \cup {p}
<1>1. Rest \in Seq(Events) BY RestType, Zenon
<1>2. ASSUME NoReset PROVE EventsLeft(Rest) /\ default' = default
  BY <1>2, Zenon DEF NoReset, EventsLeft
<1>3. ASSUME reset(p) PROVE EventsLeft(Rest) /\ default' = default \cup {p}
  <2>1. er' = Rest \o Report(p, portsc[p].prc) BY <1>3, Zenon DEF reset
  <2> QED BY <1>1, <1>3, <2>1, ReportCases, Zenon DEF reset, EventsLeft
<1> QED BY <1>2, <1>3, Zenon DEF reset_port

LEMMA PhaseNames ==
  \A x \in {"NotConnected", "WaitingAddressed", "ResettingPort", "EnablingSlot", "AddressingDevice",
            "InitializingDevice", "ConfiguringEndpoints", "Configured"} : x \in ConfigPhase
BY Zenon DEF ConfigPhase

\* The requests that an operation puts on the pipes of a device
LEMMA PipeOps ==
  ASSUME NEW t \in Pipes, NEW r \in Requests
  PROVE  /\ control_in(t, r) \in Pipes /\ control_in(t, r).interrupt = t.interrupt
         /\ control_out(t, r) \in Pipes /\ control_out(t, r).interrupt = t.interrupt
         /\ interrupt_in(t) \in Pipes /\ interrupt_in(t).interrupt = Append(t.interrupt, NormalTRB)
<1>1. DataStageTRB(r) \in Controls /\ StatusStageTRB(r) \in Controls
  BY DEF Controls, DataStageTRB, StatusStageTRB
<1>2. NormalTRB \in {NormalTRB} OBVIOUS
<1>3. t.control \in Seq(Controls) /\ t.interrupt \in Seq({NormalTRB}) BY DEF Pipes
<1>4. Append(t.control, DataStageTRB(r)) \in Seq(Controls) /\ Append(t.control, StatusStageTRB(r)) \in Seq(Controls)
      /\ Append(t.interrupt, NormalTRB) \in Seq({NormalTRB})
  BY <1>1, <1>2, <1>3, AppendFacts, Zenon
<1> QED BY <1>4, Zenon DEF Pipes, control_in, control_out, interrupt_in

\* What an operation leaves alone of a device
SameDevice(d, n) ==
  n.dev \in DeviceSet /\ n.trs \in Pipes /\ n.dev.allocated = d.allocated /\ n.dev.number = d.number

LEMMA DeviceStarts ==
  ASSUME NEW d \in DeviceSet, NEW t \in Pipes
  PROVE  LET n == start_initializing(d, t)
         IN  SameDevice(d, n) /\ n.dev.hid = d.hid /\ n.trs.interrupt = t.interrupt
<1> DEFINE r == [d EXCEPT !.initialized = FALSE, !.initialize_phase = 1]
           c == control_in(t, "GetDeviceDescriptor")
<1>0. FALSE \in BOOLEAN /\ 1 \in 0..4 OBVIOUS
<1>1. r \in DeviceSet /\ r.allocated = d.allocated /\ r.number = d.number /\ r.hid = d.hid
  BY <1>0, Zenon DEF DeviceSet
<1>2. c \in Pipes /\ c.interrupt = t.interrupt BY PipeOps DEF Requests
<1>3. start_initializing(d, t).dev = r /\ start_initializing(d, t).trs = c
  BY Zenon DEF start_initializing, State
<1> QED BY <1>1, <1>2, <1>3, Zenon DEF SameDevice

LEMMA EndpointsConfigured ==
  ASSUME NEW d \in DeviceSet, NEW t \in Pipes
  PROVE  LET n == hid_on_endpoint_configured(d, t)
         IN  SameDevice(d, n) /\ n.dev.hid = 1 /\ n.trs.interrupt = t.interrupt
<1> DEFINE r == [d EXCEPT !.hid = 1, !.waiters = @ \cup {"SetProtocol"}]
           once == control_out(t, "SetProtocol")
           c == IF d.drivers = 2 THEN control_out(once, "SetProtocol") ELSE once
<1>0. d.waiters \cup {"SetProtocol"} \in SUBSET {"SetProtocol"} /\ 1 \in 0..2 BY DEF DeviceSet
<1>1. r \in DeviceSet /\ r.allocated = d.allocated /\ r.number = d.number /\ r.hid = 1
  BY <1>0, Zenon DEF DeviceSet
<1>2. once \in Pipes /\ once.interrupt = t.interrupt BY PipeOps DEF Requests
<1>3. control_out(once, "SetProtocol") \in Pipes /\ control_out(once, "SetProtocol").interrupt = once.interrupt
  BY <1>2, PipeOps DEF Requests
<1>4. hid_on_endpoint_configured(d, t).dev = r /\ hid_on_endpoint_configured(d, t).trs = c
  BY Zenon DEF hid_on_endpoint_configured, State
<1> QED BY <1>1, <1>2, <1>3, <1>4, Zenon DEF SameDevice

\* The operations that an answered control request starts: the driver learns of the first
\* SetProtocol and then asks for a report, and nothing else asks for one
LEMMA ControlCompleted ==
  ASSUME NEW d \in DeviceSet, NEW t \in Pipes, NEW n \in AllPorts, NEW request
  PROVE  LET m == on_control_completed(d, t, request, kind[n])
         IN  /\ SameDevice(d, m)
             /\ \/ m.dev.hid = d.hid /\ m.trs.interrupt = t.interrupt
                \/ d.hid = 1 /\ m.dev.hid = 2 /\ m.trs.interrupt = Append(t.interrupt, NormalTRB)
<1> DEFINE Good(m) ==
             /\ SameDevice(d, m)
             /\ \/ m.dev.hid = d.hid /\ m.trs.interrupt = t.interrupt
                \/ d.hid = 1 /\ m.dev.hid = 2 /\ m.trs.interrupt = Append(t.interrupt, NormalTRB)
<1>1. State(d, t).dev = d /\ State(d, t).trs = t BY Zenon DEF State
<1>2. Good(State(d, t)) BY <1>1, Zenon DEF SameDevice
<1>3. Good(hid_on_control_completed(d, t))
  <2> DEFINE r == [d EXCEPT !.hid = 2]
  <2>1. r \in DeviceSet /\ r.allocated = d.allocated /\ r.number = d.number /\ r.hid = 2 BY DEF DeviceSet
  <2>2. interrupt_in(t) \in Pipes /\ interrupt_in(t).interrupt = Append(t.interrupt, NormalTRB)
    BY PipeOps DEF Requests
  <2>3. State(r, interrupt_in(t)).dev = r /\ State(r, interrupt_in(t)).trs = interrupt_in(t) BY Zenon DEF State
  <2>4. d.hid = 1 => Good(State(r, interrupt_in(t))) BY <2>1, <2>2, <2>3, Zenon DEF SameDevice
  <2> QED BY <1>2, <2>4, Zenon DEF hid_on_control_completed
<1>4. Good(initialize_phase1(d, t))
  <2> DEFINE r == [d EXCEPT !.initialize_phase = 2]
             c == control_in(t, "GetConfigurationDescriptor")
  <2>1. r \in DeviceSet /\ r.allocated = d.allocated /\ r.number = d.number /\ r.hid = d.hid BY DEF DeviceSet
  <2>2. c \in Pipes /\ c.interrupt = t.interrupt BY PipeOps DEF Requests
  <2>3. initialize_phase1(d, t).dev = r /\ initialize_phase1(d, t).trs = c BY Zenon DEF State, initialize_phase1
  <2> QED BY <2>1, <2>2, <2>3, Zenon DEF SameDevice
<1>5. Good(initialize_phase2(d, t, kind[n]))
  <2> DEFINE r == [d EXCEPT !.drivers = Endpoints[kind[n]], !.initialize_phase = 3]
             c == control_out(t, "SetConfiguration")
  <2>1. Endpoints[kind[n]] \in DriverCounts BY Zenon DEF DriverCounts
  <2>2. r \in DeviceSet /\ r.allocated = d.allocated /\ r.number = d.number /\ r.hid = d.hid
    <3>1. 3 \in 0..4 OBVIOUS
    <3> QED BY <2>1, <3>1, Zenon DEF DeviceSet
  <2>3. c \in Pipes /\ c.interrupt = t.interrupt BY PipeOps DEF Requests
  <2>4. State(r, c).dev = r /\ State(r, c).trs = c BY Zenon DEF State
  <2>5. Good(State(r, c)) BY <2>2, <2>3, <2>4, Zenon DEF SameDevice
  <2> QED BY <1>2, <2>5, Zenon DEF initialize_phase2
<1>6. Good(initialize_phase3(d, t))
  <2> DEFINE r == [d EXCEPT !.initialize_phase = 4, !.initialized = TRUE]
  <2>0. TRUE \in BOOLEAN /\ 4 \in 0..4 OBVIOUS
  <2>1. r \in DeviceSet /\ r.allocated = d.allocated /\ r.number = d.number /\ r.hid = d.hid
    BY <2>0, Zenon DEF DeviceSet
  <2>2. initialize_phase3(d, t).dev = r /\ initialize_phase3(d, t).trs = t BY Zenon DEF State, initialize_phase3
  <2> QED BY <2>1, <2>2, Zenon DEF SameDevice
<1> HIDE DEF Good
<1>7. Good(on_control_completed(d, t, request, kind[n]))
  BY <1>2, <1>3, <1>4, <1>5, <1>6, SMTT(30) DEF on_control_completed
<1> QED BY <1>7, Zenon DEF Good

LEMMA TransferReceived ==
  ASSUME NEW d \in DeviceSet, NEW t \in Pipes, NEW n \in AllPorts, NEW e
  PROVE  LET m == on_transfer_event_received(d, t, e, kind[n])
         IN  /\ SameDevice(d, m)
             /\ e.issuer.type = 1 => m.dev.hid = d.hid /\ m.trs.interrupt = Append(t.interrupt, NormalTRB)
             /\ e.issuer.type # 1 =>
                  \/ m.dev.hid = d.hid /\ m.trs.interrupt = t.interrupt
                  \/ d.hid = 1 /\ m.dev.hid = 2 /\ m.trs.interrupt = Append(t.interrupt, NormalTRB)
<1>1. NormalTRB.type = 1 BY DEF NormalTRB
<1>2. interrupt_in(t) \in Pipes /\ interrupt_in(t).interrupt = Append(t.interrupt, NormalTRB)
  BY PipeOps DEF Requests
<1>3. State(d, interrupt_in(t)).dev = d /\ State(d, interrupt_in(t)).trs = interrupt_in(t) BY Zenon DEF State
<1>4. CASE e.issuer.type = 1
  BY <1>1, <1>2, <1>3, <1>4, Zenon DEF on_transfer_event_received, on_interrupt_completed, SameDevice
<1>5. CASE e.issuer.type # 1
  <2>1. on_transfer_event_received(d, t, e, kind[n]) = on_control_completed(d, t, e.issuer.request, kind[n])
    BY <1>1, <1>5, Zenon DEF on_transfer_event_received
  <2> DEFINE m == on_control_completed(d, t, e.issuer.request, kind[n])
  <2>2. /\ SameDevice(d, m)
        /\ \/ m.dev.hid = d.hid /\ m.trs.interrupt = t.interrupt
           \/ d.hid = 1 /\ m.dev.hid = 2 /\ m.trs.interrupt = Append(t.interrupt, NormalTRB)
    BY ControlCompleted, Zenon
  <2> HIDE DEF m
  <2> QED BY <1>5, <2>1, <2>2, Zenon DEF m
<1> QED BY <1>4, <1>5

LEMMA SetPhase ==
  ASSUME NEW phase \in [AllPorts -> ConfigPhase], NEW p, NEW x \in ConfigPhase
  PROVE  [phase EXCEPT ![p] = x] \in [AllPorts -> ConfigPhase]
BY Zenon

LEMMA ResetPortType ==
  ASSUME NEW p \in Ports, NEW phase \in [AllPorts -> ConfigPhase], NEW a \in AllPorts,
         reset_port(p, phase, a), er \in Seq(Events), kernel = "loop" => er # <<>>
  PROVE  /\ port_config_phase' \in [AllPorts -> ConfigPhase] /\ addressing_port' \in AllPorts
         /\ er' \in Seq(Events)
<1>1. er' \in Seq(Events) BY ResetPort, RestType, EventsLeftType, Zenon
<1>2. addressing_port' \in AllPorts BY ResetPort, PortFacts, Zenon
<1>3. "WaitingAddressed" \in ConfigPhase /\ "ResettingPort" \in ConfigPhase BY Zenon DEF ConfigPhase
<1>4. /\ [phase EXCEPT ![p] = "WaitingAddressed"] \in [AllPorts -> ConfigPhase]
      /\ [phase EXCEPT ![p] = "ResettingPort"] \in [AllPorts -> ConfigPhase]
  BY <1>3, SetPhase, Zenon
<1>5. port_config_phase' \in [AllPorts -> ConfigPhase] BY <1>4, ResetPort, Zenon
<1> QED BY <1>1, <1>2, <1>5

LEMMA NoResetType ==
  ASSUME NoReset, er \in Seq(Events), kernel = "loop" => er # <<>>
  PROVE  er' \in Seq(Events) /\ EventsLeft(Rest)
BY RestType, Zenon DEF NoReset, EventsLeft

LEMMA InOrderType ==
  ASSUME NEW S \in SUBSET Ports, NEW ports \in InOrder(S)
  PROVE  [i \in DOMAIN ports |-> PortStatusChangeEventTRB(ports[i])] \in Seq(Events)
<1>1. PICK n \in 0..MaxPorts : ports \in [1..n -> S] BY Zenon DEF InOrder
<1>2. n \in Nat BY ConstantsAssumption
<1>3. \A i \in 1..n : PortStatusChangeEventTRB(ports[i]) \in Events BY <1>1, PortEvent
<1>4. DOMAIN ports = 1..n BY <1>1
<1>5. [i \in 1..n |-> PortStatusChangeEventTRB(ports[i])] \in [1..n -> Events] BY <1>3, Zenon
<1> QED BY <1>2, <1>4, <1>5

\* The device of a slot and its transfers are replaced
Drives(s, n) ==
  devices' = [devices EXCEPT ![s] = n.dev] /\ transfers' = [transfers EXCEPT ![s] = n.trs]

LEMMA DrivesType ==
  ASSUME TypeInv, NEW s \in Slots, NEW n, SameDevice(devices[s], n), Drives(s, n)
  PROVE  devices' \in [Slots -> DeviceSet] /\ transfers' \in [Slots -> Pipes]
BY Zenon DEF TypeInv, SameDevice, Drives

LEMMA PortEventType ==
  ASSUME TypeInv, NEW e \in Events, e.type = 34, on_port_status_change(e), kernel = "loop", er # <<>>
  PROVE  /\ port_config_phase' \in [AllPorts -> ConfigPhase] /\ addressing_port' \in AllPorts
         /\ devices' = devices /\ transfers' = transfers
         /\ cr' \in Seq(Commands) /\ er' \in Seq(Events)
<1>1. /\ e.port \in Ports /\ er \in Seq(Events) /\ cr \in Seq(Commands) /\ addressing_port \in AllPorts
      /\ port_config_phase \in [AllPorts -> ConfigPhase]
  BY EventFacts, Zenon DEF TypeInv
<1>2. devices' = devices /\ transfers' = transfers BY DEF on_port_status_change
<1>3. CASE port_config_phase[e.port] = "NotConnected"
  <2>1. reset_port(e.port, port_config_phase, addressing_port) /\ cr' = cr BY <1>3 DEF on_port_status_change
  <2> QED BY <1>1, <1>2, <2>1, ResetPortType, ZenonT(60)
<1>4. CASE port_config_phase[e.port] = "ResettingPort"
  <2>1. enable_slot(e.port) BY <1>4 DEF on_port_status_change
  <2>2. EnableSlotCommandTRB \in Commands BY NewCommands
  <2>3. Append(cr, EnableSlotCommandTRB) \in Seq(Commands) BY <1>1, <2>2, AppendFacts, Zenon
  <2>4. cr' \in Seq(Commands) BY <1>1, <2>1, <2>3, Zenon DEF enable_slot
  <2>5. "EnablingSlot" \in ConfigPhase BY Zenon DEF ConfigPhase
  <2>6. [port_config_phase EXCEPT ![e.port] = "EnablingSlot"] \in [AllPorts -> ConfigPhase]
    BY <1>1, <2>5, SetPhase, Zenon
  <2>7. port_config_phase' \in [AllPorts -> ConfigPhase] BY <1>1, <2>1, <2>6, Zenon DEF enable_slot
  <2>8. er' \in Seq(Events) /\ addressing_port' = addressing_port
    BY <1>1, <2>1, RestType, Zenon DEF enable_slot
  <2> QED BY <1>1, <1>2, <2>4, <2>7, <2>8, Zenon
<1>5. CASE port_config_phase[e.port] \notin {"NotConnected", "ResettingPort"}
  <2>1. NoReset /\ UNCHANGED <<port_config_phase, addressing_port, cr>> BY <1>5 DEF on_port_status_change
  <2> QED BY <1>1, <1>2, <2>1, NoResetType, Zenon
<1> QED BY <1>3, <1>4, <1>5, Zenon

\* What a transfer event does to its device
LEMMA TransferDevice ==
  ASSUME TypeInv, NEW e \in Events, e.type = 32, on_transfer(e)
  PROVE  \E n : /\ SameDevice(devices[e.slot], n) /\ Drives(e.slot, n)
                /\ \/ n.dev.hid = devices[e.slot].hid /\ n.trs.interrupt = transfers[e.slot].interrupt
                      /\ (e.ok => e.issuer.type # 1)
                   \/ n.dev.hid = devices[e.slot].hid /\ e.ok /\ e.issuer.type = 1
                      /\ n.trs.interrupt = Append(transfers[e.slot].interrupt, NormalTRB)
                   \/ devices[e.slot].hid = 1 /\ n.dev.hid = 2 /\ e.ok /\ e.issuer.type # 1
                      /\ n.trs.interrupt = Append(transfers[e.slot].interrupt, NormalTRB)
<1> DEFINE d == devices[e.slot]
           t == transfers[e.slot]
           m == on_transfer_event_received(d, t, e, kind[d.number])
           n == IF e.ok THEN m ELSE State(d, t)
<1>1. d \in DeviceSet /\ t \in Pipes /\ e.slot \in Slots BY EventFacts, Zenon DEF TypeInv
<1>2. d.number \in AllPorts BY <1>1 DEF DeviceSet
<1>3. Drives(e.slot, n) BY Zenon DEF on_transfer, Drives
<1>4. State(d, t).dev = d /\ State(d, t).trs = t BY ZenonT(60) DEF State
<1>5. /\ SameDevice(d, m)
      /\ e.issuer.type = 1 => m.dev.hid = d.hid /\ m.trs.interrupt = Append(t.interrupt, NormalTRB)
      /\ e.issuer.type # 1 =>
           \/ m.dev.hid = d.hid /\ m.trs.interrupt = t.interrupt
           \/ d.hid = 1 /\ m.dev.hid = 2 /\ m.trs.interrupt = Append(t.interrupt, NormalTRB)
  <2> HIDE DEF d, t
  <2> QED BY <1>1, <1>2, TransferReceived, SMTT(30)
<1> HIDE DEF m, d, t
<1>6. SameDevice(d, n) BY <1>1, <1>4, <1>5, Zenon DEF SameDevice
<1>7. \/ n.dev.hid = d.hid /\ n.trs.interrupt = t.interrupt /\ (e.ok => e.issuer.type # 1)
      \/ n.dev.hid = d.hid /\ e.ok /\ e.issuer.type = 1 /\ n.trs.interrupt = Append(t.interrupt, NormalTRB)
      \/ d.hid = 1 /\ n.dev.hid = 2 /\ e.ok /\ e.issuer.type # 1
         /\ n.trs.interrupt = Append(t.interrupt, NormalTRB)
  BY <1>4, <1>5, Zenon
<1> HIDE DEF n
<1> QED BY <1>3, <1>6, <1>7, Zenon DEF d, t

\* ... and to the rest of the driver
LEMMA TransferRest ==
  ASSUME TypeInv, NEW e \in Events, e.type = 32, on_transfer(e)
  PROVE  /\ NoReset /\ addressing_port' = addressing_port
         /\ \/ port_config_phase' = port_config_phase /\ cr' = cr
            \/ /\ port_config_phase[devices[e.slot].number] = "InitializingDevice"
               /\ port_config_phase' =
                    [port_config_phase EXCEPT ![devices[e.slot].number] = "ConfiguringEndpoints"]
               /\ cr' = Append(cr, ConfigureEndpointCommandTRB(e.slot)) /\ causes' = causes /\ e.ok
         /\ causes' = causes \/ (causes' = {"memory"} /\ causes \subseteq {"memory"})
<1> DEFINE d == devices[e.slot]
           n == IF e.ok THEN on_transfer_event_received(d, transfers[e.slot], e, kind[d.number])
                ELSE State(d, transfers[e.slot])
<1>1. NoReset /\ addressing_port' = addressing_port BY Zenon DEF on_transfer
<1>2. IF e.ok /\ n.dev.initialized /\ port_config_phase[d.number] = "InitializingDevice"
      THEN configure_endpoints(e.slot) ELSE UNCHANGED <<port_config_phase, cr, causes>>
  BY Zenon DEF on_transfer
<1> HIDE DEF n
<1>3. CASE UNCHANGED <<port_config_phase, cr, causes>> BY <1>1, <1>3, Zenon
<1>4. CASE e.ok /\ port_config_phase[d.number] = "InitializingDevice" /\ configure_endpoints(e.slot)
  BY <1>1, <1>4, Zenon DEF configure_endpoints, Fault
<1> QED BY <1>2, <1>3, <1>4, Zenon

\* The port that is addressed next, if any
LEMMA NextWaiting ==
  ASSUME TypeInv, NEW p, next_waiting(p), kernel = "loop" => er # <<>>
  PROVE  LET phase == [port_config_phase EXCEPT ![p] = "InitializingDevice"]
         IN  /\ EventsLeft(Rest)
             /\ \/ port_config_phase' = phase /\ addressing_port' = 0 /\ default' = default
                \/ \E q \in Ports :
                     /\ port_config_phase[q] = "WaitingAddressed"
                     /\ port_config_phase' = [phase EXCEPT ![q] = "ResettingPort"]
                     /\ addressing_port' = q /\ default' = default \cup {q}
<1> DEFINE phase == [port_config_phase EXCEPT ![p] = "InitializingDevice"]
           waiting == {q \in Ports : port_config_phase[q] = "WaitingAddressed"}
<1>1. er \in Seq(Events) BY DEF TypeInv
<1>2. CASE waiting = {}
  <2>1. port_config_phase' = phase /\ addressing_port' = 0 /\ NoReset BY <1>2, Zenon DEF next_waiting
  <2>2. EventsLeft(Rest) /\ default' = default BY <2>1, Zenon DEF NoReset, EventsLeft
  <2> QED BY <2>1, <2>2, Zenon
<1>3. CASE waiting # {}
  <2>1. PICK q \in waiting : reset_port(q, phase, 0) BY <1>3, Zenon DEF next_waiting
  <2> HIDE DEF phase
  <2>2. q \in Ports /\ port_config_phase[q] = "WaitingAddressed" BY Zenon
  <2>3. /\ EventsLeft(Rest)
        /\ \/ port_config_phase' = phase /\ addressing_port' = 0 /\ default' = default
           \/ /\ port_config_phase' = [phase EXCEPT ![q] = "WaitingAddressed"] /\ 0 # 0
              /\ addressing_port' = 0 /\ default' = default
           \/ /\ port_config_phase' = [phase EXCEPT ![q] = "ResettingPort"] /\ 0 = 0
              /\ addressing_port' = q /\ default' = default \cup {q}
    BY <1>1, <2>1, <2>2, ResetPort, Zenon
  <2> QED BY <2>2, <2>3, Zenon DEF phase
<1> QED BY <1>2, <1>3

Refused ==
  /\ UNCHANGED <<devices, transfers, port_config_phase, addressing_port, cr>> /\ NoReset
  /\ causes' = causes \/ (causes' = {"memory"} /\ causes \subseteq {"memory"})

SlotEnabled(s) ==
  /\ addressing_port # 0 /\ port_config_phase[addressing_port] = "EnablingSlot"
  /\ ~devices[s].allocated /\ devices' = [devices EXCEPT ![s] = Device]
  /\ port_config_phase' = [port_config_phase EXCEPT ![addressing_port] = "AddressingDevice"]
  /\ cr' = Append(cr, AddressDeviceCommandTRB(s))
  /\ NoReset /\ UNCHANGED <<addressing_port, transfers, causes>>

DeviceAddressed(s) ==
  /\ port_config_phase[addressing_port] = "AddressingDevice" /\ devices[s].number = addressing_port
  /\ next_waiting(addressing_port)
  /\ Drives(s, start_initializing(devices[s], transfers[s])) /\ UNCHANGED <<cr, causes>>

EndpointsReady(s) ==
  /\ port_config_phase[devices[s].number] = "ConfiguringEndpoints"
  /\ port_config_phase' = [port_config_phase EXCEPT ![devices[s].number] = "Configured"]
  /\ Drives(s, hid_on_endpoint_configured(devices[s], transfers[s]))
  /\ NoReset /\ UNCHANGED <<addressing_port, cr, causes>>

\* The ways the completion of a command ends
LEMMA CompletionCases ==
  ASSUME TypeInv, NEW e \in Events, e.type = 33, on_command_completion(e)
  PROVE  \/ Refused
         \/ e.issuer.type = 9 /\ SlotEnabled(e.slot)
         \/ e.issuer.type = 11 /\ DeviceAddressed(e.slot)
         \/ e.issuer.type = 12 /\ EndpointsReady(e.slot)
<1>1. e.slot \in Slots /\ e.issuer \in Commands BY EventFacts, Zenon
<1>2. e.issuer.type \in {9, 11, 12} BY <1>1 DEF Commands
<1>3. EnableSlotCommandTRB.type = 9 /\ AddressDeviceCommandTRB(0).type = 11 BY NewCommands, PortFacts, Zenon
<1> DEFINE d == devices[e.slot]
           Refuse == UNCHANGED <<devices, transfers, port_config_phase, addressing_port, cr, causes>> /\ NoReset
<1>4. Refuse => Refused BY Zenon DEF Refused
<1>5. CASE e.issuer.type = 9
  <2>1. IF addressing_port # 0 /\ port_config_phase[addressing_port] = "EnablingSlot"
        THEN address_device(addressing_port, e.slot) ELSE Refuse
    BY <1>3, <1>5 DEF on_command_completion
  <2>2. CASE addressing_port # 0 /\ port_config_phase[addressing_port] = "EnablingSlot"
             /\ address_device(addressing_port, e.slot)
    BY <1>5, <2>2, Zenon DEF address_device, Refused, SlotEnabled, Fault
  <2> QED BY <1>4, <2>1, <2>2, Zenon
<1>6. CASE e.issuer.type = 11
  <2>1. IF d.number = addressing_port /\ port_config_phase[d.number] = "AddressingDevice"
        THEN /\ next_waiting(d.number)
             /\ Drives(e.slot, start_initializing(d, transfers[e.slot]))
             /\ UNCHANGED <<cr, causes>>
        ELSE Refuse
    BY <1>3, <1>6 DEF on_command_completion, Drives
  <2> QED BY <1>4, <1>6, <2>1, Zenon DEF DeviceAddressed
<1>7. CASE e.issuer.type = 12
  <2>1. IF port_config_phase[d.number] = "ConfiguringEndpoints"
        THEN /\ Drives(e.slot, hid_on_endpoint_configured(d, transfers[e.slot]))
             /\ port_config_phase' = [port_config_phase EXCEPT ![d.number] = "Configured"]
             /\ NoReset /\ UNCHANGED <<addressing_port, cr, causes>>
        ELSE Refuse
    BY <1>3, <1>7 DEF on_command_completion, Drives
  <2> QED BY <1>4, <1>7, <2>1, ZenonT(60) DEF EndpointsReady
<1> QED BY <1>2, <1>5, <1>6, <1>7, Zenon

LEMMA NextWaitingType ==
  ASSUME TypeInv, NEW p, next_waiting(p), kernel = "loop" => er # <<>>
  PROVE  /\ port_config_phase' \in [AllPorts -> ConfigPhase] /\ addressing_port' \in AllPorts
         /\ er' \in Seq(Events)
<1> DEFINE phase == [port_config_phase EXCEPT ![p] = "InitializingDevice"]
<1>1. er \in Seq(Events) /\ port_config_phase \in [AllPorts -> ConfigPhase] BY DEF TypeInv
<1>2. "InitializingDevice" \in ConfigPhase /\ "ResettingPort" \in ConfigPhase BY Zenon DEF ConfigPhase
<1>3. phase \in [AllPorts -> ConfigPhase] BY <1>1, <1>2, SetPhase, Zenon
<1>4. /\ EventsLeft(Rest)
      /\ \/ port_config_phase' = phase /\ addressing_port' = 0
         \/ \E q \in Ports :
              port_config_phase' = [phase EXCEPT ![q] = "ResettingPort"] /\ addressing_port' = q
  BY NextWaiting, Zenon
<1> HIDE DEF phase
<1>5. \A q : [phase EXCEPT ![q] = "ResettingPort"] \in [AllPorts -> ConfigPhase] BY <1>2, <1>3, SetPhase, Zenon
<1>6. er' \in Seq(Events) BY <1>1, <1>4, RestType, EventsLeftType, Zenon
<1> QED BY <1>3, <1>4, <1>5, <1>6, PortFacts, ZenonT(60)

LEMMA CompletionType ==
  ASSUME TypeInv, NEW e \in Events, e.type = 33, on_command_completion(e), kernel = "loop", er # <<>>
  PROVE  /\ port_config_phase' \in [AllPorts -> ConfigPhase] /\ addressing_port' \in AllPorts
         /\ devices' \in [Slots -> DeviceSet] /\ transfers' \in [Slots -> Pipes]
         /\ cr' \in Seq(Commands) /\ er' \in Seq(Events)
<1>1. e.slot \in Slots BY EventFacts, Zenon
<1>2. /\ er \in Seq(Events) /\ port_config_phase \in [AllPorts -> ConfigPhase] /\ addressing_port \in AllPorts
      /\ devices \in [Slots -> DeviceSet] /\ transfers \in [Slots -> Pipes] /\ cr \in Seq(Commands)
  BY DEF TypeInv
<1>3. devices[e.slot] \in DeviceSet /\ transfers[e.slot] \in Pipes BY <1>1, <1>2
<1>4. "AddressingDevice" \in ConfigPhase /\ "Configured" \in ConfigPhase BY Zenon DEF ConfigPhase
<1>5. CASE Refused
  BY <1>2, <1>5, NoResetType, Zenon DEF Refused
<1>6. CASE SlotEnabled(e.slot)
  <2>1. er' \in Seq(Events) /\ addressing_port' \in AllPorts /\ transfers' \in [Slots -> Pipes]
    BY <1>2, <1>6, NoResetType, Zenon DEF SlotEnabled
  <2>2. AddressDeviceCommandTRB(e.slot) \in Commands BY <1>1, NewCommands, Zenon
  <2>3. cr' \in Seq(Commands) BY <1>2, <1>6, <2>2, AppendFacts, Zenon DEF SlotEnabled
  <2>4. port_config_phase' \in [AllPorts -> ConfigPhase] BY <1>2, <1>4, <1>6, SetPhase, Zenon DEF SlotEnabled
  <2>5. 0 \in DriverCounts /\ 0 \in AllPorts /\ 0 \in 0..4 /\ 0 \in 0..2 /\ {} \in SUBSET {"SetProtocol"}
    BY PortFacts DEF DriverCounts
  <2>6. Device \in DeviceSet BY <2>5, Zenon DEF DeviceSet, Device
  <2>7. devices' \in [Slots -> DeviceSet] BY <1>2, <1>6, <2>6, Zenon DEF SlotEnabled
  <2> QED BY <2>1, <2>3, <2>4, <2>7
<1>7. CASE DeviceAddressed(e.slot)
  <2>1. SameDevice(devices[e.slot], start_initializing(devices[e.slot], transfers[e.slot]))
    BY <1>3, DeviceStarts
  <2>2. devices' \in [Slots -> DeviceSet] /\ transfers' \in [Slots -> Pipes]
    BY <1>1, <1>7, <2>1, DrivesType, Zenon DEF DeviceAddressed
  <2>3. /\ port_config_phase' \in [AllPorts -> ConfigPhase] /\ addressing_port' \in AllPorts
        /\ er' \in Seq(Events)
    BY <1>7, NextWaitingType, Zenon DEF DeviceAddressed
  <2> QED BY <1>2, <1>7, <2>2, <2>3, Zenon DEF DeviceAddressed
<1>8. CASE EndpointsReady(e.slot)
  <2>1. SameDevice(devices[e.slot], hid_on_endpoint_configured(devices[e.slot], transfers[e.slot]))
    BY <1>3, EndpointsConfigured
  <2>2. devices' \in [Slots -> DeviceSet] /\ transfers' \in [Slots -> Pipes]
    BY <1>1, <1>8, <2>1, DrivesType, Zenon DEF EndpointsReady
  <2>3. port_config_phase' \in [AllPorts -> ConfigPhase] BY <1>2, <1>4, <1>8, SetPhase, Zenon DEF EndpointsReady
  <2>4. er' \in Seq(Events) BY <1>2, <1>8, NoResetType, Zenon DEF EndpointsReady
  <2> QED BY <1>2, <1>8, <2>2, <2>3, <2>4, Zenon DEF EndpointsReady
<1> QED BY <1>5, <1>6, <1>7, <1>8, CompletionCases, Zenon

LEMMA TypeInit == Init => TypeInv
<1> SUFFICES ASSUME Init PROVE TypeInv OBVIOUS
<1>1. asked \in 0..MaxPorts BY ConstantsAssumption DEF Init
<1>2. "NotConnected" \in ConfigPhase BY Zenon DEF ConfigPhase
<1>3. port_config_phase \in [AllPorts -> ConfigPhase] /\ addressing_port \in AllPorts
  BY <1>2, PortFacts, Zenon DEF Init, AllPorts
<1>4. 0 \in DriverCounts /\ 0 \in AllPorts /\ 0 \in 0..4 /\ 0 \in 0..2 /\ {} \in SUBSET {"SetProtocol"}
  BY PortFacts DEF DriverCounts
<1>5. Device \in DeviceSet BY <1>4, Zenon DEF DeviceSet, Device
<1>6. NoDevice \in DeviceSet BY <1>5, Zenon DEF NoDevice, DeviceSet
<1>7. devices \in [Slots -> DeviceSet] BY <1>6, Zenon DEF Init
<1>8. cr \in Seq(Commands) /\ er \in Seq(Events) BY DEF Init
<1>9. [control |-> <<>>, interrupt |-> <<>>] \in Pipes BY DEF Pipes
<1>10. transfers \in [Slots -> Pipes] BY <1>9, Zenon DEF Init
<1> QED BY <1>1, <1>3, <1>7, <1>8, <1>10, Zenon DEF TypeInv

LEMMA ConfigurePortType ==
  ASSUME TypeInv, configure_port
  PROVE  /\ asked' \in 0..MaxPorts /\ port_config_phase' \in [AllPorts -> ConfigPhase]
         /\ addressing_port' \in AllPorts /\ er' \in Seq(Events)
<1>1. /\ er \in Seq(Events) /\ port_config_phase \in [AllPorts -> ConfigPhase] /\ addressing_port \in AllPorts
      /\ asked \in 0..MaxPorts /\ kernel = "ports"
  BY Zenon DEF TypeInv, configure_port
<1>2. kernel = "loop" => er # <<>> BY <1>1
<1>3. NoReset => er' \in Seq(Events) BY <1>1, <1>2, NoResetType, Zenon
<1>4. CASE asked = MaxPorts
  BY <1>1, <1>3, <1>4, Zenon DEF configure_port
<1>5. CASE asked # MaxPorts
  <2>1. /\ asked' = asked + 1
        /\ IF portsc[asked'].connected /\ port_config_phase[asked'] = "NotConnected"
           THEN reset_port(asked', port_config_phase, addressing_port)
           ELSE UNCHANGED <<port_config_phase, addressing_port>> /\ NoReset
    BY <1>5, Zenon DEF configure_port
  <2>2. asked' \in Ports /\ asked' \in 0..MaxPorts BY <1>1, <1>5, <2>1, ConstantsAssumption DEF Ports
  <2>3. CASE reset_port(asked', port_config_phase, addressing_port)
    BY <1>1, <1>2, <2>2, <2>3, ResetPortType, Zenon
  <2>4. CASE UNCHANGED <<port_config_phase, addressing_port>> /\ NoReset
    BY <1>1, <1>3, <2>2, <2>4, Zenon
  <2> QED BY <2>1, <2>3, <2>4, Zenon
<1> QED BY <1>4, <1>5

LEMMA CommandFacts ==
  ASSUME TypeInv, Command
  PROVE  /\ cr # <<>> /\ cr' = Tail(cr) /\ Head(cr) \in Commands /\ Head(cr).type \in {9, 11, 12}
         /\ \E s \in Slots : /\ er' = Append(er, CommandCompletionEventTRB(s, Head(cr)))
                             /\ Head(cr).type # 9 => s = Head(cr).slot
                             /\ Head(cr).type = 9 /\ s # 0 => ~devices[s].allocated
         /\ \/ Head(cr).type # 11 /\ devices' = devices /\ default' = default
            \/ /\ Head(cr).type = 11
               /\ \E n \in AllPorts : devices' = [devices EXCEPT ![Head(cr).slot].number = n]
               /\ \/ addressing_port \in default /\ default' = default \ {addressing_port}
                  \/ default' = default /\ "command" \in causes'
         /\ causes' = causes \/ (causes \subseteq {"command"} /\ causes' = {"command"})
         /\ UNCHANGED <<start, portsc, kind, port_config_phase, addressing_port, transfers, plugs>>
<1>1. cr # <<>> /\ cr' = Tail(cr) /\ cr \in Seq(Commands) BY Zenon DEF Command, TypeInv
<1>2. Head(cr) \in Commands BY <1>1, TailFacts, Zenon
<1>3. Head(cr).type \in {9, 11, 12} /\ Head(cr).slot \in Slots BY <1>2 DEF Commands
<1>4. addressing_port \in AllPorts BY DEF TypeInv
<1> DEFINE c == Head(cr)
           p == addressing_port
           free == {s \in Slots \ {0} : ~devices[s].allocated}
           Complete(s) == er' = Append(er, CommandCompletionEventTRB(s, c))
<1>5. \/ c.type = 9 /\ (\E s \in free : (\A r \in free : s <= r) /\ Complete(s)) /\ UNCHANGED <<devices, default, causes>>
      \/ c.type = 9 /\ Fault("command") /\ Complete(0) /\ UNCHANGED <<devices, default>>
      \/ /\ c.type = 11 /\ p \in default
         /\ devices' = [devices EXCEPT ![c.slot].number = p]
         /\ default' = default \ {p}
         /\ Complete(c.slot) /\ UNCHANGED causes
      \/ /\ c.type = 11 /\ Fault("command")
         /\ \E n \in {0} \cup Ports : devices' = [devices EXCEPT ![c.slot].number = n]
         /\ Complete(c.slot) /\ UNCHANGED default
      \/ c.type = 12 /\ Complete(c.slot) /\ UNCHANGED <<devices, default, causes>>
  BY Zenon DEF Command
<1>6. UNCHANGED <<start, portsc, kind, port_config_phase, addressing_port, transfers, plugs>>
  BY Zenon DEF Command
<1> HIDE DEF c
<1>7. c.type = 9 => c.type # 11 OBVIOUS
<1>8. c.type = 12 => c.type # 11 /\ c.type # 9 OBVIOUS
<1>9. 0 \in Slots BY PortFacts, Zenon
<1>10. \A s \in free : s \in Slots /\ ~devices[s].allocated BY Zenon
<1>11. Fault("command") => "command" \in causes' /\ causes \subseteq {"command"} /\ causes' = {"command"}
  BY Zenon DEF Fault
<1>12. c.slot \in Slots BY <1>3 DEF c
<1>13. \E s \in Slots : /\ er' = Append(er, CommandCompletionEventTRB(s, c)) /\ (c.type # 9 => s = c.slot)
                        /\ c.type = 9 /\ s # 0 => ~devices[s].allocated
  BY <1>5, <1>7, <1>8, <1>9, <1>10, <1>12, Zenon
<1>14. \/ c.type # 11 /\ devices' = devices /\ default' = default
       \/ /\ c.type = 11
          /\ \E n \in AllPorts : devices' = [devices EXCEPT ![c.slot].number = n]
          /\ \/ addressing_port \in default /\ default' = default \ {addressing_port}
             \/ default' = default /\ "command" \in causes'
  BY <1>4, <1>5, <1>7, <1>8, <1>11, Zenon DEF AllPorts
<1>15. causes' = causes \/ (causes \subseteq {"command"} /\ causes' = {"command"}) BY <1>5, <1>11, Zenon
<1> QED BY <1>1, <1>2, <1>3, <1>6, <1>13, <1>14, <1>15, Zenon DEF c

LEMMA CommandType ==
  ASSUME TypeInv, Command
  PROVE  TypeInv'
<1>1. cr \in Seq(Commands) /\ er \in Seq(Events) /\ devices \in [Slots -> DeviceSet] BY DEF TypeInv
<1>2. cr' \in Seq(Commands)
  <2>1. cr # <<>> /\ cr' = Tail(cr) BY CommandFacts, Zenon
  <2> QED BY <1>1, <2>1, TailFacts, Zenon
<1>3. PICK s \in Slots : er' = Append(er, CommandCompletionEventTRB(s, Head(cr))) BY CommandFacts, Zenon
<1>4. Head(cr) \in Commands BY CommandFacts, Zenon
<1>5. CommandCompletionEventTRB(s, Head(cr)) \in Events BY <1>4, CommandEvent, Zenon
<1>6. er' \in Seq(Events) BY <1>1, <1>3, <1>5, AppendFacts, Zenon
<1>7. \A d \in DeviceSet, n \in AllPorts : [d EXCEPT !.number = n] \in DeviceSet BY DEF DeviceSet
<1>8. \A m \in Slots, n \in AllPorts : [devices EXCEPT ![m].number = n] \in [Slots -> DeviceSet] BY <1>1, <1>7, Zenon
<1>9. Head(cr).slot \in Slots BY <1>4 DEF Commands
<1>10. devices' \in [Slots -> DeviceSet]
  <2>1. devices' = devices \/ \E n \in AllPorts : devices' = [devices EXCEPT ![Head(cr).slot].number = n]
    BY CommandFacts, Zenon
  <2>2. ASSUME NEW n \in AllPorts, devices' = [devices EXCEPT ![Head(cr).slot].number = n]
        PROVE  devices' \in [Slots -> DeviceSet]
    BY <1>8, <1>9, <2>2
  <2> QED BY <1>1, <2>1, <2>2, Zenon
<1>11. UNCHANGED <<start, kind, port_config_phase, addressing_port, transfers>> BY CommandFacts, Zenon
<1>12. Events' = Events /\ DeviceSet' = DeviceSet BY <1>11, Zenon DEF DeviceSet, DriverCounts
<1>13. asked' = asked BY <1>11, Zenon DEF start
<1> QED BY <1>2, <1>6, <1>10, <1>11, <1>12, <1>13, Zenon DEF TypeInv

LEMMA TransferFacts ==
  ASSUME TypeInv, NEW s \in Slots, NEW pipe \in {"control", "interrupt"}, Transfer(s, pipe)
  PROVE  LET t == transfers[s]
         IN  /\ t[pipe] # <<>> /\ Head(t[pipe]) \in Stages /\ (pipe = "control" => Head(t[pipe]) \in Controls)
             /\ transfers' = [transfers EXCEPT ![s] = [t EXCEPT ![pipe] = Tail(t[pipe])]]
             /\ \E ok \in BOOLEAN : /\ er' = Append(er, TransferEventTRB(s, Head(t[pipe]), ok))
                                    /\ ~ok => causes' = causes \/ "transfer" \in causes'
<1>1. transfers[s] \in Pipes BY Zenon DEF TypeInv
<1>2. pipe = "control" => transfers[s][pipe] \in Seq(Controls) BY <1>1, Zenon DEF Pipes
<1>33. pipe = "interrupt" => transfers[s][pipe] \in Seq({NormalTRB}) BY <1>1, Zenon DEF Pipes
<1>3. transfers[s][pipe] # <<>> BY Zenon DEF Transfer
<1>4. /\ pipe = "control" => Head(transfers[s][pipe]) \in Controls
      /\ Head(transfers[s][pipe]) \in Stages
  BY <1>2, <1>33, <1>3, TailFacts, Zenon DEF Stages
<1>5. transfers' = [transfers EXCEPT ![s] = [transfers[s] EXCEPT ![pipe] = Tail(transfers[s][pipe])]]
  BY Zenon DEF Transfer, TypeInv
<1>6. \E ok \in BOOLEAN : /\ er' = Append(er, TransferEventTRB(s, Head(transfers[s][pipe]), ok))
                          /\ ~ok => causes' = causes \/ "transfer" \in causes'
  BY Zenon DEF Transfer, Fault
<1> QED BY <1>2, <1>3, <1>4, <1>5, <1>6

LEMMA TransferType ==
  ASSUME TypeInv, NEW s \in Slots, NEW pipe \in {"control", "interrupt"}, Transfer(s, pipe)
  PROVE  TypeInv'
<1> DEFINE t == transfers[s]
<1>1. t \in Pipes /\ er \in Seq(Events) /\ transfers \in [Slots -> Pipes] BY Zenon DEF TypeInv
<1>2. /\ t[pipe] # <<>> /\ Head(t[pipe]) \in Stages
      /\ transfers' = [transfers EXCEPT ![s] = [t EXCEPT ![pipe] = Tail(t[pipe])]]
      /\ \E ok \in BOOLEAN : er' = Append(er, TransferEventTRB(s, Head(t[pipe]), ok))
  BY TransferFacts, Zenon
<1> HIDE DEF t
<1>3. ASSUME NEW n \in {"control", "interrupt"}, t[n] # <<>>
      PROVE  [t EXCEPT ![n] = Tail(t[n])] \in Pipes
  <2>1. t.control \in Seq(Controls) /\ t.interrupt \in Seq({NormalTRB}) BY <1>1, Zenon DEF Pipes
  <2>2. CASE n = "control"
    <3>1. Tail(t.control) \in Seq(Controls) BY <1>3, <2>1, <2>2, TailFacts, Zenon
    <3> QED BY <1>1, <2>2, <3>1, Zenon DEF Pipes
  <2>3. CASE n = "interrupt"
    <3>1. Tail(t.interrupt) \in Seq({NormalTRB}) BY <1>3, <2>1, <2>3, TailFacts, Zenon
    <3> QED BY <1>1, <2>3, <3>1, Zenon DEF Pipes
  <2> QED BY <2>2, <2>3, Zenon
<1>4. [t EXCEPT ![pipe] = Tail(t[pipe])] \in Pipes BY <1>2, <1>3, Zenon
<1>5. transfers' \in [Slots -> Pipes] BY <1>1, <1>2, <1>4, Zenon
<1>6. er' \in Seq(Events)
  <2>1. PICK ok \in BOOLEAN : er' = Append(er, TransferEventTRB(s, Head(t[pipe]), ok)) BY <1>2, Zenon
  <2>2. TransferEventTRB(s, Head(t[pipe]), ok) \in Events BY <1>2, TransferEvent, Zenon
  <2> QED BY <1>1, <2>1, <2>2, AppendFacts, Zenon
<1>7. UNCHANGED <<start, kind, port_config_phase, addressing_port, devices, cr>> BY Zenon DEF Transfer
<1>8. DeviceSet' = DeviceSet /\ asked' = asked BY <1>7, Zenon DEF DeviceSet, DriverCounts, start
<1> QED BY <1>5, <1>6, <1>7, <1>8, Zenon DEF TypeInv

LEMMA ProcessEventType ==
  ASSUME TypeInv, process_event
  PROVE  TypeInv'
<1>1. /\ kernel = "loop" /\ er # <<>> /\ asked' = asked /\ kind' = kind BY Zenon DEF process_event, start
<1>2. /\ er \in Seq(Events) /\ asked \in 0..MaxPorts /\ cr \in Seq(Commands)
      /\ devices \in [Slots -> DeviceSet] /\ transfers \in [Slots -> Pipes]
      /\ addressing_port \in AllPorts /\ port_config_phase \in [AllPorts -> ConfigPhase]
  BY DEF TypeInv
<1>3. Head(er) \in Events BY <1>1, <1>2, TailFacts, Zenon
<1>4. DeviceSet' = DeviceSet BY <1>1, Zenon DEF DeviceSet, DriverCounts
<1> DEFINE Typed ==
             /\ port_config_phase' \in [AllPorts -> ConfigPhase] /\ addressing_port' \in AllPorts
             /\ devices' \in [Slots -> DeviceSet] /\ transfers' \in [Slots -> Pipes]
             /\ cr' \in Seq(Commands) /\ er' \in Seq(Events)
<1>5. CASE Head(er).type = 34 /\ on_port_status_change(Head(er))
  <2>1. Typed BY <1>1, <1>2, <1>3, <1>5, PortEventType, Zenon
  <2> QED BY <1>1, <1>2, <1>4, <2>1, Zenon DEF TypeInv
<1>6. CASE Head(er).type = 32 /\ on_transfer(Head(er))
  <2> DEFINE s == Head(er).slot
  <2>1. s \in Slots BY <1>3, <1>6, EventFacts, Zenon
  <2>2. \E n : SameDevice(devices[s], n) /\ Drives(s, n) BY <1>3, <1>6, TransferDevice, Zenon
  <2>3. devices' \in [Slots -> DeviceSet] /\ transfers' \in [Slots -> Pipes]
    BY <2>1, <2>2, DrivesType, Zenon
  <2>4. /\ NoReset /\ addressing_port' = addressing_port
        /\ \/ port_config_phase' = port_config_phase /\ cr' = cr
           \/ /\ port_config_phase' = [port_config_phase EXCEPT ![devices[s].number] = "ConfiguringEndpoints"]
              /\ cr' = Append(cr, ConfigureEndpointCommandTRB(s))
    BY <1>3, <1>6, TransferRest, Zenon
  <2> HIDE DEF s
  <2>5. ConfigureEndpointCommandTRB(s) \in Commands BY <2>1, NewCommands, Zenon
  <2>6. Append(cr, ConfigureEndpointCommandTRB(s)) \in Seq(Commands) BY <1>2, <2>5, AppendFacts, Zenon
  <2>7. "ConfiguringEndpoints" \in ConfigPhase BY Zenon DEF ConfigPhase
  <2>8. [port_config_phase EXCEPT ![devices[s].number] = "ConfiguringEndpoints"] \in [AllPorts -> ConfigPhase]
    BY <1>2, <2>7, SetPhase, Zenon
  <2>9. er' \in Seq(Events) BY <1>1, <1>2, <2>4, NoResetType, Zenon
  <2>10. Typed BY <1>2, <2>3, <2>4, <2>6, <2>8, <2>9, Zenon
  <2> QED BY <1>1, <1>2, <1>4, <2>10, Zenon DEF TypeInv
<1>7. CASE Head(er).type = 33 /\ on_command_completion(Head(er))
  <2>1. Typed BY <1>1, <1>3, <1>7, CompletionType, Zenon
  <2> QED BY <1>1, <1>2, <1>4, <2>1, Zenon DEF TypeInv
<1> QED BY <1>5, <1>6, <1>7, Zenon DEF process_event

\* The controller starts with reports of ports only
LEMMA ControllerEvents ==
  ASSUME TypeInv, Controller
  PROVE  er' = er \/ (er' \in Seq(Events) /\ \A i \in DOMAIN er' : er'[i].type = 34)
<1> DEFINE S == {p \in Ports : portsc[p].connected}
           Reports(ports) == [i \in DOMAIN ports |-> PortStatusChangeEventTRB(ports[i])]
<1>1. er' = er \/ er' = <<>> \/ \E ports \in InOrder(S) : er' = Reports(ports) BY Zenon DEF Controller
<1>2. <<>> \in Seq(Events) /\ \A i \in DOMAIN <<>> : FALSE OBVIOUS
<1>3. ASSUME NEW ports \in InOrder(S)
      PROVE  Reports(ports) \in Seq(Events) /\ \A i \in DOMAIN Reports(ports) : Reports(ports)[i].type = 34
  <2>1. S \in SUBSET Ports BY Zenon
  <2>2. Reports(ports) \in Seq(Events) BY <2>1, InOrderType, Zenon
  <2>3. \A i \in DOMAIN ports : PortStatusChangeEventTRB(ports[i]).type = 34 BY DEF PortStatusChangeEventTRB
  <2> QED BY <2>2, <2>3, Zenon
<1> HIDE DEF Reports, S
<1> QED BY <1>1, <1>2, <1>3, ZenonT(60)

LEMMA TypeStep ==
  ASSUME TypeInv, [Next]_vars
  PROVE  TypeInv'
<1>1. er \in Seq(Events) /\ kernel = kernel BY DEF TypeInv
<1>2. ASSUME kind' = kind PROVE DeviceSet' = DeviceSet BY <1>2, Zenon DEF DeviceSet, DriverCounts
<1>3. ASSUME Idle PROVE TypeInv' BY <1>2, <1>3, Zenon DEF Idle, TypeInv
<1>4. CASE request_hc_ownership BY <1>3, <1>4, Zenon DEF request_hc_ownership
<1>5. CASE AwaitController BY <1>3, <1>5, Zenon DEF AwaitController
<1>6. CASE initialize BY <1>3, <1>6, Zenon DEF initialize
<1>7. CASE configure_port
  <2>1. UNCHANGED <<devices, cr, transfers, kind>> BY <1>7, Zenon DEF configure_port, environment
  <2> QED BY <1>2, <1>7, <2>1, ConfigurePortType, Zenon DEF TypeInv
<1>8. CASE process_event BY <1>8, ProcessEventType, Zenon
<1>9. CASE Controller
  <2>1. UNCHANGED <<asked, port_config_phase, addressing_port, devices, cr, transfers, kind>>
    BY <1>9, Zenon DEF Controller, environment
  <2>2. er' \in Seq(Events) BY <1>1, <1>9, ControllerEvents, Zenon
  <2> QED BY <1>2, <2>1, <2>2, Zenon DEF TypeInv
<1>10. CASE Command BY <1>10, CommandType, Zenon
<1>11. CASE \E s \in Slots, pipe \in {"control", "interrupt"} : Transfer(s, pipe) BY <1>11, TransferType, Zenon
<1>12. ASSUME NEW p \in Ports, plug(p) PROVE TypeInv'
  <2>1. UNCHANGED <<asked, port_config_phase, addressing_port, devices, cr, transfers, kind>>
    BY <1>12, Zenon DEF plug, start
  <2>2. er' = er \o Report(p, portsc[p].csc \/ portsc[p].prc) BY <1>12, Zenon DEF plug
  <2>3. EventsLeft(er) BY <1>1, <2>2, ReportCases, Zenon DEF EventsLeft
  <2>4. er' \in Seq(Events) BY <1>1, <2>3, EventsLeftType, Zenon
  <2> QED BY <1>2, <2>1, <2>4, Zenon DEF TypeInv
<1>13. CASE UNCHANGED vars BY <1>2, <1>13, Zenon DEF vars, TypeInv
<1> QED BY <1>4, <1>5, <1>6, <1>7, <1>8, <1>9, <1>10, <1>11, <1>12, <1>13, Zenon
        DEF Next, kernel_thread, controller

-----------------------------------------------------------------------------
(* One port at a time is addressed.                                        *)

\* The phases of a port whose device is getting its address
Addressing == {"ResettingPort", "EnablingSlot", "AddressingDevice"}

\* A port is in one of them if and only if it is addressing_port
PhaseInv ==
  /\ port_config_phase[0] = "NotConnected"
  /\ \A p \in Ports : port_config_phase[p] \in Addressing => p = addressing_port
  /\ addressing_port # 0 => port_config_phase[addressing_port] \in Addressing

\* The EnableSlot (9) and AddressDevice (11) commands and their completions
AskFor(n) == {c \in Commands : c.type = n}
AnswerTo(n) == {e \in Events : e.type = 33 /\ e.issuer.type = n}
Asking == AskFor(9) \cup AskFor(11)
Answering == AnswerTo(9) \cup AnswerTo(11)

\* There is at most one of all these, and the phase of addressing_port says which
TokenInv ==
  /\ AtMostOne(cr, Asking) /\ AtMostOne(er, Answering)
  /\ ~(Has(cr, Asking) /\ Has(er, Answering))
  /\ Has(cr, AskFor(9)) \/ Has(er, AnswerTo(9)) => port_config_phase[addressing_port] = "EnablingSlot"
  /\ Has(cr, AskFor(11)) \/ Has(er, AnswerTo(11)) => port_config_phase[addressing_port] = "AddressingDevice"

\* Only the device of addressing_port may be at the default address, and not when the
\* completion of its AddressDevice is among the events
DefaultInv ==
  \/ "command" \in causes
  \/ /\ default \subseteq {addressing_port} \ {0}
     /\ Has(er, AnswerTo(11)) => default = {}

AddressInv == PhaseInv /\ TokenInv /\ DefaultInv

LEMMA HasUnion == \A q, M, N : Has(q, M \cup N) <=> Has(q, M) \/ Has(q, N)
BY Zenon DEF Has

LEMMA AnswersSplit == \A q : Has(q, Answering) <=> Has(q, AnswerTo(9)) \/ Has(q, AnswerTo(11))
BY HasUnion, Zenon DEF Answering

LEMMA AsksSplit == \A q : Has(q, Asking) <=> Has(q, AskFor(9)) \/ Has(q, AskFor(11))
BY HasUnion, Zenon DEF Asking

NoNewAnswers ==
  /\ AtMostOne(er', Answering)
  /\ Has(er', AnswerTo(9)) => Has(er, AnswerTo(9))
  /\ Has(er', AnswerTo(11)) => Has(er, AnswerTo(11))

NoNewAsks ==
  /\ AtMostOne(cr', Asking)
  /\ Has(cr', AskFor(9)) => Has(cr, AskFor(9))
  /\ Has(cr', AskFor(11)) => Has(cr, AskFor(11))

LEMMA NotAnswers ==
  \A e \in Answering \cup AnswerTo(9) \cup AnswerTo(11) : e.type # 34 /\ e.type # 32
BY DEF Answering, AnswerTo

\* The report of a port is no other event
LEMMA LeftOnce ==
  ASSUME NEW q \in Seq(Events), EventsLeft(q), NEW M, \A e \in M : e.type # 34
  PROVE  /\ Has(er', M) <=> Has(q, M)
         /\ AtMostOne(q, M) => AtMostOne(er', M)
<1>1. CASE er' = q BY <1>1, Zenon
<1>2. ASSUME NEW p \in Ports, er' = Append(q, PortStatusChangeEventTRB(p))
      PROVE  (Has(er', M) <=> Has(q, M)) /\ (AtMostOne(q, M) => AtMostOne(er', M))
  <2>1. PortStatusChangeEventTRB(p) \in Events /\ PortStatusChangeEventTRB(p) \notin M BY PortEvent, Zenon
  <2> QED BY <1>2, <2>1, AppendOnce, Zenon
<1> QED BY <1>1, <1>2, Zenon DEF EventsLeft

LEMMA RestOnce ==
  ASSUME er \in Seq(Events), kernel = "loop" => er # <<>>, NEW M, AtMostOne(er, M)
  PROVE  AtMostOne(Rest, M) /\ (Has(Rest, M) => Has(er, M))
BY TailOnce, Zenon DEF Rest

\* A handler adds no answer, and takes away the one it handles
LEMMA RestAnswers ==
  ASSUME TypeInv, TokenInv, EventsLeft(Rest), kernel = "loop" => er # <<>>
  PROVE  NoNewAnswers /\ (kernel = "loop" /\ Head(er) \in Answering => ~Has(er', Answering))
<1>1. er \in Seq(Events) /\ Rest \in Seq(Events) BY RestType, Zenon DEF TypeInv
<1>2. AtMostOne(er, Answering) BY Zenon DEF TokenInv
<1>3. AtMostOne(er, AnswerTo(9)) /\ AtMostOne(er, AnswerTo(11)) BY <1>2, Zenon DEF AtMostOne, Answering
<1>4. ASSUME NEW M, AtMostOne(er, M), \A e \in M : e.type # 34
      PROVE  AtMostOne(er', M) /\ (Has(er', M) => Has(er, M))
  BY <1>1, <1>4, LeftOnce, RestOnce, Zenon
<1>5. NoNewAnswers BY <1>2, <1>3, <1>4, NotAnswers, Zenon DEF NoNewAnswers
<1>6. ASSUME kernel = "loop", Head(er) \in Answering PROVE ~Has(er', Answering)
  <2>1. Rest = Tail(er) BY <1>6, Zenon DEF Rest
  <2>2. ~Has(Tail(er), Answering) BY <1>1, <1>2, <1>6, TailOnce, Zenon
  <2> QED BY <1>1, <2>1, <2>2, LeftOnce, NotAnswers, Zenon
<1> QED BY <1>5, <1>6

\* Adding a ConfigureEndpoint command adds no question
LEMMA ConfigureAsksNothing ==
  ASSUME TypeInv, TokenInv, NEW s \in Slots,
         cr' = cr \/ cr' = Append(cr, ConfigureEndpointCommandTRB(s))
  PROVE  NoNewAsks
<1>1. cr \in Seq(Commands) /\ AtMostOne(cr, Asking) BY Zenon DEF TypeInv, TokenInv
<1>2. ConfigureEndpointCommandTRB(s) \in Commands /\ ConfigureEndpointCommandTRB(s).type = 12
  BY NewCommands, Zenon
<1>3. ConfigureEndpointCommandTRB(s) \notin AskFor(9) /\ ConfigureEndpointCommandTRB(s) \notin AskFor(11)
  BY <1>2 DEF AskFor
<1>4. ConfigureEndpointCommandTRB(s) \notin Asking BY <1>3, Zenon DEF Asking
<1>5. CASE cr' = cr BY <1>1, <1>5, Zenon DEF NoNewAsks
<1>6. CASE cr' = Append(cr, ConfigureEndpointCommandTRB(s))
  <2>1. AtMostOne(cr', Asking) BY <1>1, <1>2, <1>4, <1>6, AppendOnce, Zenon
  <2>2. \A M : Has(cr', M) => Has(cr, M) \/ ConfigureEndpointCommandTRB(s) \in M
    BY <1>1, <1>2, <1>6, AppendOnce, ZenonT(60)
  <2> QED BY <1>3, <2>1, <2>2, Zenon DEF NoNewAsks
<1> QED BY <1>5, <1>6

\* A step that leaves addressing_port and the ports that are being addressed alone
LEMMA Unaddressed ==
  ASSUME TypeInv, AddressInv, NoNewAnswers, NoNewAsks, addressing_port' = addressing_port,
         default' \subseteq default, causes \subseteq causes',
         \/ port_config_phase' = port_config_phase
         \/ \E n, x : /\ port_config_phase' = [port_config_phase EXCEPT ![n] = x]
                      /\ n # 0 /\ port_config_phase[n] \notin Addressing /\ x \notin Addressing
  PROVE  AddressInv'
<1>1. addressing_port \in AllPorts /\ port_config_phase \in [AllPorts -> ConfigPhase] BY Zenon DEF TypeInv
<1>2. /\ \A p \in Ports : port_config_phase'[p] \in Addressing => port_config_phase[p] \in Addressing
      /\ port_config_phase'[0] = "NotConnected"
      /\ addressing_port # 0 => port_config_phase'[addressing_port] = port_config_phase[addressing_port]
  <2>1. port_config_phase[0] = "NotConnected" /\ 0 \in AllPorts /\ Ports \subseteq AllPorts
    BY PortFacts, Zenon DEF AddressInv, PhaseInv
  <2>2. CASE port_config_phase' = port_config_phase BY <2>1, <2>2, Zenon
  <2>3. ASSUME NEW n, NEW x, port_config_phase' = [port_config_phase EXCEPT ![n] = x], n # 0,
               port_config_phase[n] \notin Addressing, x \notin Addressing
        PROVE  <1>2
    <3>1. \A p \in AllPorts : port_config_phase'[p] = IF p = n THEN x ELSE port_config_phase[p]
      BY <1>1, <2>3
    <3>2. addressing_port # 0 => n # addressing_port BY <2>3, Zenon DEF AddressInv, PhaseInv
    <3> QED BY <1>1, <2>1, <2>3, <3>1, <3>2, Zenon
  <2> QED BY <2>2, <2>3, Zenon
<1>3. port_config_phase'[addressing_port] = port_config_phase[addressing_port]
  BY <1>2, Zenon DEF AddressInv, PhaseInv
<1>4. PhaseInv' BY <1>2, Zenon DEF AddressInv, PhaseInv
<1>5. TokenInv'
  <2>1. Has(er', Answering) => Has(er, Answering) BY AnswersSplit, Zenon DEF NoNewAnswers
  <2>2. Has(cr', Asking) => Has(cr, Asking) BY AsksSplit, Zenon DEF NoNewAsks
  <2> QED BY <1>3, <2>1, <2>2, Zenon DEF AddressInv, TokenInv, NoNewAnswers, NoNewAsks
<1>6. DefaultInv'
  <2>1. CASE "command" \in causes BY <2>1, Zenon DEF DefaultInv
  <2>2. CASE /\ default \subseteq {addressing_port} \ {0}
             /\ Has(er, AnswerTo(11)) => default = {}
    <3>1. default' \subseteq {addressing_port'} \ {0} BY <2>2, Zenon
    <3>2. Has(er', AnswerTo(11)) => default' = {} BY <2>2, Zenon DEF NoNewAnswers
    <3> QED BY <3>1, <3>2, Zenon DEF DefaultInv
  <2> QED BY <2>1, <2>2, Zenon DEF AddressInv, DefaultInv
<1> QED BY <1>4, <1>5, <1>6 DEF AddressInv

\* Nobody is being addressed and nothing is asked
LEMMA NoneAddressed ==
  ASSUME AddressInv, addressing_port = 0
  PROVE  /\ ~Has(cr, Asking) /\ ~Has(er, Answering)
         /\ "command" \in causes \/ default = {}
<1>1. port_config_phase[addressing_port] = "NotConnected" BY Zenon DEF AddressInv, PhaseInv
<1>2. ~Has(cr, AskFor(9)) /\ ~Has(cr, AskFor(11)) /\ ~Has(er, AnswerTo(9)) /\ ~Has(er, AnswerTo(11))
  BY <1>1 DEF AddressInv, TokenInv
<1>3. "command" \in causes \/ default = {} BY Zenon DEF AddressInv, DefaultInv
<1> QED BY <1>2, <1>3, AnswersSplit, AsksSplit, Zenon

\* A port is reset when there is no question, no answer and no device at the default address
LEMMA PortReset ==
  ASSUME TypeInv, PhaseInv, NEW q \in Ports, addressing_port' = q,
         NEW phase \in [AllPorts -> ConfigPhase], port_config_phase' = [phase EXCEPT ![q] = "ResettingPort"],
         phase[0] = "NotConnected", \A p \in Ports : phase[p] \notin Addressing,
         ~Has(cr', Asking), ~Has(er', Answering),
         "command" \in causes' \/ default' \subseteq {q}
  PROVE  AddressInv'
<1>1. q # 0 /\ q \in AllPorts /\ 0 \in AllPorts /\ Ports \subseteq AllPorts BY PortFacts, Zenon
<1>2. \A p \in AllPorts : port_config_phase'[p] = IF p = q THEN "ResettingPort" ELSE phase[p] OBVIOUS
<1>3. PhaseInv' BY <1>1, <1>2, Zenon DEF PhaseInv, Addressing
<1>4. ~Has(cr', AskFor(9)) /\ ~Has(cr', AskFor(11)) /\ ~Has(er', AnswerTo(9)) /\ ~Has(er', AnswerTo(11))
  BY AnswersSplit, AsksSplit, Zenon
<1>5. AtMostOne(cr', Asking) /\ AtMostOne(er', Answering) BY Zenon DEF Has, AtMostOne
<1>6. TokenInv' BY <1>4, <1>5, Zenon DEF TokenInv
<1>7. DefaultInv' BY <1>1, <1>4, Zenon DEF DefaultInv
<1> QED BY <1>3, <1>6, <1>7 DEF AddressInv

\* reset_port of a port that is not connected yet
LEMMA ResetPortAddress ==
  ASSUME TypeInv, AddressInv, NEW p \in Ports, port_config_phase[p] = "NotConnected",
         reset_port(p, port_config_phase, addressing_port), kernel = "loop" => er # <<>>,
         cr' = cr, causes' = causes
  PROVE  AddressInv'
<1>1. /\ er \in Seq(Events) /\ cr \in Seq(Commands) /\ addressing_port \in AllPorts
      /\ port_config_phase \in [AllPorts -> ConfigPhase]
  BY Zenon DEF TypeInv
<1>2. EventsLeft(Rest) BY <1>1, ResetPort, Zenon
<1>3. NoNewAnswers BY <1>2, RestAnswers, Zenon DEF AddressInv
<1>4. NoNewAsks BY Zenon DEF AddressInv, TokenInv, NoNewAsks
<1>5. p # 0 BY PortFacts, Zenon
<1>6. CASE port_config_phase' = port_config_phase /\ addressing_port' = addressing_port /\ default' = default
  BY <1>3, <1>4, <1>6, Unaddressed, Zenon
<1>7. CASE /\ port_config_phase' = [port_config_phase EXCEPT ![p] = "WaitingAddressed"]
           /\ addressing_port' = addressing_port /\ default' = default
  <2>1. "WaitingAddressed" \notin Addressing /\ port_config_phase[p] \notin Addressing BY DEF Addressing
  <2> QED BY <1>3, <1>4, <1>5, <1>7, <2>1, Unaddressed, Zenon
<1>8. CASE /\ port_config_phase' = [port_config_phase EXCEPT ![p] = "ResettingPort"] /\ addressing_port = 0
           /\ addressing_port' = p /\ default' = default \cup {p}
  <2>1. ~Has(cr, Asking) /\ ~Has(er, Answering) /\ ("command" \in causes \/ default = {})
    BY <1>8, NoneAddressed, Zenon
  <2>2. ~Has(er', Answering)
    <3>1. ~Has(er, AnswerTo(9)) /\ ~Has(er, AnswerTo(11)) BY <2>1, AnswersSplit, Zenon
    <3>2. ~Has(er', AnswerTo(9)) /\ ~Has(er', AnswerTo(11)) BY <1>3, <3>1, Zenon DEF NoNewAnswers
    <3> QED BY <3>2, AnswersSplit, Zenon
  <2>3. \A n \in Ports : port_config_phase[n] \notin Addressing BY <1>8, PortFacts, Zenon DEF AddressInv, PhaseInv
  <2>4. "command" \in causes' \/ default' \subseteq {p} BY <1>8, <2>1, Zenon
  <2>5. port_config_phase[0] = "NotConnected" /\ PhaseInv BY Zenon DEF AddressInv, PhaseInv
  <2>6. ~Has(cr', Asking) BY <2>1, Zenon
  <2> QED BY <1>1, <1>8, <2>2, <2>3, <2>4, <2>5, <2>6, PortReset, Zenon
<1> QED BY <1>1, <1>6, <1>7, <1>8, ResetPort, ZenonT(60)

\* addressing_port goes from one phase to the next and asks the question of that phase
LEMMA NextQuestion ==
  ASSUME TypeInv, AddressInv, addressing_port # 0, addressing_port' = addressing_port,
         NEW n \in {9, 11}, NEW c \in AskFor(n), cr' = Append(cr, c),
         ~Has(cr, Asking), ~Has(er', Answering), default' = default, causes' = causes,
         NEW x, x = (IF n = 9 THEN "EnablingSlot" ELSE "AddressingDevice"),
         port_config_phase' = [port_config_phase EXCEPT ![addressing_port] = x]
  PROVE  AddressInv'
<1>1. /\ cr \in Seq(Commands) /\ addressing_port \in AllPorts
      /\ port_config_phase \in [AllPorts -> ConfigPhase]
  BY Zenon DEF TypeInv
<1>2. \A p \in AllPorts : port_config_phase'[p] = IF p = addressing_port THEN x ELSE port_config_phase[p]
  BY <1>1
<1>3. x \in Addressing BY DEF Addressing
<1>4. PhaseInv' BY <1>1, <1>2, <1>3, PortFacts, Zenon DEF AddressInv, PhaseInv
<1>5. c \in Commands /\ c.type = n BY Zenon DEF AskFor
<1>6. /\ ~Has(er', AnswerTo(9)) /\ ~Has(er', AnswerTo(11))
      /\ ~Has(cr, AskFor(9)) /\ ~Has(cr, AskFor(11))
  BY AnswersSplit, AsksSplit, Zenon
<1>7. AtMostOne(er', Answering) BY Zenon DEF Has, AtMostOne
<1>8. \A M : Has(cr', M) <=> Has(cr, M) \/ c \in M BY <1>1, <1>5, AppendOnce, Zenon
<1>9. AtMostOne(cr', Asking)
  <2>1. AtMostOne(cr, Asking) BY Zenon DEF AddressInv, TokenInv
  <2> QED BY <1>1, <1>5, <2>1, AppendOnce, ZenonT(60)
<1>10. Has(cr', AskFor(9)) => x = "EnablingSlot" BY <1>5, <1>6, <1>8 DEF AskFor
<1>11. Has(cr', AskFor(11)) => x = "AddressingDevice" BY <1>5, <1>6, <1>8 DEF AskFor
<1>12. port_config_phase'[addressing_port'] = x BY <1>1, <1>2, Zenon
<1>13. TokenInv' BY <1>6, <1>7, <1>9, <1>10, <1>11, <1>12, ZenonT(60) DEF TokenInv
<1>14. DefaultInv' BY <1>6, Zenon DEF AddressInv, DefaultInv
<1> QED BY <1>4, <1>13, <1>14 DEF AddressInv

LEMMA PortEventAddress ==
  ASSUME TypeInv, AddressInv, kernel = "loop", er # <<>>, NEW e \in Events, e.type = 34,
         on_port_status_change(e)
  PROVE  AddressInv'
<1>1. e.port \in Ports /\ er \in Seq(Events) /\ causes' = causes
  BY EventFacts, Zenon DEF TypeInv, on_port_status_change
<1>2. CASE port_config_phase[e.port] = "NotConnected"
  <2>1. reset_port(e.port, port_config_phase, addressing_port) /\ cr' = cr BY <1>2 DEF on_port_status_change
  <2> QED BY <1>1, <1>2, <2>1, ResetPortAddress, Zenon
<1>3. CASE UNCHANGED <<port_config_phase, addressing_port, cr>> /\ er' = Rest /\ default' = default
  <2>1. NoNewAnswers BY <1>3, RestAnswers, Zenon DEF AddressInv, EventsLeft
  <2>2. NoNewAsks BY <1>3, Zenon DEF AddressInv, TokenInv, NoNewAsks
  <2> QED BY <1>1, <1>3, <2>1, <2>2, Unaddressed, Zenon
<1>4. CASE port_config_phase[e.port] = "ResettingPort"
  <2>1. enable_slot(e.port) BY <1>4 DEF on_port_status_change
  <2>2. CASE UNCHANGED <<portsc, port_config_phase, cr>> BY <1>3, <2>1, <2>2, Zenon DEF enable_slot
  <2>3. CASE /\ port_config_phase' = [port_config_phase EXCEPT ![e.port] = "EnablingSlot"]
             /\ cr' = Append(cr, EnableSlotCommandTRB)
    <3>1. e.port = addressing_port /\ e.port # 0 BY <1>1, <1>4, PortFacts, Zenon DEF AddressInv, PhaseInv, Addressing
    <3>2. ~Has(cr, AskFor(9)) /\ ~Has(cr, AskFor(11)) /\ ~Has(er, AnswerTo(9)) /\ ~Has(er, AnswerTo(11))
      BY <1>4, <3>1 DEF AddressInv, TokenInv
    <3>3. er' = Rest /\ addressing_port' = addressing_port /\ default' = default BY <2>1, Zenon DEF enable_slot
    <3>4. NoNewAnswers BY <3>3, RestAnswers, Zenon DEF AddressInv, EventsLeft
    <3>5. ~Has(er', Answering) /\ ~Has(cr, Asking)
      BY <3>2, <3>4, AnswersSplit, AsksSplit, Zenon DEF NoNewAnswers
    <3>6. EnableSlotCommandTRB \in AskFor(9) BY NewCommands, Zenon DEF AskFor
    <3>7. 9 \in {9, 11} /\ "EnablingSlot" = (IF 9 = 9 THEN "EnablingSlot" ELSE "AddressingDevice") OBVIOUS
    <3> QED BY <1>1, <2>3, <3>1, <3>3, <3>5, <3>6, <3>7, NextQuestion, ZenonT(60)
  <2> QED BY <2>1, <2>2, <2>3, Zenon DEF enable_slot
<1>5. CASE port_config_phase[e.port] \notin {"NotConnected", "ResettingPort"}
  <2>1. NoReset /\ UNCHANGED <<port_config_phase, addressing_port, cr>> BY <1>5 DEF on_port_status_change
  <2> QED BY <1>3, <2>1, Zenon DEF NoReset
<1> QED BY <1>2, <1>4, <1>5, Zenon

LEMMA TransferAddress ==
  ASSUME TypeInv, AddressInv, kernel = "loop", er # <<>>, NEW e \in Events, e.type = 32, on_transfer(e)
  PROVE  AddressInv'
<1>1. e.slot \in Slots BY EventFacts, Zenon
<1>2. /\ NoReset /\ addressing_port' = addressing_port
      /\ \/ port_config_phase' = port_config_phase /\ cr' = cr
         \/ /\ port_config_phase[devices[e.slot].number] = "InitializingDevice"
            /\ port_config_phase' =
                 [port_config_phase EXCEPT ![devices[e.slot].number] = "ConfiguringEndpoints"]
            /\ cr' = Append(cr, ConfigureEndpointCommandTRB(e.slot))
      /\ causes \subseteq causes'
  BY TransferRest, Zenon
<1>3. NoNewAnswers BY <1>2, RestAnswers, Zenon DEF AddressInv, EventsLeft, NoReset
<1>4. NoNewAsks BY <1>1, <1>2, ConfigureAsksNothing, Zenon DEF AddressInv
<1>5. "InitializingDevice" \notin Addressing /\ "ConfiguringEndpoints" \notin Addressing BY DEF Addressing
<1>6. \A n : port_config_phase[n] = "InitializingDevice" => n # 0 BY DEF AddressInv, PhaseInv
<1>7. default' \subseteq default BY <1>2, Zenon DEF NoReset
<1>8. CASE port_config_phase' = port_config_phase BY <1>2, <1>3, <1>4, <1>7, <1>8, Unaddressed, Zenon
<1>9. CASE /\ port_config_phase[devices[e.slot].number] = "InitializingDevice"
           /\ port_config_phase' =
                [port_config_phase EXCEPT ![devices[e.slot].number] = "ConfiguringEndpoints"]
  <2> DEFINE n == devices[e.slot].number
  <2>1. n # 0 /\ port_config_phase[n] \notin Addressing BY <1>5, <1>6, <1>9, Zenon
  <2>2. port_config_phase' = [port_config_phase EXCEPT ![n] = "ConfiguringEndpoints"] BY <1>9, Zenon
  <2> HIDE DEF n
  <2> QED BY <1>2, <1>3, <1>4, <1>5, <1>7, <2>1, <2>2, Unaddressed, ZenonT(60)
<1> QED BY <1>2, <1>8, <1>9, Zenon

\* The completion of AddressDevice passes the default address on
LEMMA AddressedAddress ==
  ASSUME TypeInv, AddressInv, kernel = "loop", er # <<>>, NEW s, Head(er) \in AnswerTo(11), DeviceAddressed(s)
  PROVE  AddressInv'
<1> DEFINE phase == [port_config_phase EXCEPT ![addressing_port] = "InitializingDevice"]
<1>1. /\ er \in Seq(Events) /\ addressing_port \in AllPorts /\ port_config_phase \in [AllPorts -> ConfigPhase]
      /\ cr' = cr /\ causes' = causes /\ next_waiting(addressing_port) /\ PhaseInv
  BY Zenon DEF TypeInv, DeviceAddressed, AddressInv
<1>2. /\ EventsLeft(Rest)
      /\ \/ port_config_phase' = phase /\ addressing_port' = 0 /\ default' = default
         \/ \E q \in Ports : /\ port_config_phase' = [phase EXCEPT ![q] = "ResettingPort"]
                             /\ addressing_port' = q /\ default' = default \cup {q}
  BY <1>1, NextWaiting, Zenon
<1>3. Head(er) \in Answering BY Zenon DEF Answering
<1>4. ~Has(er', Answering) BY <1>2, <1>3, RestAnswers, Zenon DEF AddressInv
<1>5. Has(er, AnswerTo(11))
  <2>1. Head(er) = er[1] /\ 1 \in DOMAIN er BY <1>1, TailFacts
  <2> QED BY <2>1, Zenon DEF Has
<1>6. ~Has(cr', Asking)
  <2>1. Has(er, Answering) BY <1>5, AnswersSplit, Zenon
  <2> QED BY <1>1, <2>1, Zenon DEF AddressInv, TokenInv
<1>7. "command" \in causes \/ default = {} BY <1>5, Zenon DEF AddressInv, DefaultInv
<1>8. addressing_port # 0 BY DEF DeviceAddressed, AddressInv, PhaseInv
<1>9. "InitializingDevice" \in ConfigPhase /\ "InitializingDevice" \notin Addressing BY DEF ConfigPhase, Addressing
<1>10. phase \in [AllPorts -> ConfigPhase] BY <1>1, <1>9, SetPhase, Zenon
<1>11. \A p \in AllPorts : phase[p] = IF p = addressing_port THEN "InitializingDevice" ELSE port_config_phase[p]
  BY <1>1
<1> HIDE DEF phase
<1>12. phase[0] = "NotConnected" /\ \A p \in Ports : phase[p] \notin Addressing
  BY <1>1, <1>8, <1>9, <1>11, PortFacts, ZenonT(60) DEF PhaseInv
<1>13. CASE port_config_phase' = phase /\ addressing_port' = 0 /\ default' = default
  <2>1. PhaseInv' BY <1>12, <1>13, Zenon DEF PhaseInv
  <2>2. ~Has(cr', AskFor(9)) /\ ~Has(cr', AskFor(11)) /\ ~Has(er', AnswerTo(9)) /\ ~Has(er', AnswerTo(11))
    BY <1>4, <1>6, AnswersSplit, AsksSplit, Zenon
  <2>3. AtMostOne(cr', Asking) /\ AtMostOne(er', Answering) BY <1>4, <1>6, Zenon DEF Has, AtMostOne
  <2>4. TokenInv' BY <1>4, <2>2, <2>3, Zenon DEF TokenInv
  <2>5. DefaultInv' BY <1>1, <1>7, <1>13, <2>2, Zenon DEF DefaultInv
  <2> QED BY <2>1, <2>4, <2>5 DEF AddressInv
<1>14. ASSUME NEW q \in Ports, port_config_phase' = [phase EXCEPT ![q] = "ResettingPort"],
              addressing_port' = q, default' = default \cup {q}
       PROVE  AddressInv'
  <2>1. "command" \in causes' \/ default' \subseteq {q} BY <1>1, <1>7, <1>14, Zenon
  <2> QED BY <1>1, <1>4, <1>6, <1>10, <1>12, <1>14, <2>1, PortReset, ZenonT(60)
<1> QED BY <1>2, <1>13, <1>14, Zenon

LEMMA CompletionAddress ==
  ASSUME TypeInv, AddressInv, kernel = "loop", er # <<>>, Head(er).type = 33, on_command_completion(Head(er))
  PROVE  AddressInv'
<1> DEFINE e == Head(er)
           s == Head(er).slot
<1>1. er \in Seq(Events) /\ cr \in Seq(Commands) BY DEF TypeInv
<1>2. e \in Events BY <1>1, TailFacts, Zenon
<1>3. s \in Slots BY <1>2, EventFacts, Zenon
<1>4. NoReset => NoNewAnswers /\ (e \in Answering => ~Has(er', Answering)) /\ default' \subseteq default
  BY RestAnswers, Zenon DEF AddressInv, EventsLeft, NoReset
<1>5. cr' = cr => NoNewAsks BY Zenon DEF AddressInv, TokenInv, NoNewAsks
<1>6. Head(er) = er[1] /\ 1 \in DOMAIN er BY <1>1, TailFacts
<1>7. CASE Refused
  <2>1. NoReset /\ UNCHANGED <<port_config_phase, addressing_port, cr>> /\ causes \subseteq causes'
    BY <1>7, Zenon DEF Refused
  <2> QED BY <1>4, <1>5, <2>1, Unaddressed, ZenonT(60)
<1>8. CASE e.issuer.type = 9 /\ SlotEnabled(s)
  <2>1. e \in AnswerTo(9) BY <1>2, <1>8, Zenon DEF AnswerTo
  <2>2. Has(er, AnswerTo(9)) BY <1>6, <2>1, Zenon DEF Has
  <2>3. ~Has(cr, Asking)
    <3>1. Has(er, Answering) BY <2>2, AnswersSplit, Zenon
    <3> QED BY <3>1, Zenon DEF AddressInv, TokenInv
  <2>4. ~Has(er', Answering) BY <1>4, <1>8, <2>1, Zenon DEF SlotEnabled, Answering
  <2>5. AddressDeviceCommandTRB(s) \in AskFor(11) BY <1>3, NewCommands, Zenon DEF AskFor
  <2>6. 11 \in {9, 11} /\ "AddressingDevice" = (IF 11 = 9 THEN "EnablingSlot" ELSE "AddressingDevice") OBVIOUS
  <2>7. /\ addressing_port # 0 /\ UNCHANGED <<addressing_port, causes, default>>
        /\ port_config_phase' = [port_config_phase EXCEPT ![addressing_port] = "AddressingDevice"]
        /\ cr' = Append(cr, AddressDeviceCommandTRB(s))
    BY <1>8, Zenon DEF SlotEnabled, NoReset
  <2> HIDE DEF s
  <2> QED BY <2>3, <2>4, <2>5, <2>6, <2>7, NextQuestion, ZenonT(60)
<1>9. CASE e.issuer.type = 11 /\ DeviceAddressed(s)
  <2>1. e \in AnswerTo(11) BY <1>2, <1>9, Zenon DEF AnswerTo
  <2> QED BY <1>9, <2>1, AddressedAddress, Zenon
<1>10. CASE EndpointsReady(s)
  <2>1. "ConfiguringEndpoints" \notin Addressing /\ "Configured" \notin Addressing BY DEF Addressing
  <2>2. \A n : port_config_phase[n] = "ConfiguringEndpoints" => n # 0 BY DEF AddressInv, PhaseInv
  <2>3. /\ port_config_phase[devices[s].number] = "ConfiguringEndpoints"
        /\ port_config_phase' = [port_config_phase EXCEPT ![devices[s].number] = "Configured"]
        /\ NoReset /\ addressing_port' = addressing_port /\ cr' = cr /\ causes' = causes
    BY <1>10, Zenon DEF EndpointsReady
  <2> QED BY <1>4, <1>5, <2>1, <2>2, <2>3, Unaddressed, ZenonT(60)
<1> QED BY <1>2, <1>7, <1>8, <1>9, <1>10, CompletionCases, ZenonT(60)

LEMMA CommandAddress ==
  ASSUME TypeInv, AddressInv, Command
  PROVE  AddressInv'
<1> DEFINE c == Head(cr)
<1>1. /\ cr \in Seq(Commands) /\ er \in Seq(Events) /\ AtMostOne(cr, Asking) /\ AtMostOne(er, Answering)
      /\ ~(Has(cr, Asking) /\ Has(er, Answering))
  BY Zenon DEF TypeInv, AddressInv, TokenInv
<1>2. /\ cr # <<>> /\ cr' = Tail(cr) /\ c \in Commands /\ c.type \in {9, 11, 12}
      /\ UNCHANGED <<port_config_phase, addressing_port>>
  BY CommandFacts, Zenon
<1>3. PICK s \in Slots : er' = Append(er, CommandCompletionEventTRB(s, c)) BY CommandFacts, Zenon
<1> DEFINE e == CommandCompletionEventTRB(s, c)
<1>4. e \in Events /\ e.type = 33 /\ e.issuer = c BY <1>2, CommandEvent
<1>5. /\ \A M : Has(er', M) <=> Has(er, M) \/ e \in M
      /\ (Has(er, Answering) => e \notin Answering) => AtMostOne(er', Answering)
  BY <1>1, <1>3, <1>4, AppendOnce, ZenonT(60)
<1> HIDE DEF e
<1>6. AtMostOne(cr, AskFor(9)) /\ AtMostOne(cr, AskFor(11)) BY <1>1, Zenon DEF AtMostOne, Asking
<1>7. NoNewAsks BY <1>1, <1>2, <1>6, TailOnce, ZenonT(60) DEF NoNewAsks
<1>8. Head(cr) = cr[1] /\ 1 \in DOMAIN cr BY <1>1, <1>2, TailFacts
<1>9. /\ (e \in AnswerTo(9) <=> c.type = 9) /\ (e \in AnswerTo(11) <=> c.type = 11)
      /\ (c \in AskFor(9) <=> c.type = 9) /\ (c \in AskFor(11) <=> c.type = 11)
  BY <1>2, <1>4, Zenon DEF AnswerTo, AskFor
<1>10. \A M : c \in M => Has(cr, M) BY <1>8, Zenon DEF Has
<1>11. e \in Answering => Has(cr, Asking) /\ ~Has(er, Answering) /\ ~Has(cr', Asking)
  <2>1. e \in Answering => c \in Asking BY <1>9, Zenon DEF Answering, Asking
  <2> QED BY <1>1, <1>2, <1>10, <2>1, TailOnce, Zenon
<1>12. AtMostOne(er', Answering) BY <1>5, <1>11, Zenon
<1>13. e \notin Answering /\ Has(er', Answering) => Has(er, Answering) BY <1>5, Zenon
<1>14. Has(cr', Asking) => Has(cr, Asking) BY <1>7, AsksSplit, Zenon DEF NoNewAsks
<1>15. ~(Has(cr', Asking) /\ Has(er', Answering)) BY <1>1, <1>11, <1>13, <1>14, ZenonT(60)
<1>16. \A n \in {9, 11} : Has(er', AnswerTo(n)) => Has(er, AnswerTo(n)) \/ Has(cr, AskFor(n))
  BY <1>5, <1>9, <1>10, Zenon
<1>17. TokenInv'
  BY <1>2, <1>7, <1>12, <1>15, <1>16, Zenon DEF TokenInv, AddressInv, NoNewAsks
<1>18. PhaseInv' BY <1>2, Zenon DEF AddressInv, PhaseInv
<1>19. causes \subseteq causes' BY CommandFacts, Zenon
<1>20. DefaultInv'
  <2>1. CASE "command" \in causes' BY <2>1, Zenon DEF DefaultInv
  <2>2. CASE "command" \notin causes'
    <3>1. default \subseteq {addressing_port} \ {0} /\ (Has(er, AnswerTo(11)) => default = {})
      BY <1>19, <2>2, Zenon DEF AddressInv, DefaultInv
    <3>2. CASE c.type # 11 /\ default' = default
      BY <1>2, <1>5, <1>9, <3>1, <3>2, ZenonT(60) DEF DefaultInv
    <3>3. CASE default' = default \ {addressing_port}
      <4>1. default' = {} BY <3>1, <3>3, Zenon
      <4> QED BY <4>1, Zenon DEF DefaultInv
    <3> QED BY <2>2, <3>2, <3>3, CommandFacts, Zenon
  <2> QED BY <2>1, <2>2
<1> QED BY <1>17, <1>18, <1>20 DEF AddressInv

LEMMA AddressInit == Init => AddressInv
<1> SUFFICES ASSUME Init PROVE AddressInv OBVIOUS
<1>1. \A p \in AllPorts : port_config_phase[p] = "NotConnected" BY Zenon DEF Init, AllPorts
<1>2. "NotConnected" \notin Addressing BY DEF Addressing
<1>3. PhaseInv BY <1>1, <1>2, PortFacts, Zenon DEF PhaseInv, Init
<1>4. DOMAIN cr = {} /\ DOMAIN er = {} BY DEF Init
<1>5. TokenInv BY <1>4, Zenon DEF TokenInv, Has, AtMostOne
<1>6. DefaultInv BY Zenon DEF Init, DefaultInv
<1> QED BY <1>3, <1>5, <1>6 DEF AddressInv

LEMMA AddressStep ==
  ASSUME TypeInv, AddressInv, [Next]_vars
  PROVE  AddressInv'
<1>1. /\ er \in Seq(Events) /\ AtMostOne(er, Answering) /\ AtMostOne(cr, Asking)
  BY Zenon DEF TypeInv, AddressInv, TokenInv
<1>2. er' = er => NoNewAnswers BY <1>1, Zenon DEF NoNewAnswers
<1>3. cr' = cr => NoNewAsks BY <1>1, Zenon DEF NoNewAsks
<1>4. ASSUME UNCHANGED <<port_config_phase, addressing_port, cr, er, default>>, causes \subseteq causes'
      PROVE  AddressInv'
  BY <1>2, <1>3, <1>4, Unaddressed, Zenon
<1>5. CASE request_hc_ownership
  BY <1>4, <1>5, Zenon DEF request_hc_ownership, Idle, GiveUp, Fault
<1>6. CASE AwaitController BY <1>4, <1>6, Zenon DEF AwaitController, Idle
<1>7. CASE initialize BY <1>4, <1>7, Zenon DEF initialize, Idle, GiveUp, Fault
<1>8. CASE configure_port
  <2>1. kernel = "ports" /\ cr' = cr /\ causes' = causes BY <1>8, Zenon DEF configure_port, environment
  <2>2. kernel = "loop" => er # <<>> BY <2>1
  <2>3. CASE NoReset /\ UNCHANGED <<port_config_phase, addressing_port>>
    <3>1. Rest = er BY <2>1 DEF Rest
    <3> QED BY <1>4, <2>1, <2>3, <3>1, Zenon DEF NoReset
  <2>4. CASE /\ asked # MaxPorts /\ asked' = asked + 1 /\ port_config_phase[asked'] = "NotConnected"
             /\ reset_port(asked', port_config_phase, addressing_port)
    <3>1. asked' \in Ports BY <2>4, ConstantsAssumption DEF TypeInv, Ports
    <3> QED BY <2>1, <2>2, <2>4, <3>1, ResetPortAddress, ZenonT(60)
  <2> QED BY <1>8, <2>3, <2>4, Zenon DEF configure_port
<1>9. CASE process_event
  <2>1. kernel = "loop" /\ er # <<>> BY <1>9, Zenon DEF process_event
  <2>2. Head(er) \in Events BY <1>1, <2>1, TailFacts, Zenon
  <2> QED BY <1>9, <2>1, <2>2, PortEventAddress, TransferAddress, CompletionAddress, ZenonT(60) DEF process_event
<1>10. CASE Controller
  <2>1. UNCHANGED <<port_config_phase, addressing_port, cr, default, causes>>
    BY <1>10, Zenon DEF Controller, environment
  <2>2. CASE \A i \in DOMAIN er' : er'[i].type = 34
    <3>1. ~Has(er', Answering) /\ ~Has(er', AnswerTo(9)) /\ ~Has(er', AnswerTo(11))
      BY <2>2, NotAnswers, ZenonT(60) DEF Has
    <3>2. NoNewAnswers BY <3>1, Zenon DEF NoNewAnswers, Has, AtMostOne
    <3> QED BY <1>3, <2>1, <3>2, Unaddressed, Zenon
  <2> QED BY <1>4, <1>10, <2>1, <2>2, ControllerEvents, ZenonT(60)
<1>11. CASE Command BY <1>11, CommandAddress, Zenon
<1>12. ASSUME NEW s \in Slots, NEW pipe \in {"control", "interrupt"}, Transfer(s, pipe) PROVE AddressInv'
  <2>1. UNCHANGED <<port_config_phase, addressing_port, cr, default>> /\ causes \subseteq causes'
    BY <1>12, Zenon DEF Transfer, Fault
  <2>2. Head(transfers[s][pipe]) \in Stages BY <1>12, TransferFacts, Zenon
  <2>3. PICK ok \in BOOLEAN : er' = Append(er, TransferEventTRB(s, Head(transfers[s][pipe]), ok))
    BY <1>12, TransferFacts, Zenon
  <2> DEFINE e == TransferEventTRB(s, Head(transfers[s][pipe]), ok)
  <2>4. e \in Events /\ e.type = 32 BY <2>2, TransferEvent
  <2>5. er' = Append(er, e) BY <2>3
  <2> HIDE DEF e
  <2>6. e \notin Answering /\ e \notin AnswerTo(9) /\ e \notin AnswerTo(11) BY <2>4, NotAnswers, ZenonT(60)
  <2>7. NoNewAnswers BY <1>1, <2>4, <2>5, <2>6, AppendOnce DEF NoNewAnswers
  <2> QED BY <1>3, <2>1, <2>7, Unaddressed, Zenon
<1>13. ASSUME NEW p \in Ports, plug(p) PROVE AddressInv'
  <2>1. /\ UNCHANGED <<port_config_phase, addressing_port, cr>> /\ default' \subseteq default
        /\ causes \subseteq causes' /\ er' = er \o Report(p, portsc[p].csc \/ portsc[p].prc)
    BY <1>13, Zenon DEF plug
  <2>2. EventsLeft(er) BY <1>1, <2>1, ReportCases, Zenon DEF EventsLeft
  <2>3. NoNewAnswers BY <1>1, <2>2, LeftOnce, NotAnswers, Zenon DEF NoNewAnswers
  <2> QED BY <1>3, <2>1, <2>3, Unaddressed, Zenon
<1>14. CASE UNCHANGED vars BY <1>4, <1>14, Zenon DEF vars
<1> QED BY <1>5, <1>6, <1>7, <1>8, <1>9, <1>10, <1>11, <1>12, <1>13, <1>14, ZenonT(60)
        DEF Next, kernel_thread, controller

-----------------------------------------------------------------------------
(* The cardinality of small sets.                                          *)

\* The recursive function in the definition of Cardinality is what its equation says,
\* if there is one of which the equation holds.
LEMMA CardinalityUnfolds ==
  ASSUME NEW S,
         \E f : f = [T \in SUBSET S |-> IF T = {} THEN 0 ELSE 1 + f[T \ {CHOOSE x : x \in T}]]
  PROVE  \E g : /\ g = [T \in SUBSET S |-> IF T = {} THEN 0 ELSE 1 + g[T \ {CHOOSE x : x \in T}]]
                /\ Cardinality(S) = g[S]
BY Zenon DEF Cardinality

LEMMA SmallSets == Cardinality({}) = 0 /\ \A x : Cardinality({x}) = 1
<1>1. Cardinality({}) = 0
  <2> DEFINE f == [T \in SUBSET {} |-> 0]
  <2>1. f = [T \in SUBSET {} |-> IF T = {} THEN 0 ELSE 1 + f[T \ {CHOOSE x : x \in T}]]
    OBVIOUS
  <2> HIDE DEF f
  <2>2. \E h : h = [T \in SUBSET {} |-> IF T = {} THEN 0 ELSE 1 + h[T \ {CHOOSE x : x \in T}]]
    BY <2>1, Zenon
  <2>3. PICK g : /\ g = [T \in SUBSET {} |-> IF T = {} THEN 0 ELSE 1 + g[T \ {CHOOSE x : x \in T}]]
                 /\ Cardinality({}) = g[{}]
    BY <2>2, CardinalityUnfolds, Zenon
  <2> QED BY <2>3
<1>2. ASSUME NEW S, NEW e, S = {e} PROVE Cardinality(S) = 1
  <2> DEFINE f == [T \in SUBSET S |-> IF T = {} THEN 0 ELSE 1]
  <2>1. \A T \in SUBSET S : T # {} => T \ {CHOOSE x : x \in T} = {}
    <3> SUFFICES ASSUME NEW T \in SUBSET S, T # {} PROVE T \ {CHOOSE x : x \in T} = {}
      OBVIOUS
    <3>1. T = {e} BY <1>2, Zenon
    <3>2. (CHOOSE x : x \in T) \in T BY Zenon
    <3> QED BY <3>1, <3>2, Zenon
  <2>2. f = [T \in SUBSET S |-> IF T = {} THEN 0 ELSE 1 + f[T \ {CHOOSE x : x \in T}]]
    <3>1. \A T \in SUBSET S : f[T] = IF T = {} THEN 0 ELSE 1 + f[T \ {CHOOSE x : x \in T}]
      <4> TAKE T \in SUBSET S
      <4>1. f[{}] = 0 /\ 1 + 0 = 1 OBVIOUS
      <4>2. f[T] = IF T = {} THEN 0 ELSE 1 BY Zenon
      <4> HIDE DEF f
      <4> QED BY <2>1, <4>1, <4>2, Zenon
    <3> QED BY <3>1, Zenon
  <2> HIDE DEF f
  <2>3. \E h : h = [T \in SUBSET S |-> IF T = {} THEN 0 ELSE 1 + h[T \ {CHOOSE x : x \in T}]]
    BY <2>2, Zenon
  <2>4. PICK g : /\ g = [T \in SUBSET S |-> IF T = {} THEN 0 ELSE 1 + g[T \ {CHOOSE x : x \in T}]]
                 /\ Cardinality(S) = g[S]
    BY <2>3, CardinalityUnfolds, Zenon
  <2>5. {} \in SUBSET S /\ S \in SUBSET S /\ S # {} BY <1>2
  <2>6. g[{}] = 0 BY <2>4, <2>5, Zenon
  <2>7. S \ {CHOOSE x : x \in S} = {} BY <2>1, <2>5, Zenon
  <2>8. g[S] = 1 + g[S \ {CHOOSE x : x \in S}] BY <2>4, <2>5, ZenonT(60)
  <2> QED BY <2>4, <2>6, <2>7, <2>8
<1> QED BY <1>1, <1>2, Zenon

-----------------------------------------------------------------------------
\* At most one device answers at the default address, whatever is plugged in or out, fails
\* to be allocated or to be transferred, for any number of ports: reset_port, enable_slot,
\* address_device and initialize_device hand addressing_port from port to port.
THEOREM OneDefaultAddress == Spec => []DefaultAddressExclusive
<1>1. Init => TypeInv /\ AddressInv BY TypeInit, AddressInit
<1>2. TypeInv /\ AddressInv /\ [Next]_vars => (TypeInv /\ AddressInv)' BY TypeStep, AddressStep
<1>3. AddressInv => DefaultAddressExclusive
  <2> SUFFICES ASSUME DefaultInv, "command" \notin causes PROVE Cardinality(default) <= 1
    BY Zenon DEF AddressInv, DefaultAddressExclusive
  <2>1. default \subseteq {addressing_port} BY Zenon DEF DefaultInv
  <2>2. default = {} \/ default = {addressing_port} BY <2>1, Zenon
  <2>3. Cardinality({}) = 0 /\ Cardinality({addressing_port}) = 1 BY SmallSets
  <2> QED BY <2>2, <2>3
<1> QED BY <1>1, <1>2, <1>3, PTL DEF Spec

-----------------------------------------------------------------------------
(* One report requested.                                                   *)

\* The events of the transfers of slot s, those of its reports, those that failed, and the
\* commands about the slot with their completions
TransferOf(s) == {e \in Events : e.type = 32 /\ e.slot = s}
ReportOf(s) == {e \in TransferOf(s) : e.issuer = NormalTRB}
FailedReports == {e \in Events : e.type = 32 /\ e.issuer = NormalTRB /\ ~e.ok}
CommandOf(n, s) == {c \in Commands : c.type = n /\ c.slot = s}
CompletionOf(n, s) == {e \in Events : e.type = 33 /\ e.issuer \in CommandOf(n, s)}

\* An AddressDevice or a ConfigureEndpoint for slot s is with the controller or answered
Pending(n, s) == Has(cr, CommandOf(n, s)) \/ Has(er, CompletionOf(n, s))

\* The kernel handles events only when the controller runs, and until then there is no device
StartInv ==
  /\ hc \in [legacy : BOOLEAN, bios : BOOLEAN, os : BOOLEAN, run : BOOLEAN, halted : BOOLEAN,
             reset : BOOLEAN, not_ready : BOOLEAN]
  /\ kernel \in {"starting", "ports", "loop"} => hc.run
  /\ kernel \in {"ports", "loop"} => ~hc.halted
  /\ kernel # "loop" => \A s \in Slots : devices[s].hid = 0

\* A port that is being configured has its device, or something went wrong
LinkInv ==
  /\ portsc \in [Ports -> [connected : BOOLEAN, enabled : BOOLEAN, csc : BOOLEAN, prc : BOOLEAN]]
  /\ causes = {} => \A p \in Ports : port_config_phase[p] # "NotConnected" => portsc[p].connected

\* A slot without a device, or whose device is getting its address, has nothing under way
Clean(s) ==
  /\ devices[s].hid = 0 /\ transfers[s].control = <<>> /\ transfers[s].interrupt = <<>>
  /\ ~Has(er, TransferOf(s)) /\ ~Pending(12, s)

CleanFirst(s) ==
  /\ Pending(11, s) => devices[s].allocated
  /\ ~devices[s].allocated \/ Pending(11, s) => Clean(s)

Configuring == {"ConfiguringEndpoints", "Configured"}

\* The endpoints of a device are configured once, while its port is in the phases for it
ConfiguredOnce(s) ==
  /\ AtMostOne(cr, CommandOf(12, s)) /\ AtMostOne(er, CompletionOf(12, s))
  /\ ~(Has(cr, CommandOf(12, s)) /\ Has(er, CompletionOf(12, s)))
  /\ devices[s].hid # 0 => ~Pending(12, s)
  /\ devices[s].hid # 0 \/ Pending(12, s) => port_config_phase[devices[s].number] \in Configuring

\* A report is requested or among the events, when the driver has asked for the first one
OneReport(s) ==
  /\ AtMostOne(er, ReportOf(s))
  /\ transfers[s].interrupt = <<>> \/ (transfers[s].interrupt = <<NormalTRB>> /\ ~Has(er, ReportOf(s)))
  /\ devices[s].hid # 2 => transfers[s].interrupt = <<>> /\ ~Has(er, ReportOf(s))
  /\ devices[s].hid = 2 /\ causes = {} => transfers[s].interrupt # <<>> \/ Has(er, ReportOf(s))

SlotInv(s) == CleanFirst(s) /\ ConfiguredOnce(s) /\ OneReport(s)

\* Completions of another slot than the command was about, which there never are
Misdirected == {e \in Events : e.type = 33 /\ e.issuer.type # 9 /\ e.slot # e.issuer.slot}

EventInv == ~Has(er, Misdirected) /\ (causes = {} => ~Has(er, FailedReports))

ReportInv == StartInv /\ LinkInv /\ EventInv /\ \A s \in Slots : SlotInv(s)

LEMMA SlotSets ==
  \A s : /\ \A e \in TransferOf(s) \cup ReportOf(s) \cup FailedReports : e.type = 32
         /\ \A n, e : e \in CompletionOf(n, s) => e.type = 33
         /\ ReportOf(s) \subseteq TransferOf(s)
BY Zenon DEF TransferOf, ReportOf, FailedReports, CompletionOf

LEMMA TypesDiffer == \A e : (e.type = 32 => e.type # 34 /\ e.type # 33) /\ (e.type = 33 => e.type # 34)
OBVIOUS

LEMMA NoPortEvents ==
  \A s : /\ \A e \in TransferOf(s) : e.type # 34
         /\ \A e \in ReportOf(s) : e.type # 34
         /\ \A e \in FailedReports : e.type # 34
         /\ \A n : \A e \in CompletionOf(n, s) : e.type # 34
BY SlotSets, TypesDiffer, ZenonT(60)

LEMMA HasSubset == \A q, M, N : M \subseteq N /\ Has(q, M) => Has(q, N)
BY Zenon DEF Has

LEMMA HasNone == \A q, M : ~Has(q, M) => AtMostOne(q, M)
BY Zenon DEF Has, AtMostOne

\* What an event handler does to the events of a kind that are no reports of ports
LEMMA EventsPopped ==
  ASSUME TypeInv, EventsLeft(Rest), kernel = "loop" => er # <<>>, NEW M, \A e \in M : e.type # 34
  PROVE  /\ Has(er', M) => Has(er, M)
         /\ AtMostOne(er, M) => AtMostOne(er', M)
         /\ AtMostOne(er, M) /\ kernel = "loop" /\ Head(er) \in M => ~Has(er', M)
         /\ (kernel = "loop" => Head(er) \notin M) => (Has(er, M) => Has(er', M))
<1>1. er \in Seq(Events) /\ Rest \in Seq(Events) BY RestType, Zenon DEF TypeInv
<1>2. (Has(er', M) <=> Has(Rest, M)) /\ (AtMostOne(Rest, M) => AtMostOne(er', M)) BY <1>1, LeftOnce, Zenon
<1>3. CASE kernel # "loop" BY <1>2, <1>3, Zenon DEF Rest
<1>4. CASE kernel = "loop"
  <2>1. Rest = Tail(er) /\ er # <<>> BY <1>4, Zenon DEF Rest
  <2>2. /\ AtMostOne(er, M) => AtMostOne(Tail(er), M) /\ (Has(Tail(er), M) => Head(er) \notin M)
    BY <1>1, <2>1, TailOnce, ZenonT(60)
  <2>3. (Has(Tail(er), M) => Has(er, M)) /\ (Has(er, M) => Head(er) \in M \/ Has(Tail(er), M))
    BY <1>1, <2>1, TailHas, ZenonT(60)
  <2> QED BY <1>2, <1>4, <2>1, <2>2, <2>3, Zenon
<1> QED BY <1>3, <1>4

PhasesKept == \A p \in AllPorts : port_config_phase[p] \in Configuring => port_config_phase'[p] \in Configuring

\* A slot of which a step leaves everything alone but perhaps the number of a device that is
\* getting its address
SlotFrame(s) ==
  /\ devices'[s].hid = devices[s].hid /\ devices'[s].allocated = devices[s].allocated
  /\ devices'[s].number = devices[s].number \/ Pending(11, s)
  /\ transfers'[s] = transfers[s]
  /\ Has(er', TransferOf(s)) => Has(er, TransferOf(s))
  /\ Has(er', ReportOf(s)) <=> Has(er, ReportOf(s))
  /\ AtMostOne(er', ReportOf(s))
  /\ (Pending(11, s))' => Pending(11, s)
  /\ (Pending(12, s))' => Pending(12, s)
  /\ AtMostOne(cr', CommandOf(12, s)) /\ AtMostOne(er', CompletionOf(12, s))
  /\ ~(Has(cr', CommandOf(12, s)) /\ Has(er', CompletionOf(12, s)))

LEMMA SlotKept ==
  ASSUME TypeInv, NEW s \in Slots, SlotInv(s), SlotFrame(s), PhasesKept, causes \subseteq causes'
  PROVE  SlotInv(s)'
<1>1. devices[s].number \in AllPorts BY DEF TypeInv, DeviceSet
<1>2. Clean(s) => Clean(s)' BY Zenon DEF SlotFrame, Clean
<1>3. CleanFirst(s)' BY <1>2, Zenon DEF SlotInv, SlotFrame, CleanFirst
<1>4. ConfiguredOnce(s)'
  <2>1. Pending(11, s) => devices[s].hid = 0 /\ ~Pending(12, s) BY Zenon DEF SlotInv, CleanFirst, Clean
  <2> QED BY <1>1, <2>1, Zenon DEF SlotInv, SlotFrame, ConfiguredOnce, PhasesKept
<1>5. OneReport(s)'
  <2>1. causes' = {} => causes = {} BY Zenon
  <2> QED BY <2>1, Zenon DEF SlotInv, SlotFrame, OneReport
<1> QED BY <1>3, <1>4, <1>5, ZenonT(60) DEF SlotInv

\* A clean slot satisfies the rest
LEMMA CleanSlot ==
  ASSUME NEW s \in Slots, (Clean(s))', (CleanFirst(s))'
  PROVE  SlotInv(s)'
<1>1. ~Has(er', TransferOf(s)) /\ ~Has(cr', CommandOf(12, s)) /\ ~Has(er', CompletionOf(12, s))
  BY Zenon DEF Clean, Pending
<1>2. ~Has(er', ReportOf(s)) BY <1>1, HasSubset, SlotSets, ZenonT(60)
<1>3. devices'[s].hid = 0 /\ devices'[s].hid # 2 BY DEF Clean
<1>4. ConfiguredOnce(s)' BY <1>1, <1>3, HasNone, Zenon DEF ConfiguredOnce, Pending
<1>5. OneReport(s)' BY <1>2, <1>3, HasNone, Zenon DEF OneReport, Clean
<1> QED BY <1>4, <1>5, ZenonT(60) DEF SlotInv

\* The slots that an event handler or configure_port is not about
LEMMA OtherSlot ==
  ASSUME TypeInv, NEW s \in Slots, SlotInv(s), EventsLeft(Rest),
         kernel = "loop" => er # <<>> /\ Head(er) \notin ReportOf(s),
         \/ cr' = cr
         \/ \E c \in Commands : cr' = Append(cr, c) /\ c \notin CommandOf(11, s) /\ c \notin CommandOf(12, s),
         devices'[s] = devices[s], transfers'[s] = transfers[s], PhasesKept, causes \subseteq causes'
  PROVE  SlotInv(s)'
<1>1. cr \in Seq(Commands) BY DEF TypeInv
<1>2. /\ \A e \in TransferOf(s) : e.type # 34
      /\ \A e \in ReportOf(s) : e.type # 34
      /\ \A n : \A e \in CompletionOf(n, s) : e.type # 34
  BY NoPortEvents, Zenon
<1>3. Has(er', TransferOf(s)) => Has(er, TransferOf(s)) BY <1>2, EventsPopped, Zenon
<1>4. /\ Has(er', ReportOf(s)) <=> Has(er, ReportOf(s))
      /\ AtMostOne(er', ReportOf(s))
  BY <1>2, EventsPopped, Zenon DEF SlotInv, OneReport
<1>5. \A n : Has(er', CompletionOf(n, s)) => Has(er, CompletionOf(n, s)) BY <1>2, EventsPopped, Zenon
<1>6. AtMostOne(er', CompletionOf(12, s)) BY <1>2, EventsPopped, Zenon DEF SlotInv, ConfiguredOnce
<1>7. \A n \in {11, 12} : Has(cr', CommandOf(n, s)) => Has(cr, CommandOf(n, s))
  <2>1. CASE cr' = cr BY <2>1, Zenon
  <2>2. ASSUME NEW c \in Commands, cr' = Append(cr, c), c \notin CommandOf(11, s), c \notin CommandOf(12, s)
        PROVE  <1>7
    BY <1>1, <2>2, AppendOnce, ZenonT(60)
  <2> QED BY <2>1, <2>2, ZenonT(60)
<1>8. AtMostOne(cr', CommandOf(12, s))
  <2>1. AtMostOne(cr, CommandOf(12, s)) BY Zenon DEF SlotInv, ConfiguredOnce
  <2>2. ASSUME NEW c \in Commands, cr' = Append(cr, c), c \notin CommandOf(12, s)
        PROVE  AtMostOne(cr', CommandOf(12, s))
    BY <1>1, <2>1, <2>2, AppendOnce, ZenonT(60)
  <2> QED BY <2>1, <2>2, Zenon
<1>9. \A n \in {11, 12} : (Pending(n, s))' => Pending(n, s) BY <1>5, <1>7, Zenon DEF Pending
<1>10. ~(Has(cr', CommandOf(12, s)) /\ Has(er', CompletionOf(12, s)))
  BY <1>5, <1>7, Zenon DEF SlotInv, ConfiguredOnce
<1>11. SlotFrame(s) BY <1>3, <1>4, <1>6, <1>8, <1>9, <1>10, ZenonT(60) DEF SlotFrame
<1> QED BY <1>11, SlotKept, ZenonT(60)

LEMMA PhaseSet ==
  ASSUME TypeInv, NEW n, NEW x, port_config_phase' = [port_config_phase EXCEPT ![n] = x],
         port_config_phase[n] \notin Configuring \/ x \in Configuring
  PROVE  PhasesKept
<1>1. port_config_phase \in [AllPorts -> ConfigPhase] BY DEF TypeInv
<1>2. \A p \in AllPorts : port_config_phase'[p] = IF p = n THEN x ELSE port_config_phase[p] BY <1>1
<1> QED BY <1>2, Zenon DEF PhasesKept

LEMMA NotConfiguring ==
  /\ \A x \in {"NotConnected", "WaitingAddressed", "ResettingPort", "EnablingSlot", "AddressingDevice",
               "InitializingDevice"} : x \notin Configuring
  /\ "ConfiguringEndpoints" \in Configuring /\ "Configured" \in Configuring
BY DEF Configuring

LEMMA ResetPortPhases ==
  ASSUME TypeInv, NEW p \in Ports, port_config_phase[p] = "NotConnected",
         reset_port(p, port_config_phase, addressing_port), kernel = "loop" => er # <<>>
  PROVE  PhasesKept /\ EventsLeft(Rest)
<1>1. er \in Seq(Events) BY DEF TypeInv
<1>2. /\ EventsLeft(Rest)
      /\ \/ port_config_phase' = port_config_phase
         \/ \E x : port_config_phase' = [port_config_phase EXCEPT ![p] = x]
  BY <1>1, ResetPort, Zenon
<1>3. port_config_phase[p] \notin Configuring BY NotConfiguring, Zenon
<1> QED BY <1>2, <1>3, PhaseSet, ZenonT(60) DEF PhasesKept

LEMMA PortEventSlot ==
  ASSUME TypeInv, kernel = "loop", er # <<>>, Head(er).type = 34, on_port_status_change(Head(er)),
         NEW s \in Slots, SlotInv(s)
  PROVE  SlotInv(s)'
<1> DEFINE p == Head(er).port
<1>1. er \in Seq(Events) BY DEF TypeInv
<1>2. Head(er) \in Events BY <1>1, TailFacts, Zenon
<1>3. p \in Ports BY <1>2, EventFacts, Zenon
<1>4. Head(er) \notin ReportOf(s) BY SlotSets, TypesDiffer, ZenonT(60)
<1>5. UNCHANGED <<devices, transfers, causes>> BY DEF on_port_status_change
<1>6. ASSUME PhasesKept, EventsLeft(Rest), cr' = cr \/ cr' = Append(cr, EnableSlotCommandTRB)
      PROVE  SlotInv(s)'
  <2>1. EnableSlotCommandTRB \in Commands /\ EnableSlotCommandTRB.type = 9 BY NewCommands, Zenon
  <2>2. EnableSlotCommandTRB \notin CommandOf(11, s) /\ EnableSlotCommandTRB \notin CommandOf(12, s)
    BY <2>1 DEF CommandOf
  <2>3. cr' = cr \/ \E c \in Commands : cr' = Append(cr, c) /\ c \notin CommandOf(11, s) /\ c \notin CommandOf(12, s)
    BY <1>6, <2>1, <2>2, ZenonT(60)
  <2>4. devices'[s] = devices[s] /\ transfers'[s] = transfers[s] /\ causes \subseteq causes' BY <1>5, Zenon
  <2> QED BY <1>4, <1>6, <2>3, <2>4, OtherSlot, Zenon
<1>7. CASE port_config_phase[p] = "NotConnected"
  <2>1. reset_port(p, port_config_phase, addressing_port) /\ cr' = cr BY <1>7 DEF on_port_status_change
  <2> QED BY <1>3, <1>6, <1>7, <2>1, ResetPortPhases, ZenonT(60)
<1>8. CASE port_config_phase[p] = "ResettingPort"
  <2>1. enable_slot(p) BY <1>8 DEF on_port_status_change
  <2>2. EventsLeft(Rest) /\ (cr' = cr \/ cr' = Append(cr, EnableSlotCommandTRB))
    BY <2>1, Zenon DEF enable_slot, EventsLeft
  <2>3. PhasesKept
    <3>1. port_config_phase' = port_config_phase \/ port_config_phase' = [port_config_phase EXCEPT ![p] = "EnablingSlot"]
      BY <2>1, Zenon DEF enable_slot
    <3>2. port_config_phase[p] \notin Configuring BY <1>8, NotConfiguring, Zenon
    <3> QED BY <3>1, <3>2, PhaseSet, ZenonT(60) DEF PhasesKept
  <2> QED BY <1>6, <2>2, <2>3, SMTT(30)
<1>9. CASE port_config_phase[p] \notin {"NotConnected", "ResettingPort"}
  <2>1. NoReset /\ UNCHANGED <<port_config_phase, addressing_port, cr>> BY <1>9 DEF on_port_status_change
  <2>2. EventsLeft(Rest) /\ PhasesKept BY <2>1, Zenon DEF NoReset, EventsLeft, PhasesKept
  <2> QED BY <1>6, <2>1, <2>2, Zenon
<1> QED BY <1>7, <1>8, <1>9, ZenonT(60)

\* A device is told apart from the device of another slot
LEMMA DrivesOther ==
  ASSUME TypeInv, NEW t \in Slots, NEW n, Drives(t, n), NEW s \in Slots, s # t
  PROVE  devices'[s] = devices[s] /\ transfers'[s] = transfers[s]
BY Zenon DEF TypeInv, Drives

LEMMA DrivesOwn ==
  ASSUME TypeInv, NEW s \in Slots, NEW n, Drives(s, n)
  PROVE  devices'[s] = n.dev /\ transfers'[s] = n.trs
BY Zenon DEF TypeInv, Drives

LEMMA CommandElsewhere ==
  ASSUME NEW s \in Slots, NEW t \in Slots, s # t, NEW c \in {AddressDeviceCommandTRB(t), ConfigureEndpointCommandTRB(t)}
  PROVE  c \in Commands /\ c \notin CommandOf(11, s) /\ c \notin CommandOf(12, s)
<1>1. c \in Commands /\ c.slot = t BY NewCommands, Zenon
<1> QED BY <1>1, Zenon DEF CommandOf

\* The completion of AddressDevice: the slot of the device is clean, and no other such
\* command is pending
LEMMA AddressedSlot ==
  ASSUME TypeInv, AddressInv, kernel = "loop", er # <<>>, NEW s \in Slots, SlotInv(s),
         Head(er) \in CompletionOf(11, s), DeviceAddressed(s)
  PROVE  SlotInv(s)'
<1> DEFINE n == start_initializing(devices[s], transfers[s])
<1>1. er \in Seq(Events) /\ devices[s] \in DeviceSet /\ transfers[s] \in Pipes BY ZenonT(60) DEF TypeInv
<1>2. SameDevice(devices[s], n) /\ n.dev.hid = devices[s].hid /\ n.trs.interrupt = transfers[s].interrupt
  BY <1>1, DeviceStarts
<1>3. devices'[s] = n.dev /\ transfers'[s] = n.trs BY DrivesOwn, Zenon DEF DeviceAddressed
<1>4. cr' = cr /\ EventsLeft(Rest) BY NextWaiting, ZenonT(60) DEF DeviceAddressed
<1> HIDE DEF n
<1>5. Head(er) = er[1] /\ 1 \in DOMAIN er BY <1>1, TailFacts
<1>6. Pending(11, s) BY <1>5, Zenon DEF Pending, Has
<1>7. devices[s].allocated /\ Clean(s) BY <1>6, Zenon DEF SlotInv, CleanFirst
<1>8. Head(er) \in AnswerTo(11) BY DEF CompletionOf, CommandOf, AnswerTo
<1>9. Has(er, Answering) /\ Head(er) \in Answering BY <1>5, <1>8, Zenon DEF Has, Answering
<1>10. ~Has(cr', Asking) BY <1>4, <1>9, ZenonT(60) DEF AddressInv, TokenInv
<1>11. ~Has(er', Answering) BY <1>4, <1>9, RestAnswers, ZenonT(60) DEF AddressInv
<1>12. CommandOf(11, s) \subseteq Asking /\ CompletionOf(11, s) \subseteq Answering
  BY DEF CommandOf, CompletionOf, Asking, AskFor, Answering, AnswerTo
<1>13. ~(Pending(11, s))' BY <1>10, <1>11, <1>12, HasSubset, ZenonT(60) DEF Pending
<1>14. devices'[s].allocated /\ devices'[s].hid = 0 /\ transfers'[s].interrupt = <<>>
  BY <1>2, <1>3, <1>7, ZenonT(60) DEF SameDevice, Clean
<1>15. ~Has(er', TransferOf(s)) /\ ~Has(er', CompletionOf(12, s)) /\ ~Has(cr', CommandOf(12, s))
  <2>1. ~Has(er, TransferOf(s)) /\ ~Has(er, CompletionOf(12, s)) /\ ~Has(cr, CommandOf(12, s))
    BY <1>7, Zenon DEF Clean, Pending
  <2> QED BY <1>4, <2>1, EventsPopped, NoPortEvents, ZenonT(60)
<1>16. ~Has(er', ReportOf(s)) BY <1>15, HasSubset, SlotSets, ZenonT(60)
<1>17. CleanFirst(s)' BY <1>13, <1>14, ZenonT(60) DEF CleanFirst
<1>18. ConfiguredOnce(s)' BY <1>14, <1>15, HasNone, ZenonT(60) DEF ConfiguredOnce, Pending
<1>19. devices'[s].hid # 2 BY <1>14
<1>20. OneReport(s)' BY <1>14, <1>16, <1>19, HasNone, ZenonT(60) DEF OneReport
<1> QED BY <1>17, <1>18, <1>20, ZenonT(60) DEF SlotInv

\* A slot that was free gets a device
LEMMA EnabledSlot ==
  ASSUME TypeInv, kernel = "loop", er # <<>>, NEW s \in Slots, SlotInv(s), SlotEnabled(s)
  PROVE  SlotInv(s)'
<1>1. Clean(s) /\ ~Pending(12, s) BY Zenon DEF SlotInv, CleanFirst, SlotEnabled, Clean
<1>2. devices'[s] = Device BY ZenonT(60) DEF TypeInv, SlotEnabled
<1>3. devices'[s].allocated /\ devices'[s].hid = 0 BY <1>2 DEF Device
<1>4. EventsLeft(Rest) /\ transfers' = transfers BY Zenon DEF SlotEnabled, NoReset, EventsLeft
<1>5. ~Has(er', TransferOf(s)) /\ ~Has(er', CompletionOf(12, s))
  <2>1. ~Has(er, TransferOf(s)) /\ ~Has(er, CompletionOf(12, s)) BY <1>1, Zenon DEF Clean, Pending
  <2> QED BY <1>4, <2>1, EventsPopped, NoPortEvents, ZenonT(60)
<1>6. ~Has(cr', CommandOf(12, s))
  <2>1. cr \in Seq(Commands) /\ ~Has(cr, CommandOf(12, s)) BY <1>1, Zenon DEF TypeInv, Pending
  <2>2. AddressDeviceCommandTRB(s) \in Commands /\ AddressDeviceCommandTRB(s).type = 11 BY NewCommands, ZenonT(60)
  <2>3. AddressDeviceCommandTRB(s) \notin CommandOf(12, s) BY <2>2 DEF CommandOf
  <2>4. cr' = Append(cr, AddressDeviceCommandTRB(s)) BY Zenon DEF SlotEnabled
  <2>5. Has(cr', CommandOf(12, s)) => Has(cr, CommandOf(12, s)) \/ AddressDeviceCommandTRB(s) \in CommandOf(12, s)
    BY <2>1, <2>2, <2>4, AppendOnce, SMTT(30)
  <2> QED BY <2>1, <2>3, <2>5, ZenonT(60)
<1>7. Clean(s)' BY <1>1, <1>3, <1>4, <1>5, <1>6, ZenonT(60) DEF Clean, Pending
<1>8. CleanFirst(s)' BY <1>3, <1>7, Zenon DEF CleanFirst
<1> QED BY <1>7, <1>8, CleanSlot, ZenonT(60)

\* The endpoints of a device are ready
LEMMA ReadySlot ==
  ASSUME TypeInv, kernel = "loop", er # <<>>, NEW s \in Slots, SlotInv(s),
         Head(er) \in CompletionOf(12, s), EndpointsReady(s)
  PROVE  SlotInv(s)'
<1> DEFINE n == hid_on_endpoint_configured(devices[s], transfers[s])
<1>1. er \in Seq(Events) /\ devices[s] \in DeviceSet /\ transfers[s] \in Pipes
      /\ port_config_phase \in [AllPorts -> ConfigPhase]
  BY ZenonT(60) DEF TypeInv
<1>2. SameDevice(devices[s], n) /\ n.dev.hid = 1 /\ n.trs.interrupt = transfers[s].interrupt
  BY <1>1, EndpointsConfigured
<1>3. devices'[s] = n.dev /\ transfers'[s] = n.trs BY DrivesOwn, Zenon DEF EndpointsReady
<1>4. cr' = cr /\ EventsLeft(Rest) BY Zenon DEF EndpointsReady, NoReset, EventsLeft
<1> HIDE DEF n
<1>5. Head(er) = er[1] /\ 1 \in DOMAIN er BY <1>1, TailFacts
<1>6. Has(er, CompletionOf(12, s)) BY <1>5, Zenon DEF Has
<1>7. Pending(12, s) /\ ~Has(cr', CommandOf(12, s)) BY <1>4, <1>6, Zenon DEF Pending, SlotInv, ConfiguredOnce
<1>8. ~Has(er', CompletionOf(12, s))
  BY <1>4, EventsPopped, NoPortEvents, ZenonT(60) DEF SlotInv, ConfiguredOnce
<1>9. devices[s].hid = 0 BY <1>7, Zenon DEF SlotInv, ConfiguredOnce
<1>10. devices[s].allocated /\ ~Pending(11, s) BY <1>7, Zenon DEF SlotInv, CleanFirst, Clean
<1>11. ~(Pending(11, s))' BY <1>4, <1>10, EventsPopped, NoPortEvents, ZenonT(60) DEF Pending
<1>12. CleanFirst(s)' BY <1>2, <1>3, <1>10, <1>11, ZenonT(60) DEF CleanFirst, SameDevice
<1>13. port_config_phase'[devices'[s].number] = "Configured"
  <2>1. devices[s].number \in AllPorts /\ devices'[s].number = devices[s].number
    BY <1>1, <1>2, <1>3 DEF SameDevice, DeviceSet
  <2> QED BY <1>1, <2>1, ZenonT(60) DEF EndpointsReady
<1>14. ConfiguredOnce(s)'
  BY <1>7, <1>8, <1>13, HasNone, NotConfiguring, ZenonT(60) DEF ConfiguredOnce, Pending
<1>15. devices[s].hid # 2 /\ devices'[s].hid # 2 BY <1>2, <1>3, <1>9
<1>16. transfers[s].interrupt = <<>> /\ ~Has(er, ReportOf(s)) BY <1>15, Zenon DEF SlotInv, OneReport
<1>17. ~Has(er', ReportOf(s)) BY <1>4, <1>16, EventsPopped, NoPortEvents, ZenonT(60)
<1>18. OneReport(s)' BY <1>2, <1>3, <1>15, <1>16, <1>17, HasNone, ZenonT(60) DEF OneReport
<1> QED BY <1>12, <1>14, <1>18, ZenonT(60) DEF SlotInv

LEMMA StageFacts ==
  /\ NormalTRB.type = 1 /\ \A c \in Controls : c.type # 1 /\ c # NormalTRB
  /\ \A t \in Stages : t.type = 1 => t = NormalTRB
BY DEF Stages, Controls, NormalTRB

LEMMA InterruptFacts ==
  /\ Append(<<>>, NormalTRB) = <<NormalTRB>> /\ <<NormalTRB>> # <<>>
  /\ Tail(<<NormalTRB>>) = <<>> /\ Head(<<NormalTRB>>) = NormalTRB
OBVIOUS

\* The event of a transfer of slot s
LEMMA TransferSlot ==
  ASSUME TypeInv, kernel = "loop", er # <<>>, NEW s \in Slots, SlotInv(s),
         Head(er) \in TransferOf(s), on_transfer(Head(er)), causes = {} => ~Has(er, FailedReports)
  PROVE  SlotInv(s)'
<1> DEFINE e == Head(er)
<1>1. /\ er \in Seq(Events) /\ cr \in Seq(Commands) /\ devices[s] \in DeviceSet /\ transfers[s] \in Pipes
      /\ port_config_phase \in [AllPorts -> ConfigPhase]
  BY Zenon DEF TypeInv
<1>2. e \in Events /\ e.type = 32 /\ e.slot = s BY Zenon DEF TransferOf
<1>3. e.issuer \in Stages /\ e.ok \in BOOLEAN BY <1>2, EventFacts, ZenonT(60)
<1>4. Head(er) = er[1] /\ 1 \in DOMAIN er BY <1>1, TailFacts
<1>5. devices[s].allocated /\ ~Pending(11, s)
  <2>1. Has(er, TransferOf(s)) BY <1>4, Zenon DEF Has
  <2> QED BY <2>1, Zenon DEF SlotInv, CleanFirst, Clean
<1>6. PICK n : /\ SameDevice(devices[s], n) /\ Drives(s, n)
               /\ \/ n.dev.hid = devices[s].hid /\ n.trs.interrupt = transfers[s].interrupt
                     /\ (e.ok => e.issuer.type # 1)
                  \/ n.dev.hid = devices[s].hid /\ e.ok /\ e.issuer.type = 1
                     /\ n.trs.interrupt = Append(transfers[s].interrupt, NormalTRB)
                  \/ devices[s].hid = 1 /\ n.dev.hid = 2 /\ e.ok /\ e.issuer.type # 1
                     /\ n.trs.interrupt = Append(transfers[s].interrupt, NormalTRB)
  BY <1>2, TransferDevice, Zenon
<1>7. devices'[s] = n.dev /\ transfers'[s] = n.trs BY <1>6, DrivesOwn, ZenonT(60)
<1>8. /\ NoReset
      /\ \/ port_config_phase' = port_config_phase /\ cr' = cr
         \/ /\ port_config_phase[devices[s].number] = "InitializingDevice"
            /\ port_config_phase' = [port_config_phase EXCEPT ![devices[s].number] = "ConfiguringEndpoints"]
            /\ cr' = Append(cr, ConfigureEndpointCommandTRB(s))
      /\ causes \subseteq causes'
  BY <1>2, TransferRest, ZenonT(60)
<1>9. EventsLeft(Rest) BY <1>8, ZenonT(60) DEF NoReset, EventsLeft
<1>10. /\ devices'[s].allocated = devices[s].allocated /\ devices'[s].number = devices[s].number
       /\ devices[s].number \in AllPorts
  BY <1>1, <1>6, <1>7, SMTT(30) DEF SameDevice, DeviceSet
<1>11. \A m : Has(er', CompletionOf(m, s)) => Has(er, CompletionOf(m, s)) BY <1>9, EventsPopped, NoPortEvents, ZenonT(60)
<1>12. ConfigureEndpointCommandTRB(s) \in Commands /\ ConfigureEndpointCommandTRB(s).type = 12
  BY NewCommands, Zenon
<1>13. ConfigureEndpointCommandTRB(s) \notin CommandOf(11, s) BY <1>12 DEF CommandOf
<1>14. \A M : Has(cr', M) => Has(cr, M) \/ ConfigureEndpointCommandTRB(s) \in M
  BY <1>1, <1>8, <1>12, AppendOnce, ZenonT(60)
<1>15. CleanFirst(s)'
  <2>1. ~(Pending(11, s))' BY <1>5, <1>11, <1>13, <1>14, Zenon DEF Pending
  <2> QED BY <1>5, <1>10, <2>1, Zenon DEF CleanFirst
<1>16. devices[s].hid \in 0..2 /\ devices'[s].hid \in 0..2 BY <1>1, <1>6, <1>7 DEF SameDevice, DeviceSet
<1>17. devices'[s].hid = devices[s].hid \/ (devices[s].hid # 0 /\ devices'[s].hid = 2)
  BY <1>6, <1>7, <1>16
<1>18. AtMostOne(er', CompletionOf(12, s)) BY <1>9, EventsPopped, NoPortEvents, ZenonT(60) DEF SlotInv, ConfiguredOnce
<1>19. ConfiguredOnce(s)'
  <2>1. CASE port_config_phase' = port_config_phase /\ cr' = cr
    <3>1. (Pending(12, s))' => Pending(12, s) BY <1>11, <2>1, ZenonT(60) DEF Pending
    <3>2. devices'[s].hid # 0 => devices[s].hid # 0 BY <1>17
    <3> QED BY <1>10, <1>11, <1>18, <2>1, <3>1, <3>2, ZenonT(60) DEF SlotInv, ConfiguredOnce
  <2>2. CASE /\ port_config_phase[devices[s].number] = "InitializingDevice"
             /\ port_config_phase' = [port_config_phase EXCEPT ![devices[s].number] = "ConfiguringEndpoints"]
             /\ cr' = Append(cr, ConfigureEndpointCommandTRB(s))
    <3>1. port_config_phase[devices[s].number] \notin Configuring BY <2>2, NotConfiguring, ZenonT(60)
    <3>2. devices[s].hid = 0 /\ ~Pending(12, s) BY <3>1, ZenonT(60) DEF SlotInv, ConfiguredOnce
    <3>3. devices'[s].hid = 0 BY <1>17, <3>2
    <3>4. ~Has(er', CompletionOf(12, s)) BY <1>11, <3>2, ZenonT(60) DEF Pending
    <3>5. ~Has(cr, CommandOf(12, s)) BY <3>2, ZenonT(60) DEF Pending
    <3>6. AtMostOne(cr', CommandOf(12, s))
      <4>1. AtMostOne(cr, CommandOf(12, s)) BY <3>5, HasNone, ZenonT(60)
      <4> QED BY <1>1, <1>12, <2>2, <3>5, <4>1, AppendOnce, SMTT(30)
    <3>7. port_config_phase'[devices'[s].number] = "ConfiguringEndpoints" BY <1>1, <1>10, <2>2, ZenonT(60)
    <3> QED BY <1>18, <3>3, <3>4, <3>6, <3>7, NotConfiguring, ZenonT(60) DEF ConfiguredOnce
  <2> QED BY <1>8, <2>1, <2>2, ZenonT(60)
<1>20. /\ Has(er', ReportOf(s)) => Has(er, ReportOf(s))
       /\ AtMostOne(er', ReportOf(s))
       /\ e \in ReportOf(s) => ~Has(er', ReportOf(s))
       /\ e \notin ReportOf(s) => (Has(er, ReportOf(s)) => Has(er', ReportOf(s)))
  BY <1>9, EventsPopped, NoPortEvents, ZenonT(60) DEF SlotInv, OneReport
<1>21. e \in ReportOf(s) <=> e.issuer.type = 1
  BY <1>3, StageFacts, ZenonT(60) DEF ReportOf
<1>22. Has(er, ReportOf(s)) \/ transfers[s].interrupt # <<>> => devices[s].hid = 2
  BY Zenon DEF SlotInv, OneReport
<1>23. OneReport(s)'
  <2>1. CASE n.dev.hid = devices[s].hid /\ n.trs.interrupt = transfers[s].interrupt /\ (e.ok => e.issuer.type # 1)
    <3>1. CASE e \notin ReportOf(s)
      <4>1. causes' = {} => causes = {} BY <1>8, Zenon
      <4> QED BY <1>7, <1>20, <2>1, <3>1, <4>1, ZenonT(60) DEF SlotInv, OneReport
    <3>2. CASE e \in ReportOf(s)
      <4>1. ~e.ok BY <1>21, <2>1, <3>2, ZenonT(60)
      <4>2. e \in FailedReports BY <1>2, <3>2, <4>1, ZenonT(60) DEF ReportOf, FailedReports
      <4>3. Has(er, FailedReports) BY <1>4, <4>2, ZenonT(60) DEF Has
      <4>4. causes' # {} BY <1>8, <4>3, ZenonT(60)
      <4>5. Has(er, ReportOf(s)) BY <1>4, <3>2, ZenonT(60) DEF Has
      <4> QED BY <1>7, <1>20, <1>22, <2>1, <3>2, <4>4, <4>5, ZenonT(60) DEF SlotInv, OneReport
    <3> QED BY <3>1, <3>2
  <2>2. CASE /\ n.dev.hid = devices[s].hid /\ e.issuer.type = 1
             /\ n.trs.interrupt = Append(transfers[s].interrupt, NormalTRB)
    <3>1. e \in ReportOf(s) BY <1>21, <2>2, ZenonT(60)
    <3>2. Has(er, ReportOf(s)) BY <1>4, <3>1, ZenonT(60) DEF Has
    <3>3. transfers[s].interrupt = <<>> /\ devices'[s].hid = 2 BY <1>7, <1>22, <2>2, <3>2, ZenonT(60) DEF SlotInv, OneReport
    <3>4. transfers'[s].interrupt = <<NormalTRB>> BY <1>7, <2>2, <3>3, InterruptFacts, ZenonT(60)
    <3> QED BY <1>20, <3>1, <3>3, <3>4, InterruptFacts, ZenonT(60) DEF OneReport
  <2>3. CASE /\ devices[s].hid = 1 /\ n.dev.hid = 2
             /\ n.trs.interrupt = Append(transfers[s].interrupt, NormalTRB)
    <3>1. devices[s].hid # 2 BY <2>3
    <3>2. transfers[s].interrupt = <<>> /\ ~Has(er', ReportOf(s)) BY <1>20, <3>1, ZenonT(60) DEF SlotInv, OneReport
    <3>3. transfers'[s].interrupt = <<NormalTRB>> BY <1>7, <2>3, <3>2, InterruptFacts, ZenonT(60)
    <3> QED BY <1>7, <1>20, <2>3, <3>2, <3>3, InterruptFacts, ZenonT(60) DEF OneReport
  <2> QED BY <1>6, <2>1, <2>2, <2>3, ZenonT(60)
<1> QED BY <1>15, <1>19, <1>23, ZenonT(60) DEF SlotInv

\* A device answers a transfer of its slot
LEMMA AnswerSlot ==
  ASSUME TypeInv, NEW s \in Slots, SlotInv(s), NEW pipe \in {"control", "interrupt"}, Transfer(s, pipe)
  PROVE  SlotInv(s)'
<1> DEFINE t == transfers[s]
<1>1. er \in Seq(Events) /\ transfers \in [Slots -> Pipes] /\ t \in Pipes BY Zenon DEF TypeInv
<1>2. /\ t[pipe] # <<>> /\ Head(t[pipe]) \in Stages /\ (pipe = "control" => Head(t[pipe]) \in Controls)
      /\ transfers' = [transfers EXCEPT ![s] = [t EXCEPT ![pipe] = Tail(t[pipe])]]
      /\ \E ok \in BOOLEAN : er' = Append(er, TransferEventTRB(s, Head(t[pipe]), ok))
  BY TransferFacts, Zenon
<1>3. PICK ok \in BOOLEAN : er' = Append(er, TransferEventTRB(s, Head(t[pipe]), ok)) BY <1>2, ZenonT(60)
<1> DEFINE e == TransferEventTRB(s, Head(t[pipe]), ok)
<1>4. e \in Events /\ e.type = 32 /\ e.slot = s /\ e.issuer = Head(t[pipe]) BY <1>2, TransferEvent
<1>5. er' = Append(er, e) BY <1>3
<1>6. UNCHANGED <<port_config_phase, devices, cr>> /\ causes \subseteq causes' BY Zenon DEF Transfer, Fault
<1>7. transfers'[s] = [t EXCEPT ![pipe] = Tail(t[pipe])] BY <1>1, <1>2, Zenon
<1> HIDE DEF e, t
<1>8. \A M : Has(er', M) <=> Has(er, M) \/ e \in M BY <1>1, <1>4, <1>5, AppendOnce, ZenonT(60)
<1>9. \A m : e \notin CompletionOf(m, s) BY <1>4, SlotSets, TypesDiffer, ZenonT(60)
<1>10. ~Clean(s) BY <1>2, Zenon DEF Clean, t
<1>11. CleanFirst(s)' BY <1>6, <1>8, <1>9, <1>10, Zenon DEF SlotInv, CleanFirst, Pending
<1>12. AtMostOne(er', CompletionOf(12, s))
  <2>1. AtMostOne(er, CompletionOf(12, s)) BY Zenon DEF SlotInv, ConfiguredOnce
  <2>2. e \notin CompletionOf(12, s) BY <1>9, Zenon
  <2> QED BY <1>1, <1>4, <1>5, <2>1, <2>2, AppendOnce
<1>13. ConfiguredOnce(s)'
  BY <1>6, <1>8, <1>9, <1>12, ZenonT(60) DEF SlotInv, ConfiguredOnce, Pending
<1>14. AtMostOne(er, ReportOf(s)) BY Zenon DEF SlotInv, OneReport
<1>15. CASE pipe = "control"
  <2>1. e \notin ReportOf(s) BY <1>2, <1>4, <1>15, StageFacts, ZenonT(60) DEF ReportOf
  <2>2. transfers'[s].interrupt = t.interrupt BY <1>1, <1>7, <1>15, ZenonT(60) DEF Pipes
  <2>3. AtMostOne(er', ReportOf(s)) BY <1>1, <1>4, <1>5, <1>14, <2>1, AppendOnce, ZenonT(60)
  <2>4. causes' = {} => causes = {} BY <1>6, Zenon
  <2>5. OneReport(s)' BY <1>6, <1>8, <2>1, <2>2, <2>3, <2>4, ZenonT(60) DEF SlotInv, OneReport, t
  <2> QED BY <1>11, <1>13, <2>5, ZenonT(60) DEF SlotInv
<1>16. CASE pipe = "interrupt"
  <2>1. t.interrupt = <<NormalTRB>> /\ ~Has(er, ReportOf(s)) BY <1>2, <1>16, Zenon DEF SlotInv, OneReport, t
  <2>2. e.issuer = NormalTRB BY <1>4, <1>16, <2>1, InterruptFacts, ZenonT(60)
  <2>3. e \in ReportOf(s) BY <1>4, <2>2, ZenonT(60) DEF ReportOf, TransferOf
  <2>4. transfers'[s].interrupt = <<>>
    <3>1. transfers'[s].interrupt = Tail(t.interrupt) BY <1>1, <1>7, <1>16, ZenonT(60) DEF Pipes
    <3> QED BY <2>1, <3>1, InterruptFacts, ZenonT(60)
  <2>5. AtMostOne(er', ReportOf(s)) BY <1>1, <1>4, <1>5, <1>14, <2>1, AppendOnce, ZenonT(60)
  <2>6. devices[s].hid = 2 BY <1>2, <1>16, Zenon DEF SlotInv, OneReport, t
  <2>7. OneReport(s)' BY <1>6, <1>8, <2>3, <2>4, <2>5, <2>6, ZenonT(60) DEF OneReport
  <2> QED BY <1>11, <1>13, <2>7, ZenonT(60) DEF SlotInv
<1> QED BY <1>15, <1>16, ZenonT(60)

\* A transfer of another slot, and the events of ports
LEMMA SlotElsewhere ==
  ASSUME TypeInv, NEW s \in Slots, SlotInv(s), UNCHANGED <<port_config_phase, devices, cr>>,
         transfers'[s] = transfers[s], causes \subseteq causes',
         NEW e \in Events, er' = er \/ er' = Append(er, e),
         e \notin TransferOf(s), \A n : e \notin CompletionOf(n, s)
  PROVE  SlotInv(s)'
<1>1. er \in Seq(Events) BY DEF TypeInv
<1>2. ASSUME NEW M, e \notin M PROVE Has(er', M) <=> Has(er, M)
  <2>1. CASE er' = er BY <2>1, ZenonT(60)
  <2>2. CASE er' = Append(er, e) BY <1>1, <1>2, <2>2, AppendOnce
  <2> QED BY <2>1, <2>2, Zenon
<1>3. e \notin ReportOf(s) BY SlotSets, Zenon
<1>4. ASSUME NEW M, e \notin M, AtMostOne(er, M) PROVE AtMostOne(er', M)
  <2>1. CASE er' = er BY <1>4, <2>1, Zenon
  <2>2. CASE er' = Append(er, e) BY <1>1, <1>4, <2>2, AppendOnce, ZenonT(60)
  <2> QED BY <2>1, <2>2, Zenon
<1>5. AtMostOne(er', ReportOf(s)) BY <1>3, <1>4, Zenon DEF SlotInv, OneReport
<1>6. AtMostOne(er', CompletionOf(12, s)) BY <1>4, Zenon DEF SlotInv, ConfiguredOnce
<1>7. \A n : (Pending(n, s))' => Pending(n, s) BY <1>2, Zenon DEF Pending
<1>8. /\ Has(er', TransferOf(s)) => Has(er, TransferOf(s))
      /\ Has(er', ReportOf(s)) <=> Has(er, ReportOf(s))
  BY <1>2, <1>3, ZenonT(60)
<1>9. /\ AtMostOne(cr', CommandOf(12, s))
      /\ ~(Has(cr', CommandOf(12, s)) /\ Has(er', CompletionOf(12, s)))
  BY <1>2, Zenon DEF SlotInv, ConfiguredOnce
<1>10. PhasesKept BY Zenon DEF PhasesKept
<1>11. SlotFrame(s) BY <1>5, <1>6, <1>7, <1>8, <1>9, ZenonT(60) DEF SlotFrame
<1> QED BY <1>10, <1>11, SlotKept, ZenonT(60)

LEMMA TransferFrame ==
  ASSUME TypeInv, NEW s \in Slots, SlotInv(s), NEW m \in Slots, NEW pipe \in {"control", "interrupt"},
         Transfer(m, pipe)
  PROVE  SlotInv(s)'
<1>1. CASE m = s BY <1>1, AnswerSlot, Zenon
<1>2. CASE m # s
  <2>1. UNCHANGED <<port_config_phase, devices, cr>> /\ causes \subseteq causes' BY Zenon DEF Transfer, Fault
  <2>2. transfers'[s] = transfers[s] BY <1>2, Zenon DEF TypeInv, Transfer
  <2>3. Head(transfers[m][pipe]) \in Stages BY TransferFacts, Zenon
  <2>4. PICK ok \in BOOLEAN : er' = Append(er, TransferEventTRB(m, Head(transfers[m][pipe]), ok))
    BY TransferFacts, Zenon
  <2> DEFINE e == TransferEventTRB(m, Head(transfers[m][pipe]), ok)
  <2>5. e \in Events /\ e.type = 32 /\ e.slot = m BY <2>3, TransferEvent
  <2>6. er' = Append(er, e) BY <2>4
  <2> HIDE DEF e
  <2>7. e \notin TransferOf(s) BY <1>2, <2>5, Zenon DEF TransferOf
  <2>8. \A n : e \notin CompletionOf(n, s) BY <2>5, SlotSets, TypesDiffer, ZenonT(60)
  <2> QED BY <2>1, <2>2, <2>5, <2>6, <2>7, <2>8, SlotElsewhere, ZenonT(60)
<1> QED BY <1>1, <1>2

\* The controller executes a command: a command about the slot is answered, and the number
\* of the device may change while it is getting its address
LEMMA CommandSlot ==
  ASSUME TypeInv, AddressInv, NEW s \in Slots, SlotInv(s), Command
  PROVE  SlotInv(s)'
<1> DEFINE c == Head(cr)
<1>1. cr \in Seq(Commands) /\ er \in Seq(Events) /\ devices[s] \in DeviceSet
      /\ devices \in [Slots -> DeviceSet]
  BY Zenon DEF TypeInv
<1>2. /\ cr # <<>> /\ cr' = Tail(cr) /\ c \in Commands
      /\ UNCHANGED <<port_config_phase, transfers>> /\ causes \subseteq causes'
  BY CommandFacts, Zenon
<1>3. PICK m \in Slots : er' = Append(er, CommandCompletionEventTRB(m, c)) BY CommandFacts, Zenon
<1> DEFINE e == CommandCompletionEventTRB(m, c)
<1>4. e \in Events /\ e.type = 33 /\ e.issuer = c BY <1>2, CommandEvent
<1>5. er' = Append(er, e) BY <1>3
<1>6. Head(cr) = cr[1] /\ 1 \in DOMAIN cr BY <1>1, <1>2, TailFacts, SMTT(30)
<1>7. \/ devices' = devices
      \/ c.type = 11 /\ \E k \in AllPorts : devices' = [devices EXCEPT ![c.slot].number = k]
  BY CommandFacts, ZenonT(60)
<1> HIDE DEF c, e
<1>8. \A M : Has(er', M) <=> Has(er, M) \/ e \in M BY <1>1, <1>4, <1>5, AppendOnce, ZenonT(60)
<1>9. \A M : Has(cr', M) => Has(cr, M) BY <1>1, <1>2, TailHas, ZenonT(60)
<1>10. \A M : c \in M => Has(cr, M) BY <1>6, ZenonT(60) DEF Has, c
<1>11. \A n : e \in CompletionOf(n, s) <=> c \in CommandOf(n, s) BY <1>4, ZenonT(60) DEF CompletionOf
<1>12. e \notin TransferOf(s) /\ e \notin ReportOf(s) BY <1>4, SlotSets, TypesDiffer, ZenonT(60)
<1>13. \A n : (Pending(n, s))' => Pending(n, s) BY <1>8, <1>9, <1>10, <1>11, Zenon DEF Pending
<1>14. /\ AtMostOne(cr, CommandOf(12, s)) /\ AtMostOne(er, CompletionOf(12, s))
       /\ ~(Has(cr, CommandOf(12, s)) /\ Has(er, CompletionOf(12, s)))
  BY Zenon DEF SlotInv, ConfiguredOnce
<1>15. AtMostOne(cr', CommandOf(12, s)) /\ (c \in CommandOf(12, s) => ~Has(cr', CommandOf(12, s)))
  BY <1>1, <1>2, <1>14, TailOnce, ZenonT(60) DEF c
<1>16. c \in CommandOf(12, s) => ~Has(er, CompletionOf(12, s)) BY <1>10, <1>14, ZenonT(60)
<1>17. AtMostOne(er', CompletionOf(12, s))
  <2>1. Has(er, CompletionOf(12, s)) => e \notin CompletionOf(12, s) BY <1>11, <1>16, ZenonT(60)
  <2> QED BY <1>1, <1>4, <1>5, <1>14, <2>1, AppendOnce, SMTT(30)
<1>18. ~(Has(cr', CommandOf(12, s)) /\ Has(er', CompletionOf(12, s)))
  BY <1>8, <1>9, <1>11, <1>14, <1>15, ZenonT(60)
<1>19. AtMostOne(er', ReportOf(s))
  <2>1. AtMostOne(er, ReportOf(s)) BY Zenon DEF SlotInv, OneReport
  <2> QED BY <1>1, <1>4, <1>5, <1>12, <2>1, AppendOnce, SMTT(30)
<1>20. /\ Has(er', TransferOf(s)) => Has(er, TransferOf(s))
       /\ Has(er', ReportOf(s)) <=> Has(er, ReportOf(s))
  BY <1>8, <1>12, ZenonT(60)
<1>21. /\ devices'[s].hid = devices[s].hid /\ devices'[s].allocated = devices[s].allocated
       /\ devices'[s].number = devices[s].number \/ Pending(11, s)
  <2>1. CASE devices' = devices BY <2>1, ZenonT(60)
  <2>2. ASSUME c.type = 11, NEW k \in AllPorts, devices' = [devices EXCEPT ![c.slot].number = k]
        PROVE  <1>21
    <3>1. CASE c.slot # s
      <4>1. devices'[s] = devices[s] BY <1>1, <2>2, <3>1, ZenonT(60)
      <4> QED BY <4>1, Zenon
    <3>2. CASE c.slot = s
      <4>1. devices'[s] = [devices[s] EXCEPT !.number = k] BY <1>1, <2>2, <3>2, ZenonT(60)
      <4>2. devices'[s].hid = devices[s].hid /\ devices'[s].allocated = devices[s].allocated
        BY <1>1, <4>1, ZenonT(60) DEF DeviceSet
      <4>3. c \in CommandOf(11, s) BY <1>2, <2>2, <3>2, ZenonT(60) DEF CommandOf, c
      <4> QED BY <1>10, <4>2, <4>3, ZenonT(60) DEF Pending
    <3> QED BY <3>1, <3>2
  <2> QED BY <1>7, <2>1, <2>2, ZenonT(60)
<1>22. PhasesKept BY <1>2, Zenon DEF PhasesKept
<1>23. SlotFrame(s)
  BY <1>2, <1>13, <1>15, <1>17, <1>18, <1>19, <1>20, <1>21, ZenonT(60) DEF SlotFrame
<1> QED BY <1>2, <1>22, <1>23, SlotKept, Zenon

LEMMA NextWaitingPhases ==
  ASSUME TypeInv, NEW p, next_waiting(p), kernel = "loop" => er # <<>>, port_config_phase[p] = "AddressingDevice"
  PROVE  PhasesKept
<1> DEFINE phase == [port_config_phase EXCEPT ![p] = "InitializingDevice"]
<1>1. port_config_phase \in [AllPorts -> ConfigPhase] BY DEF TypeInv
<1>2. \/ port_config_phase' = phase
      \/ \E q \in Ports : /\ port_config_phase[q] = "WaitingAddressed"
                          /\ port_config_phase' = [phase EXCEPT ![q] = "ResettingPort"]
  BY NextWaiting, Zenon
<1>3. \A r \in AllPorts : port_config_phase[r] \in Configuring => r # p /\ phase[r] = port_config_phase[r]
  BY <1>1, NotConfiguring, Zenon
<1>4. phase \in [AllPorts -> ConfigPhase] BY <1>1, PhaseNames, SetPhase, ZenonT(60)
<1> HIDE DEF phase
<1>5. ASSUME NEW q \in Ports, port_config_phase[q] = "WaitingAddressed",
             port_config_phase' = [phase EXCEPT ![q] = "ResettingPort"],
             NEW r \in AllPorts, port_config_phase[r] \in Configuring
      PROVE  port_config_phase'[r] \in Configuring
  <2>1. r # q BY <1>5, NotConfiguring, Zenon
  <2>2. port_config_phase'[r] = phase[r] BY <1>4, <1>5, <2>1, ZenonT(60)
  <2> QED BY <1>3, <1>5, <2>2, ZenonT(60)
<1> QED BY <1>2, <1>3, <1>5, ZenonT(60) DEF PhasesKept

LEMMA CompletionSlot ==
  ASSUME TypeInv, AddressInv, kernel = "loop", er # <<>>, Head(er).type = 33, ~Has(er, Misdirected),
         on_command_completion(Head(er)), NEW s \in Slots, SlotInv(s)
  PROVE  SlotInv(s)'
<1> DEFINE e == Head(er)
           m == Head(er).slot
<1>1. er \in Seq(Events) /\ devices \in [Slots -> DeviceSet] /\ addressing_port \in AllPorts
      /\ port_config_phase \in [AllPorts -> ConfigPhase]
  BY DEF TypeInv
<1>2. e \in Events BY <1>1, TailFacts, Zenon
<1>3. m \in Slots /\ e.issuer \in Commands BY <1>2, EventFacts, Zenon
<1>4. e \notin ReportOf(s) BY SlotSets, TypesDiffer, ZenonT(60)
<1>5. NoReset => EventsLeft(Rest) BY Zenon DEF NoReset, EventsLeft
<1>6. e.issuer.type # 9 => e.issuer.slot = m
  <2>1. Head(er) = er[1] /\ 1 \in DOMAIN er BY <1>1, TailFacts
  <2> QED BY <1>2, <2>1, ZenonT(60) DEF Misdirected, Has
<1>7. ASSUME m = s, e.issuer.type # 9 PROVE e \in CompletionOf(e.issuer.type, s)
  BY <1>2, <1>3, <1>6, <1>7, ZenonT(60) DEF CompletionOf, CommandOf
<1>8. CASE Refused
  <2>1. /\ devices'[s] = devices[s] /\ transfers'[s] = transfers[s] /\ cr' = cr /\ EventsLeft(Rest)
        /\ PhasesKept /\ causes \subseteq causes'
    BY <1>5, <1>8, ZenonT(60) DEF Refused, PhasesKept
  <2> QED BY <1>4, <2>1, OtherSlot, ZenonT(60)
<1>9. CASE e.issuer.type = 9 /\ SlotEnabled(m)
  <2>1. CASE m = s BY <1>9, <2>1, EnabledSlot, ZenonT(60)
  <2>2. CASE m # s
    <3>1. devices'[s] = devices[s] BY <1>1, <1>9, <2>2, ZenonT(60) DEF SlotEnabled
    <3>2. /\ transfers' = transfers /\ causes' = causes /\ EventsLeft(Rest)
          /\ cr' = Append(cr, AddressDeviceCommandTRB(m))
          /\ port_config_phase[addressing_port] = "EnablingSlot"
          /\ port_config_phase' = [port_config_phase EXCEPT ![addressing_port] = "AddressingDevice"]
      BY <1>5, <1>9, Zenon DEF SlotEnabled
    <3>3. PhasesKept BY <3>2, PhaseSet, NotConfiguring, ZenonT(60)
    <3>4. /\ AddressDeviceCommandTRB(m) \in Commands /\ AddressDeviceCommandTRB(m) \notin CommandOf(11, s)
          /\ AddressDeviceCommandTRB(m) \notin CommandOf(12, s)
      BY <1>3, <2>2, CommandElsewhere, ZenonT(60)
    <3>5. transfers'[s] = transfers[s] /\ causes \subseteq causes' BY <3>2, ZenonT(60)
    <3> QED BY <1>4, <3>1, <3>2, <3>3, <3>4, <3>5, OtherSlot, ZenonT(60)
  <2> QED BY <2>1, <2>2
<1>10. CASE e.issuer.type = 11 /\ DeviceAddressed(m)
  <2>1. CASE m = s
    <3>1. e.issuer.type # 9 BY <1>10
    <3>2. e \in CompletionOf(11, s) BY <1>7, <1>10, <2>1, <3>1, ZenonT(60)
    <3> QED BY <1>10, <2>1, <3>2, AddressedSlot, ZenonT(60)
  <2>2. CASE m # s
    <3>1. devices'[s] = devices[s] /\ transfers'[s] = transfers[s]
      BY <1>3, <1>10, <2>2, DrivesOther, ZenonT(60) DEF DeviceAddressed
    <3>2. cr' = cr /\ causes \subseteq causes' /\ EventsLeft(Rest) BY <1>10, NextWaiting, Zenon DEF DeviceAddressed
    <3>3. PhasesKept BY <1>10, NextWaitingPhases, ZenonT(60) DEF DeviceAddressed
    <3> QED BY <1>4, <3>1, <3>2, <3>3, OtherSlot, ZenonT(60)
  <2> QED BY <2>1, <2>2
<1>11. CASE e.issuer.type = 12 /\ EndpointsReady(m)
  <2>1. CASE m = s
    <3>1. e.issuer.type # 9 BY <1>11
    <3>2. e \in CompletionOf(12, s) BY <1>7, <1>11, <2>1, <3>1, ZenonT(60)
    <3> QED BY <1>11, <2>1, <3>2, ReadySlot, ZenonT(60)
  <2>2. CASE m # s
    <3>1. devices'[s] = devices[s] /\ transfers'[s] = transfers[s]
      BY <1>3, <1>11, <2>2, DrivesOther, ZenonT(60) DEF EndpointsReady
    <3>2. cr' = cr /\ causes \subseteq causes' /\ EventsLeft(Rest) BY <1>5, <1>11, ZenonT(60) DEF EndpointsReady
    <3>3. PhasesKept BY <1>11, PhaseSet, NotConfiguring, ZenonT(60) DEF EndpointsReady
    <3> QED BY <1>4, <3>1, <3>2, <3>3, OtherSlot, ZenonT(60)
  <2> QED BY <2>1, <2>2, SMTT(30)
<1> QED BY <1>2, <1>8, <1>9, <1>10, <1>11, CompletionCases, ZenonT(60)

LEMMA TransferEventSlot ==
  ASSUME TypeInv, kernel = "loop", er # <<>>, Head(er).type = 32, causes = {} => ~Has(er, FailedReports),
         on_transfer(Head(er)), NEW s \in Slots, SlotInv(s)
  PROVE  SlotInv(s)'
<1> DEFINE e == Head(er)
           m == Head(er).slot
<1>1. er \in Seq(Events) BY DEF TypeInv
<1>2. e \in Events BY <1>1, TailFacts, Zenon
<1>3. m \in Slots BY <1>2, EventFacts, ZenonT(60)
<1>4. CASE m = s
  <2>1. e \in TransferOf(s) BY <1>2, <1>4, Zenon DEF TransferOf
  <2> QED BY <2>1, TransferSlot, Zenon
<1>5. CASE m # s
  <2>1. \E n : Drives(m, n) BY <1>2, TransferDevice, Zenon
  <2>2. devices'[s] = devices[s] /\ transfers'[s] = transfers[s] BY <1>3, <1>5, <2>1, DrivesOther, ZenonT(60)
  <2>3. /\ NoReset
        /\ \/ port_config_phase' = port_config_phase /\ cr' = cr
           \/ /\ port_config_phase' = [port_config_phase EXCEPT ![devices[m].number] = "ConfiguringEndpoints"]
              /\ cr' = Append(cr, ConfigureEndpointCommandTRB(m))
        /\ causes' = causes \/ (causes' = {"memory"} /\ causes \subseteq {"memory"})
    BY <1>2, TransferRest, Zenon
  <2>4. EventsLeft(Rest) /\ causes \subseteq causes' BY <2>3, Zenon DEF NoReset, EventsLeft
  <2>5. PhasesKept
    <3>1. CASE port_config_phase' = port_config_phase BY <3>1, Zenon DEF PhasesKept
    <3>2. CASE port_config_phase' = [port_config_phase EXCEPT ![devices[m].number] = "ConfiguringEndpoints"]
      BY <3>2, PhaseSet, NotConfiguring, Zenon
    <3> QED BY <2>3, <3>1, <3>2, ZenonT(60)
  <2>6. /\ ConfigureEndpointCommandTRB(m) \in Commands /\ ConfigureEndpointCommandTRB(m) \notin CommandOf(11, s)
        /\ ConfigureEndpointCommandTRB(m) \notin CommandOf(12, s)
    BY <1>3, <1>5, CommandElsewhere, ZenonT(60)
  <2>7. e \notin ReportOf(s) BY <1>5, Zenon DEF ReportOf, TransferOf
  <2>8. cr' = cr \/ \E c \in Commands : cr' = Append(cr, c) /\ c \notin CommandOf(11, s) /\ c \notin CommandOf(12, s)
    BY <2>3, <2>6, Zenon
  <2> QED BY <2>2, <2>4, <2>5, <2>7, <2>8, OtherSlot, ZenonT(60)
<1> QED BY <1>4, <1>5

LEMMA SlotStep ==
  ASSUME TypeInv, AddressInv, StartInv, EventInv, [Next]_vars, NEW s \in Slots, SlotInv(s)
  PROVE  SlotInv(s)'
<1>1. er \in Seq(Events) BY DEF TypeInv
<1>2. ASSUME UNCHANGED <<port_config_phase, cr, er, devices, transfers>>, causes \subseteq causes'
      PROVE  SlotInv(s)'
  <2>1. PhasesKept BY <1>2, Zenon DEF PhasesKept
  <2>2. SlotFrame(s) BY <1>2, Zenon DEF SlotFrame, Pending, SlotInv, ConfiguredOnce, OneReport
  <2> QED BY <1>2, <2>1, <2>2, SlotKept, ZenonT(60)
<1>3. CASE request_hc_ownership
  BY <1>2, <1>3, Zenon DEF request_hc_ownership, Idle, GiveUp, Fault
<1>4. CASE AwaitController BY <1>2, <1>4, Zenon DEF AwaitController, Idle
<1>5. CASE initialize BY <1>2, <1>5, ZenonT(60) DEF initialize, Idle, GiveUp, Fault
<1>6. CASE configure_port
  <2>1. /\ kernel = "ports" /\ cr' = cr /\ causes \subseteq causes'
        /\ devices'[s] = devices[s] /\ transfers'[s] = transfers[s]
    BY <1>6, ZenonT(60) DEF configure_port, environment
  <2>2. kernel # "loop" BY <2>1
  <2>3. CASE NoReset /\ UNCHANGED port_config_phase
    <3>1. EventsLeft(Rest) /\ PhasesKept BY <2>3, ZenonT(60) DEF NoReset, EventsLeft, PhasesKept
    <3> QED BY <2>1, <2>2, <3>1, OtherSlot, ZenonT(60)
  <2>4. CASE /\ asked # MaxPorts /\ asked' = asked + 1 /\ port_config_phase[asked'] = "NotConnected"
             /\ reset_port(asked', port_config_phase, addressing_port)
    <3>1. asked' \in Ports BY <2>4, ConstantsAssumption DEF TypeInv, Ports
    <3>2. PhasesKept /\ EventsLeft(Rest) BY <2>2, <2>4, <3>1, ResetPortPhases, ZenonT(60)
    <3> QED BY <2>1, <2>2, <3>2, OtherSlot, ZenonT(60)
  <2> QED BY <1>6, <2>3, <2>4, ZenonT(60) DEF configure_port
<1>7. CASE process_event
  BY <1>7, PortEventSlot, CompletionSlot, TransferEventSlot, ZenonT(60) DEF process_event, EventInv
<1>8. CASE Controller
  <2>1. UNCHANGED <<port_config_phase, cr, devices, transfers, causes>> BY <1>8, ZenonT(60) DEF Controller, environment
  <2>2. CASE er' = er BY <1>2, <2>1, <2>2, ZenonT(60)
  <2>3. CASE er' # er
    <3>1. hc.run /\ hc.halted BY <1>8, <2>3, ZenonT(60) DEF Controller
    <3>2. kernel # "loop" BY <3>1, Zenon DEF StartInv
    <3>3. devices[s].hid = 0 BY <3>2, Zenon DEF StartInv
    <3>4. devices[s].hid # 2 BY <3>3
    <3>5. ~Has(er, ReportOf(s)) BY <3>4, Zenon DEF SlotInv, OneReport
    <3>6. \A i \in DOMAIN er' : er'[i].type = 34 BY <1>8, <2>3, ControllerEvents, ZenonT(60)
    <3>7. ~Has(er', TransferOf(s)) /\ ~Has(er', ReportOf(s)) /\ \A n : ~Has(er', CompletionOf(n, s))
      BY <3>6, NoPortEvents, ZenonT(60) DEF Has
    <3>8. PhasesKept BY <2>1, Zenon DEF PhasesKept
    <3>9. \A n : (Pending(n, s))' => Pending(n, s) BY <2>1, <3>7, Zenon DEF Pending
    <3>10. AtMostOne(er', ReportOf(s)) /\ AtMostOne(er', CompletionOf(12, s)) BY <3>7, HasNone, Zenon
    <3>11. AtMostOne(cr', CommandOf(12, s)) BY <2>1, Zenon DEF SlotInv, ConfiguredOnce
    <3>12. SlotFrame(s) BY <2>1, <3>5, <3>7, <3>9, <3>10, <3>11, ZenonT(60) DEF SlotFrame
    <3>13. causes \subseteq causes' BY <2>1, Zenon
    <3> QED BY <3>8, <3>12, <3>13, SlotKept, ZenonT(60)
  <2> QED BY <2>2, <2>3, SMTT(30)
<1>9. CASE Command BY <1>9, CommandSlot, Zenon
<1>10. ASSUME NEW m \in Slots, NEW pipe \in {"control", "interrupt"}, Transfer(m, pipe) PROVE SlotInv(s)'
  BY <1>10, TransferFrame, ZenonT(60)
<1>11. ASSUME NEW p \in Ports, plug(p) PROVE SlotInv(s)'
  <2>1. /\ UNCHANGED <<port_config_phase, devices, cr, transfers>> /\ causes \subseteq causes'
        /\ er' = er \o Report(p, portsc[p].csc \/ portsc[p].prc)
    BY <1>11, Zenon DEF plug
  <2>2. PortStatusChangeEventTRB(p) \in Events /\ PortStatusChangeEventTRB(p).type = 34 BY PortEvent, Zenon
  <2>3. er' = er \/ er' = Append(er, PortStatusChangeEventTRB(p)) BY <1>1, <2>1, ReportCases, ZenonT(60)
  <2>4. PortStatusChangeEventTRB(p) \notin TransferOf(s) /\ \A n : PortStatusChangeEventTRB(p) \notin CompletionOf(n, s)
    BY <2>2, NoPortEvents, ZenonT(60)
  <2>5. transfers'[s] = transfers[s] BY <2>1, Zenon
  <2> QED BY <2>1, <2>2, <2>3, <2>4, <2>5, SlotElsewhere, ZenonT(60)
<1>12. CASE UNCHANGED vars BY <1>2, <1>12, Zenon DEF vars
<1> QED BY <1>3, <1>4, <1>5, <1>6, <1>7, <1>8, <1>9, <1>10, <1>11, <1>12, ZenonT(60)
        DEF Next, kernel_thread, controller

\* A completion is reported for the slot of its command, and a report fails only when the
\* device has gone or the transfer did
LEMMA EventStep ==
  ASSUME TypeInv, AddressInv, LinkInv, EventInv, \A s \in Slots : SlotInv(s), [Next]_vars
  PROVE  EventInv'
<1>1. er \in Seq(Events) BY DEF TypeInv
<1>2. /\ \A e \in Misdirected : e.type = 33
      /\ \A e \in FailedReports : e.type = 32
  BY Zenon DEF Misdirected, FailedReports
<1>3. \A e \in Misdirected \cup FailedReports : e.type # 34 BY <1>2, TypesDiffer, Zenon
<1>4. ASSUME causes \subseteq causes', Has(er', Misdirected) => Has(er, Misdirected),
             causes' = {} => (Has(er', FailedReports) => Has(er, FailedReports))
      PROVE  EventInv'
  <2>1. causes' = {} => causes = {} BY <1>4, Zenon
  <2> QED BY <1>4, <2>1, Zenon DEF EventInv
<1>5. ASSUME er' = er, causes \subseteq causes' PROVE EventInv' BY <1>4, <1>5, Zenon
<1>6. ASSUME kernel = "loop" => er # <<>>, EventsLeft(Rest), causes \subseteq causes' PROVE EventInv'
  <2>1. /\ Has(er', Misdirected) => Has(er, Misdirected)
        /\ Has(er', FailedReports) => Has(er, FailedReports)
    BY <1>3, <1>6, EventsPopped, ZenonT(60)
  <2> QED BY <1>4, <1>6, <2>1, ZenonT(60)
<1>7. NoReset => EventsLeft(Rest) BY Zenon DEF NoReset, EventsLeft
<1>8. CASE request_hc_ownership
  BY <1>5, <1>8, ZenonT(60) DEF request_hc_ownership, Idle, GiveUp, Fault
<1>9. CASE AwaitController BY <1>5, <1>9, ZenonT(60) DEF AwaitController, Idle
<1>10. CASE initialize BY <1>5, <1>10, ZenonT(60) DEF initialize, Idle, GiveUp, Fault
<1>11. CASE configure_port
  <2>1. kernel = "ports" /\ causes \subseteq causes' BY <1>11, Zenon DEF configure_port, environment
  <2>2. kernel # "loop" BY <2>1
  <2>3. CASE NoReset BY <1>6, <1>7, <2>1, <2>2, <2>3, ZenonT(60)
  <2>4. CASE /\ asked # MaxPorts /\ asked' = asked + 1 /\ port_config_phase[asked'] = "NotConnected"
             /\ reset_port(asked', port_config_phase, addressing_port)
    <3>1. asked' \in Ports BY <2>4, ConstantsAssumption DEF TypeInv, Ports
    <3>2. EventsLeft(Rest) BY <2>2, <2>4, <3>1, ResetPortPhases, ZenonT(60)
    <3> QED BY <1>6, <2>1, <2>2, <3>2, ZenonT(60)
  <2> QED BY <1>11, <2>3, <2>4, ZenonT(60) DEF configure_port
<1>12. CASE process_event
  <2>1. kernel = "loop" /\ er # <<>> BY <1>12, Zenon DEF process_event
  <2>2. Head(er) \in Events BY <1>1, <2>1, TailFacts, ZenonT(60)
  <2>3. CASE Head(er).type = 34 /\ on_port_status_change(Head(er))
    <3>1. Head(er).port \in Ports BY <2>2, <2>3, EventFacts, ZenonT(60)
    <3>2. causes \subseteq causes' BY <2>3, Zenon DEF on_port_status_change
    <3>3. EventsLeft(Rest)
      <4>1. CASE port_config_phase[Head(er).port] = "NotConnected"
        <5>1. reset_port(Head(er).port, port_config_phase, addressing_port)
          BY <2>3, <4>1 DEF on_port_status_change
        <5> QED BY <2>1, <3>1, <4>1, <5>1, ResetPortPhases, ZenonT(60)
      <4>2. CASE port_config_phase[Head(er).port] = "ResettingPort"
        <5>1. enable_slot(Head(er).port) BY <2>3, <4>2 DEF on_port_status_change
        <5> QED BY <5>1, Zenon DEF enable_slot, EventsLeft
      <4>3. CASE port_config_phase[Head(er).port] \notin {"NotConnected", "ResettingPort"}
        <5>1. NoReset BY <2>3, <4>3 DEF on_port_status_change
        <5> QED BY <1>7, <5>1, ZenonT(60)
      <4> QED BY <4>1, <4>2, <4>3, ZenonT(60)
    <3> QED BY <1>6, <2>1, <3>2, <3>3, ZenonT(60)
  <2>4. CASE Head(er).type = 32 /\ on_transfer(Head(er))
    <3>1. NoReset /\ (causes' = causes \/ (causes' = {"memory"} /\ causes \subseteq {"memory"}))
      BY <2>2, <2>4, TransferRest, ZenonT(60)
    <3>2. causes \subseteq causes' BY <3>1, Zenon
    <3> QED BY <1>6, <1>7, <2>1, <3>1, <3>2, ZenonT(60)
  <2>5. CASE Head(er).type = 33 /\ on_command_completion(Head(er))
    <3> DEFINE m == Head(er).slot
    <3>1. Refused \/ SlotEnabled(m) \/ DeviceAddressed(m) \/ EndpointsReady(m)
      BY <2>2, <2>5, CompletionCases, ZenonT(60)
    <3>2. CASE Refused BY <1>6, <1>7, <2>1, <3>2, ZenonT(60) DEF Refused
    <3>3. CASE SlotEnabled(m) BY <1>6, <1>7, <2>1, <3>3, ZenonT(60) DEF SlotEnabled
    <3>4. CASE DeviceAddressed(m)
      <4>1. EventsLeft(Rest) BY <3>4, <2>1, NextWaiting, ZenonT(60) DEF DeviceAddressed
      <4> QED BY <1>6, <2>1, <3>4, <4>1, ZenonT(60) DEF DeviceAddressed
    <3>5. CASE EndpointsReady(m) BY <1>6, <1>7, <2>1, <3>5, ZenonT(60) DEF EndpointsReady
    <3> QED BY <3>1, <3>2, <3>3, <3>4, <3>5, ZenonT(60)
  <2> QED BY <1>12, <2>3, <2>4, <2>5, ZenonT(60) DEF process_event
<1>13. CASE Controller
  <2>1. causes \subseteq causes' BY <1>13, Zenon DEF Controller, environment
  <2>2. CASE \A i \in DOMAIN er' : er'[i].type = 34
    <3>1. ~Has(er', Misdirected) /\ ~Has(er', FailedReports) BY <1>3, <2>2, ZenonT(60) DEF Has
    <3> QED BY <3>1, Zenon DEF EventInv
  <2> QED BY <1>5, <1>13, <2>1, <2>2, ControllerEvents, ZenonT(60)
<1>14. CASE Command
  <2> DEFINE c == Head(cr)
  <2>1. c \in Commands /\ (causes' = causes \/ (causes \subseteq {"command"} /\ causes' = {"command"}))
    BY <1>14, CommandFacts, ZenonT(60)
  <2>2. PICK m \in Slots : er' = Append(er, CommandCompletionEventTRB(m, c)) /\ (c.type # 9 => m = c.slot)
    BY <1>14, CommandFacts, ZenonT(60)
  <2> DEFINE e == CommandCompletionEventTRB(m, c)
  <2>3. e \in Events /\ e.type = 33 /\ e.issuer = c /\ e.slot = m BY <2>1, CommandEvent, SMTT(30)
  <2>4. er' = Append(er, e) /\ (c.type # 9 => m = c.slot) BY <2>2
  <2> HIDE DEF e, c
  <2>5. e \notin Misdirected BY <2>3, <2>4, ZenonT(60) DEF Misdirected
  <2>6. e \notin FailedReports BY <1>2, <2>3, TypesDiffer, ZenonT(60)
  <2>7. /\ Has(er', Misdirected) => Has(er, Misdirected)
        /\ Has(er', FailedReports) => Has(er, FailedReports)
    BY <1>1, <2>3, <2>4, <2>5, <2>6, AppendOnce, SMTT(30)
  <2>8. causes \subseteq causes' BY <2>1, ZenonT(60)
  <2> QED BY <1>4, <2>7, <2>8, Zenon
<1>15. ASSUME NEW s \in Slots, NEW pipe \in {"control", "interrupt"}, Transfer(s, pipe) PROVE EventInv'
  <2> DEFINE t == Head(transfers[s][pipe])
             n == devices[s].number
  <2>1. t \in Stages /\ (pipe = "control" => t \in Controls) /\ transfers[s][pipe] # <<>>
    BY <1>15, TransferFacts, ZenonT(60)
  <2>2. PICK ok \in BOOLEAN :
          /\ er' = Append(er, TransferEventTRB(s, t, ok))
          /\ IF n \in Ports /\ portsc[n].connected /\ ~ok THEN Fault("transfer") ELSE UNCHANGED causes
    BY <1>15, ZenonT(60) DEF Transfer
  <2> DEFINE e == TransferEventTRB(s, t, ok)
  <2>3. e \in Events /\ e.type = 32 /\ e.issuer = t BY <2>1, TransferEvent
  <2>4. e.ok = ok BY Zenon DEF TransferEventTRB
  <2>5. er' = Append(er, e) /\ causes \subseteq causes' BY <2>2, Zenon DEF Fault
  <2>6. CASE e \notin FailedReports
    <3> HIDE DEF e
    <3>1. e \notin Misdirected BY <1>2, <2>3, TypesDiffer, ZenonT(60)
    <3>2. /\ Has(er', Misdirected) => Has(er, Misdirected)
          /\ Has(er', FailedReports) => Has(er, FailedReports)
      BY <1>1, <2>3, <2>5, <2>6, <3>1, AppendOnce, SMTT(30)
    <3> QED BY <1>4, <2>5, <3>2, ZenonT(60)
  <2>7. CASE e \in FailedReports
    <3>1. ~ok /\ t = NormalTRB BY <2>3, <2>4, <2>7, ZenonT(60) DEF FailedReports
    <3>2. pipe = "interrupt" BY <2>1, <3>1, StageFacts, ZenonT(60)
    <3>3. transfers[s].interrupt # <<>> BY <2>1, <3>2, ZenonT(60)
    <3>4. devices[s].hid = 2 BY <3>3, Zenon DEF SlotInv, OneReport
    <3>5. devices[s].hid # 0 BY <3>4
    <3>6. port_config_phase[n] \in Configuring BY <3>5, Zenon DEF SlotInv, ConfiguredOnce
    <3>7. n \in AllPorts BY DEF TypeInv, DeviceSet
    <3>8. port_config_phase[n] # "NotConnected" BY <3>6, NotConfiguring, Zenon
    <3>9. n \in Ports BY <3>7, <3>8, PortFacts, ZenonT(60) DEF AddressInv, PhaseInv
    <3>10. causes = {} => portsc[n].connected BY <3>8, <3>9, Zenon DEF LinkInv
    <3>11. causes' # {} BY <2>2, <3>1, <3>9, <3>10, ZenonT(60) DEF Fault
    <3> HIDE DEF e
    <3>12. e \notin Misdirected BY <1>2, <2>3, TypesDiffer, ZenonT(60)
    <3>13. Has(er', Misdirected) => Has(er, Misdirected) BY <1>1, <2>3, <2>5, <3>12, AppendOnce, SMTT(30)
    <3> QED BY <1>4, <2>5, <3>11, <3>13, ZenonT(60)
  <2> QED BY <2>6, <2>7
<1>16. ASSUME NEW p \in Ports, plug(p) PROVE EventInv'
  <2>1. causes \subseteq causes' /\ er' = er \o Report(p, portsc[p].csc \/ portsc[p].prc) BY <1>16, Zenon DEF plug
  <2>2. PortStatusChangeEventTRB(p) \in Events /\ PortStatusChangeEventTRB(p).type = 34 BY PortEvent, Zenon
  <2>3. er' = er \/ er' = Append(er, PortStatusChangeEventTRB(p)) BY <1>1, <2>1, ReportCases, ZenonT(60)
  <2>4. PortStatusChangeEventTRB(p) \notin Misdirected /\ PortStatusChangeEventTRB(p) \notin FailedReports
    BY <1>3, <2>2, ZenonT(60)
  <2>5. CASE er' = Append(er, PortStatusChangeEventTRB(p))
    <3>1. /\ Has(er', Misdirected) => Has(er, Misdirected)
          /\ Has(er', FailedReports) => Has(er, FailedReports)
      BY <1>1, <2>2, <2>4, <2>5, AppendOnce, SMTT(30)
    <3> QED BY <1>4, <2>1, <3>1, ZenonT(60)
  <2> QED BY <1>5, <2>1, <2>3, <2>5, ZenonT(60)
<1>17. CASE UNCHANGED vars BY <1>5, <1>17, ZenonT(60) DEF vars
<1> QED BY <1>8, <1>9, <1>10, <1>11, <1>12, <1>13, <1>14, <1>15, <1>16, <1>17, ZenonT(60)
        DEF Next, kernel_thread, controller

LEMMA StartInit == Init => StartInv
<1> SUFFICES ASSUME Init PROVE StartInv OBVIOUS
<1>1. PICK used \in BOOLEAN : hc = Registers(used) BY Zenon DEF Init
<1>2. (~used) \in BOOLEAN /\ TRUE \in BOOLEAN /\ FALSE \in BOOLEAN BY Zenon
<1>3. hc \in [legacy : BOOLEAN, bios : BOOLEAN, os : BOOLEAN, run : BOOLEAN, halted : BOOLEAN,
              reset : BOOLEAN, not_ready : BOOLEAN]
  BY <1>1, <1>2, ZenonT(60) DEF Registers
<1>4. kernel \notin {"starting", "ports", "loop"} BY DEF Init
<1>5. \A s \in Slots : devices[s].hid = 0 BY DEF Init, NoDevice, Device
<1> QED BY <1>3, <1>4, <1>5, ZenonT(60) DEF StartInv

LEMMA StartStep ==
  ASSUME TypeInv, StartInv, [Next]_vars
  PROVE  StartInv'
<1> DEFINE HC == [legacy : BOOLEAN, bios : BOOLEAN, os : BOOLEAN, run : BOOLEAN, halted : BOOLEAN,
                  reset : BOOLEAN, not_ready : BOOLEAN]
           Early == {"none", "initialize", "ownership", "halt", "halting", "reset", "resetting",
                     "notready", "program"}
<1>1. hc \in HC /\ devices \in [Slots -> DeviceSet] BY Zenon DEF StartInv, TypeInv
<1>2. TRUE \in BOOLEAN /\ FALSE \in BOOLEAN BY Zenon
<1>3. \A k \in Early : k \notin {"starting", "ports", "loop"} BY Zenon
<1>4. "starting" \notin {"ports", "loop"} /\ "ports" # "loop" BY Zenon
<1>5. ASSUME UNCHANGED <<kernel, hc>>, \A s \in Slots : devices'[s].hid = devices[s].hid PROVE StartInv'
  BY <1>5, Zenon DEF StartInv
<1>6. ASSUME hc' \in HC, kernel' \in Early, devices' = devices, kernel # "loop" PROVE StartInv'
  BY <1>3, <1>6, Zenon DEF StartInv
<1>7. CASE request_hc_ownership
  <2>1. devices' = devices /\ kernel # "loop" /\ kernel' \in Early
    BY <1>7, Zenon DEF request_hc_ownership, Idle, GiveUp, Goto
  <2>2. hc' = hc \/ hc' = [hc EXCEPT !.os = TRUE] BY <1>7, Zenon DEF request_hc_ownership
  <2>3. hc' \in HC BY <1>1, <1>2, <2>2, ZenonT(60)
  <2> QED BY <1>6, <2>1, <2>3, ZenonT(60)
<1>8. CASE AwaitController
  <2>1. UNCHANGED <<hc, devices>> BY <1>8, Zenon DEF AwaitController, Idle
  <2>2. CASE kernel' \in Early /\ kernel # "loop" BY <1>1, <1>6, <2>1, <2>2, ZenonT(60)
  <2>3. CASE kernel = "starting" /\ ~hc.halted /\ kernel' = "ports" BY <1>4, <2>1, <2>3, ZenonT(60) DEF StartInv
  <2> QED BY <1>8, <2>2, <2>3, ZenonT(60) DEF AwaitController, Goto
<1>9. CASE initialize
  <2>1. devices' = devices /\ kernel # "loop" BY <1>9, Zenon DEF initialize, Idle
  <2>2. CASE kernel' \in Early
    <3>1. \/ hc' = hc \/ hc' = [hc EXCEPT !.run = FALSE] \/ hc' = [hc EXCEPT !.reset = TRUE]
          \/ hc' = [hc EXCEPT !.run = TRUE]
      BY <1>9, Zenon DEF initialize
    <3>2. hc' \in HC BY <1>1, <1>2, <3>1, ZenonT(60)
    <3> QED BY <1>6, <2>1, <2>2, <3>2, ZenonT(60)
  <2>3. CASE kernel' = "starting" /\ hc' = [hc EXCEPT !.run = TRUE]
    <3>1. hc' \in HC /\ hc'.run BY <1>1, <1>2, <2>3, ZenonT(60)
    <3> QED BY <1>4, <2>1, <2>3, <3>1, ZenonT(60) DEF StartInv
  <2> QED BY <1>9, <2>2, <2>3, ZenonT(60) DEF initialize, GiveUp, Goto
<1>10. CASE configure_port
  <2>1. /\ UNCHANGED <<hc, devices>> /\ kernel = "ports" /\ kernel' \in {"ports", "loop"}
    BY <1>10, Zenon DEF configure_port, Goto
  <2> QED BY <1>4, <2>1, ZenonT(60) DEF StartInv
<1>11. CASE process_event
  <2>1. kernel = "loop" /\ UNCHANGED <<kernel, hc>> BY <1>11, Zenon DEF process_event, start
  <2> QED BY <2>1, Zenon DEF StartInv
<1>12. CASE Controller
  <2>1. UNCHANGED <<kernel, devices>> BY <1>12, Zenon DEF Controller
  <2>2. \/ hc' = [hc EXCEPT !.bios = FALSE]
        \/ ~hc.run /\ hc' = [hc EXCEPT !.halted = TRUE]
        \/ hc' = [hc EXCEPT !.reset = FALSE, !.not_ready = TRUE]
        \/ hc' = [hc EXCEPT !.not_ready = FALSE]
        \/ hc' = [hc EXCEPT !.halted = FALSE]
    BY <1>12, Zenon DEF Controller
  <2>3. hc' \in HC BY <1>1, <1>2, <2>2, ZenonT(60)
  <2>4. hc'.run = hc.run BY <1>1, <2>2, Zenon
  <2>5. hc'.halted => hc.halted \/ ~hc.run BY <1>1, <2>2, Zenon
  <2>6. kernel \in {"ports", "loop"} => kernel \in {"starting", "ports", "loop"} BY Zenon
  <2> QED BY <2>1, <2>3, <2>4, <2>5, <2>6, ZenonT(60) DEF StartInv
<1>13. CASE Command
  <2>1. UNCHANGED <<kernel, hc>> BY <1>13, Zenon DEF Command, start
  <2>2. devices' = devices \/ \E m \in Slots, n \in AllPorts : devices' = [devices EXCEPT ![m].number = n]
    <3>1. Head(cr) \in Commands BY <1>13, CommandFacts, ZenonT(60)
    <3>2. Head(cr).slot \in Slots BY <3>1 DEF Commands
    <3> QED BY <1>13, <3>2, CommandFacts, ZenonT(60)
  <2>3. ASSUME NEW m \in Slots, NEW n \in AllPorts, devices' = [devices EXCEPT ![m].number = n], NEW s \in Slots
        PROVE  devices'[s].hid = devices[s].hid
    <3>1. devices[s] \in DeviceSet BY <1>1, Zenon
    <3>2. devices'[s] = IF s = m THEN [devices[s] EXCEPT !.number = n] ELSE devices[s] BY <1>1, <2>3, Zenon
    <3> QED BY <3>1, <3>2, Zenon DEF DeviceSet
  <2>4. \A s \in Slots : devices'[s].hid = devices[s].hid BY <2>2, <2>3, ZenonT(60)
  <2> QED BY <1>5, <2>1, <2>4, ZenonT(60)
<1>14. CASE \E s \in Slots, pipe \in {"control", "interrupt"} : Transfer(s, pipe)
  BY <1>5, <1>14, ZenonT(60) DEF Transfer, start
<1>15. CASE \E p \in Ports : plug(p) BY <1>5, <1>15, ZenonT(60) DEF plug, start
<1>16. CASE UNCHANGED vars BY <1>5, <1>16, Zenon DEF vars
<1> QED BY <1>7, <1>8, <1>9, <1>10, <1>11, <1>12, <1>13, <1>14, <1>15, <1>16, ZenonT(60)
        DEF Next, kernel_thread, controller

\* What a handler may do to the ports: a port that it takes out of NotConnected has a device
PortStatus == [connected : BOOLEAN, enabled : BOOLEAN, csc : BOOLEAN, prc : BOOLEAN]
PortsKept ==
  /\ portsc' \in [Ports -> PortStatus]
  /\ \A p \in Ports : portsc'[p].connected = portsc[p].connected

PhasesLinked ==
  \A p \in Ports : port_config_phase'[p] = "NotConnected" \/ port_config_phase[p] # "NotConnected" \/ portsc[p].connected

LEMMA LinkKept ==
  ASSUME LinkInv, PortsKept, PhasesLinked, causes \subseteq causes'
  PROVE  LinkInv'
<1>1. causes' = {} => causes = {} BY Zenon
<1> QED BY <1>1, Zenon DEF LinkInv, PortsKept, PhasesLinked, PortStatus

LEMMA PortsUnchanged == LinkInv /\ portsc' = portsc => PortsKept
BY Zenon DEF LinkInv, PortsKept, PortStatus

LEMMA PhaseLinked ==
  ASSUME TypeInv, NEW p \in AllPorts, NEW x, port_config_phase' = [port_config_phase EXCEPT ![p] = x],
         port_config_phase[p] # "NotConnected" \/ (p \in Ports /\ portsc[p].connected)
  PROVE  PhasesLinked
<1>1. port_config_phase \in [AllPorts -> ConfigPhase] BY DEF TypeInv
<1>2. \A q \in Ports : q # p => port_config_phase'[q] = port_config_phase[q] BY <1>1, PortFacts, Zenon
<1> QED BY <1>2, ZenonT(60) DEF PhasesLinked

LEMMA ResetPortLink ==
  ASSUME TypeInv, LinkInv, NEW p \in Ports, NEW phase \in [AllPorts -> ConfigPhase], NEW a,
         reset_port(p, phase, a)
  PROVE  /\ PortsKept
         /\ \/ port_config_phase' = phase
            \/ \E x : port_config_phase' = [phase EXCEPT ![p] = x] /\ portsc[p].connected
<1>1. portsc \in [Ports -> PortStatus] BY Zenon DEF LinkInv, PortStatus
<1>2. NoReset => PortsKept BY PortsUnchanged, Zenon DEF NoReset
<1>3. ASSUME reset(p) PROVE PortsKept
  <2>1. portsc' = [portsc EXCEPT ![p] = [portsc[p] EXCEPT !.csc = FALSE, !.enabled = TRUE, !.prc = TRUE]]
    BY <1>1, <1>3, Zenon DEF reset
  <2>2. portsc[p] \in PortStatus /\ TRUE \in BOOLEAN /\ FALSE \in BOOLEAN BY <1>1, Zenon
  <2>3. [portsc[p] EXCEPT !.csc = FALSE, !.enabled = TRUE, !.prc = TRUE] \in PortStatus
    BY <2>2, Zenon DEF PortStatus
  <2>4. [portsc[p] EXCEPT !.csc = FALSE, !.enabled = TRUE, !.prc = TRUE].connected = portsc[p].connected
    BY <2>2, Zenon DEF PortStatus
  <2>5. \A q \in Ports : portsc'[q].connected = portsc[q].connected BY <1>1, <2>1, <2>4, ZenonT(60)
  <2> QED BY <1>1, <2>1, <2>3, <2>5, ZenonT(60) DEF PortsKept
<1> QED BY <1>2, <1>3, Zenon DEF reset_port

LEMMA ResetPortLinked ==
  ASSUME TypeInv, LinkInv, NEW p \in Ports, reset_port(p, port_config_phase, addressing_port)
  PROVE  PortsKept /\ PhasesLinked
<1>1. port_config_phase \in [AllPorts -> ConfigPhase] /\ p \in AllPorts BY PortFacts, Zenon DEF TypeInv
<1>2. /\ PortsKept
      /\ \/ port_config_phase' = port_config_phase
         \/ \E x : port_config_phase' = [port_config_phase EXCEPT ![p] = x] /\ portsc[p].connected
  BY <1>1, ResetPortLink, Zenon
<1>3. ASSUME NEW x, port_config_phase' = [port_config_phase EXCEPT ![p] = x], portsc[p].connected
      PROVE  PhasesLinked
  BY <1>1, <1>3, PhaseLinked, ZenonT(60)
<1> QED BY <1>2, <1>3, Zenon DEF PhasesLinked

LEMMA NextWaitingLinked ==
  ASSUME TypeInv, LinkInv, NEW p \in AllPorts, port_config_phase[p] = "AddressingDevice", next_waiting(p)
  PROVE  PortsKept /\ PhasesLinked
<1> DEFINE phase == [port_config_phase EXCEPT ![p] = "InitializingDevice"]
           waiting == {q \in Ports : port_config_phase[q] = "WaitingAddressed"}
<1>1. port_config_phase \in [AllPorts -> ConfigPhase] BY DEF TypeInv
<1>2. phase \in [AllPorts -> ConfigPhase] BY <1>1, PhaseNames, SetPhase, ZenonT(60)
<1>3. "AddressingDevice" # "NotConnected" /\ "WaitingAddressed" # "NotConnected" BY Zenon
<1>4. \A r \in Ports : port_config_phase[r] = "NotConnected" => phase[r] = "NotConnected"
  BY <1>1, <1>3, PortFacts, ZenonT(60)
<1>5. ASSUME port_config_phase' = phase PROVE PhasesLinked BY <1>4, <1>5, Zenon DEF PhasesLinked
<1>6. CASE waiting = {}
  <2>1. port_config_phase' = phase /\ NoReset BY <1>6, Zenon DEF next_waiting
  <2>2. portsc' = portsc BY <2>1, Zenon DEF NoReset
  <2> QED BY <1>5, <2>1, <2>2, PortsUnchanged, ZenonT(60)
<1>7. CASE waiting # {}
  <2>1. PICK q \in waiting : reset_port(q, phase, 0) BY <1>7, Zenon DEF next_waiting
  <2> HIDE DEF phase
  <2>2. q \in Ports /\ port_config_phase[q] # "NotConnected" BY <1>3, Zenon
  <2>3. /\ PortsKept
        /\ \/ port_config_phase' = phase
           \/ \E x : port_config_phase' = [phase EXCEPT ![q] = x] /\ portsc[q].connected
    BY <1>2, <2>1, <2>2, ResetPortLink, ZenonT(60)
  <2>4. ASSUME NEW x, port_config_phase' = [phase EXCEPT ![q] = x] PROVE PhasesLinked
    <3>1. \A r \in Ports : r # q => port_config_phase'[r] = phase[r] BY <1>2, <2>4, PortFacts, ZenonT(60)
    <3> QED BY <1>4, <2>2, <3>1, ZenonT(60) DEF PhasesLinked
  <2> QED BY <1>5, <2>3, <2>4, ZenonT(60)
<1> QED BY <1>6, <1>7

LEMMA LinkEvent ==
  ASSUME TypeInv, LinkInv, process_event
  PROVE  LinkInv'
<1>1. kernel = "loop" /\ er # <<>> /\ er \in Seq(Events) BY Zenon DEF process_event, TypeInv
<1>2. Head(er) \in Events BY <1>1, TailFacts, ZenonT(60)
<1>3. /\ port_config_phase \in [AllPorts -> ConfigPhase] /\ addressing_port \in AllPorts
      /\ portsc \in [Ports -> PortStatus]
  BY Zenon DEF TypeInv, LinkInv, PortStatus
<1>4. NoReset => PortsKept BY PortsUnchanged, Zenon DEF NoReset
<1>5. port_config_phase' = port_config_phase => PhasesLinked BY Zenon DEF PhasesLinked
<1>6. \A x \in {"WaitingAddressed", "ResettingPort", "EnablingSlot", "AddressingDevice", "InitializingDevice",
                "ConfiguringEndpoints", "Configured"} : x # "NotConnected"
  OBVIOUS
<1>7. ASSUME NEW n \in AllPorts, NEW x, port_config_phase' = [port_config_phase EXCEPT ![n] = x],
             port_config_phase[n] # "NotConnected"
      PROVE  PhasesLinked
  BY <1>7, PhaseLinked, ZenonT(60)
<1>8. CASE Head(er).type = 34 /\ on_port_status_change(Head(er))
  <2> DEFINE p == Head(er).port
  <2>1. p \in Ports /\ p \in AllPorts BY <1>2, <1>8, EventFacts, PortFacts, ZenonT(60)
  <2>2. causes \subseteq causes' BY <1>8, Zenon DEF on_port_status_change
  <2>3. CASE port_config_phase[p] = "NotConnected"
    <3>1. reset_port(p, port_config_phase, addressing_port) BY <1>8, <2>3 DEF on_port_status_change
    <3> QED BY <2>1, <2>2, <3>1, ResetPortLinked, LinkKept, ZenonT(60)
  <2>4. CASE port_config_phase[p] = "ResettingPort"
    <3>1. enable_slot(p) BY <1>8, <2>4 DEF on_port_status_change
    <3>2. portsc' = portsc \/ portsc' = [portsc EXCEPT ![p] = [portsc[p] EXCEPT !.prc = FALSE]]
      BY <1>3, <2>1, <3>1, ZenonT(60) DEF enable_slot
    <3>3. portsc[p] \in PortStatus /\ FALSE \in BOOLEAN BY <1>3, <2>1, Zenon
    <3>4. [portsc[p] EXCEPT !.prc = FALSE] \in PortStatus BY <3>3, Zenon DEF PortStatus
    <3>5. [portsc[p] EXCEPT !.prc = FALSE].connected = portsc[p].connected BY <3>3, Zenon DEF PortStatus
    <3>6. PortsKept BY <1>3, <2>1, <3>2, <3>4, <3>5, ZenonT(60) DEF PortsKept
    <3>7. port_config_phase' = port_config_phase \/ port_config_phase' = [port_config_phase EXCEPT ![p] = "EnablingSlot"]
      BY <3>1, ZenonT(60) DEF enable_slot
    <3>8. port_config_phase[p] # "NotConnected" BY <2>4
    <3>9. PhasesLinked BY <1>5, <1>7, <2>1, <3>7, <3>8, ZenonT(60)
    <3> QED BY <2>2, <3>6, <3>9, LinkKept, ZenonT(60)
  <2>5. CASE port_config_phase[p] \notin {"NotConnected", "ResettingPort"}
    <3>1. NoReset /\ UNCHANGED port_config_phase BY <1>8, <2>5 DEF on_port_status_change
    <3> QED BY <1>4, <1>5, <2>2, <3>1, LinkKept, ZenonT(60)
  <2> QED BY <2>3, <2>4, <2>5, ZenonT(60)
<1>9. CASE Head(er).type = 32 /\ on_transfer(Head(er))
  <2> DEFINE n == devices[Head(er).slot].number
  <2>1. /\ NoReset
        /\ \/ port_config_phase' = port_config_phase
           \/ /\ port_config_phase[n] = "InitializingDevice"
              /\ port_config_phase' = [port_config_phase EXCEPT ![n] = "ConfiguringEndpoints"]
        /\ causes' = causes \/ (causes' = {"memory"} /\ causes \subseteq {"memory"})
    BY <1>2, <1>9, TransferRest, ZenonT(60)
  <2>2. Head(er).slot \in Slots BY <1>2, <1>9, EventFacts, ZenonT(60)
  <2>3. n \in AllPorts BY <2>2 DEF TypeInv, DeviceSet
  <2> HIDE DEF n
  <2>4. PhasesLinked BY <1>5, <1>6, <1>7, <2>1, <2>3, ZenonT(60)
  <2>5. causes \subseteq causes' BY <2>1, Zenon
  <2> QED BY <1>4, <2>1, <2>4, <2>5, LinkKept, ZenonT(60)
<1>10. CASE Head(er).type = 33 /\ on_command_completion(Head(er))
  <2> DEFINE m == Head(er).slot
  <2>1. Refused \/ SlotEnabled(m) \/ DeviceAddressed(m) \/ EndpointsReady(m)
    BY <1>2, <1>10, CompletionCases, ZenonT(60)
  <2>2. m \in Slots BY <1>2, <1>10, EventFacts, ZenonT(60)
  <2> HIDE DEF m
  <2>3. devices[m].number \in AllPorts BY <2>2 DEF TypeInv, DeviceSet
  <2>4. CASE Refused
    <3>1. causes \subseteq causes' BY <2>4, ZenonT(60) DEF Refused
    <3> QED BY <1>4, <1>5, <2>4, <3>1, LinkKept, ZenonT(60) DEF Refused
  <2>5. CASE SlotEnabled(m)
    <3>1. PhasesLinked BY <1>3, <1>6, <1>7, <2>5, ZenonT(60) DEF SlotEnabled
    <3>2. NoReset /\ causes \subseteq causes' BY <2>5, Zenon DEF SlotEnabled
    <3> QED BY <1>4, <3>1, <3>2, LinkKept, ZenonT(60)
  <2>6. CASE DeviceAddressed(m)
    <3>1. PortsKept /\ PhasesLinked BY <1>3, <2>6, NextWaitingLinked, ZenonT(60) DEF DeviceAddressed
    <3>2. causes \subseteq causes' BY <2>6, Zenon DEF DeviceAddressed
    <3> QED BY <3>1, <3>2, LinkKept, ZenonT(60)
  <2>7. CASE EndpointsReady(m)
    <3>1. PhasesLinked BY <1>6, <1>7, <2>3, <2>7, ZenonT(60) DEF EndpointsReady
    <3>2. NoReset /\ causes \subseteq causes' BY <2>7, Zenon DEF EndpointsReady
    <3> QED BY <1>4, <3>1, <3>2, LinkKept, ZenonT(60)
  <2> QED BY <2>1, <2>4, <2>5, <2>6, <2>7, ZenonT(60)
<1> QED BY <1>8, <1>9, <1>10, ZenonT(60) DEF process_event

LEMMA LinkStep ==
  ASSUME TypeInv, LinkInv, [Next]_vars
  PROVE  LinkInv'
<1>1. ASSUME UNCHANGED <<portsc, port_config_phase>>, causes \subseteq causes' PROVE LinkInv'
  <2>1. PhasesLinked BY <1>1, Zenon DEF PhasesLinked
  <2> QED BY <1>1, <2>1, PortsUnchanged, LinkKept, ZenonT(60)
<1>2. CASE request_hc_ownership
  BY <1>1, <1>2, ZenonT(60) DEF request_hc_ownership, Idle, GiveUp, Fault
<1>3. CASE AwaitController BY <1>1, <1>3, ZenonT(60) DEF AwaitController, Idle
<1>4. CASE initialize BY <1>1, <1>4, ZenonT(60) DEF initialize, Idle, GiveUp, Fault
<1>5. CASE configure_port
  <2>1. causes \subseteq causes' BY <1>5, Zenon DEF configure_port, environment
  <2>2. CASE NoReset /\ UNCHANGED port_config_phase BY <1>1, <2>1, <2>2, ZenonT(60) DEF NoReset
  <2>3. CASE /\ asked # MaxPorts /\ asked' = asked + 1
             /\ reset_port(asked', port_config_phase, addressing_port)
    <3>1. asked' \in Ports BY <2>3, ConstantsAssumption DEF TypeInv, Ports
    <3> QED BY <2>1, <2>3, <3>1, ResetPortLinked, LinkKept, ZenonT(60)
  <2> QED BY <1>5, <2>2, <2>3, ZenonT(60) DEF configure_port
<1>6. CASE process_event BY <1>6, LinkEvent, Zenon
<1>7. CASE Controller BY <1>1, <1>7, ZenonT(60) DEF Controller, environment
<1>8. CASE Command
  <2>1. /\ UNCHANGED <<portsc, port_config_phase>>
        /\ causes' = causes \/ (causes \subseteq {"command"} /\ causes' = {"command"})
    BY <1>8, CommandFacts, Zenon
  <2>2. causes \subseteq causes' BY <2>1, Zenon
  <2> QED BY <1>1, <2>1, <2>2, ZenonT(60)
<1>9. CASE \E s \in Slots, pipe \in {"control", "interrupt"} : Transfer(s, pipe)
  BY <1>1, <1>9, ZenonT(60) DEF Transfer, Fault
<1>10. ASSUME NEW p \in Ports, plug(p) PROVE LinkInv'
  <2>1. portsc \in [Ports -> PortStatus] BY Zenon DEF LinkInv, PortStatus
  <2> DEFINE st == [portsc[p] EXCEPT !.connected = ~@, !.enabled = FALSE, !.csc = TRUE]
  <2>2. portsc' = [portsc EXCEPT ![p] = st] BY <1>10, <2>1, ZenonT(60) DEF plug
  <2>3. portsc[p] \in PortStatus /\ TRUE \in BOOLEAN /\ FALSE \in BOOLEAN BY <2>1, Zenon
  <2>4. (~portsc[p].connected) \in BOOLEAN BY Zenon
  <2>5. st \in PortStatus BY <2>3, <2>4, Zenon DEF PortStatus
  <2> HIDE DEF st
  <2>6. portsc' \in [Ports -> PortStatus] BY <2>1, <2>2, <2>5, ZenonT(60)
  <2>7. \A q \in Ports : q # p => portsc'[q] = portsc[q] BY <2>1, <2>2, Zenon
  <2>8. UNCHANGED port_config_phase BY <1>10, Zenon DEF plug
  <2>9. causes' = {} => causes = {} /\ port_config_phase[p] = "NotConnected" BY <1>10, Zenon DEF plug
  <2> QED BY <2>6, <2>7, <2>8, <2>9, ZenonT(60) DEF LinkInv, PortStatus
<1>11. CASE UNCHANGED vars BY <1>1, <1>11, ZenonT(60) DEF vars
<1> QED BY <1>2, <1>3, <1>4, <1>5, <1>6, <1>7, <1>8, <1>9, <1>10, <1>11, ZenonT(60)
        DEF Next, kernel_thread, controller

LEMMA ReportInit == Init => ReportInv
<1> SUFFICES ASSUME Init PROVE ReportInv OBVIOUS
<1>1. StartInv BY StartInit, Zenon
<1>2. LinkInv
  <2>1. Unplugged \in PortStatus /\ Plugged \in PortStatus BY Zenon DEF Unplugged, Plugged, PortStatus
  <2>2. portsc \in [Ports -> {Unplugged, Plugged}] BY Zenon DEF Init
  <2>3. portsc \in [Ports -> PortStatus] BY <2>1, <2>2, Zenon
  <2>4. \A p \in Ports : port_config_phase[p] = "NotConnected" BY Zenon DEF Init
  <2> QED BY <2>3, <2>4, Zenon DEF LinkInv, PortStatus
<1>3. DOMAIN er = {} /\ DOMAIN cr = {} BY DEF Init
<1>4. \A M : ~Has(er, M) /\ ~Has(cr, M) BY <1>3, Zenon DEF Has
<1>5. EventInv BY <1>4, Zenon DEF EventInv
<1>6. ASSUME NEW s \in Slots PROVE SlotInv(s)
  <2>1. devices[s] = NoDevice /\ transfers[s] = [control |-> <<>>, interrupt |-> <<>>] BY Zenon DEF Init
  <2>2. devices[s].hid = 0 /\ devices[s].hid # 2 BY <2>1 DEF NoDevice, Device
  <2>3. transfers[s].control = <<>> /\ transfers[s].interrupt = <<>> BY <2>1
  <2>4. CleanFirst(s) BY <1>4, <2>2, <2>3, ZenonT(60) DEF CleanFirst, Clean, Pending
  <2>5. ConfiguredOnce(s) BY <1>4, <2>2, HasNone, ZenonT(60) DEF ConfiguredOnce, Pending
  <2>6. OneReport(s) BY <1>4, <2>2, <2>3, HasNone, ZenonT(60) DEF OneReport
  <2> QED BY <2>4, <2>5, <2>6, ZenonT(60) DEF SlotInv
<1> QED BY <1>1, <1>2, <1>5, <1>6, ZenonT(60) DEF ReportInv

\* A class driver that receives reports has one report requested, with the controller or among
\* the events, and never two: on_endpoint_configured may ask twice for the protocol, and
\* on_control_completed and on_interrupt_completed still ask for one report at a time, for any
\* number of ports and slots, whatever is plugged and whatever fails.
THEOREM OneReportRequested == Spec => []ReportsRequested
<1>1. Init => TypeInv /\ AddressInv /\ ReportInv BY TypeInit, AddressInit, ReportInit, SMTT(30)
<1>2. TypeInv /\ AddressInv /\ ReportInv /\ [Next]_vars => (TypeInv /\ AddressInv /\ ReportInv)'
  <2> SUFFICES ASSUME TypeInv, AddressInv, ReportInv, [Next]_vars PROVE (TypeInv /\ AddressInv /\ ReportInv)'
    OBVIOUS
  <2>1. TypeInv' BY TypeStep, Zenon
  <2>2. AddressInv' BY AddressStep, Zenon
  <2>3. StartInv' BY StartStep, Zenon DEF ReportInv
  <2>4. LinkInv' BY LinkStep, ZenonT(60) DEF ReportInv
  <2>5. EventInv' BY EventStep, Zenon DEF ReportInv
  <2>6. \A s \in Slots : SlotInv(s)' BY SlotStep, Zenon DEF ReportInv
  <2> QED BY <2>1, <2>2, <2>3, <2>4, <2>5, <2>6, ZenonT(60) DEF ReportInv
<1>3. TypeInv /\ ReportInv => ReportsRequested
  <2> SUFFICES ASSUME TypeInv, ReportInv, NEW s \in Slots
               PROVE  LET reported == {i \in DOMAIN er : /\ er[i].type = 32 /\ er[i].slot = s
                                                         /\ er[i].issuer = NormalTRB}
                          requested == Len(transfers[s].interrupt) + Cardinality(reported)
                      IN  /\ requested <= 1
                          /\ devices[s].hid = 2 /\ causes = {} => requested = 1
    BY Zenon DEF ReportsRequested
  <2> DEFINE reported == {i \in DOMAIN er : er[i].type = 32 /\ er[i].slot = s /\ er[i].issuer = NormalTRB}
  <2>1. OneReport(s) BY ZenonT(60) DEF ReportInv, SlotInv
  <2>2. \A i \in DOMAIN er : er[i] \in Events BY DEF TypeInv
  <2>3. reported = {i \in DOMAIN er : er[i] \in ReportOf(s)} BY <2>2, ZenonT(60) DEF ReportOf, TransferOf
  <2>4. \A i, j \in reported : i = j BY <2>1, <2>3, ZenonT(60) DEF OneReport, AtMostOne
  <2>5. Has(er, ReportOf(s)) <=> reported # {} BY <2>3, Zenon DEF Has
  <2>6. reported = {} => Cardinality(reported) = 0 BY SmallSets, ZenonT(60)
  <2>7. reported # {} => Cardinality(reported) = 1
    <3> HIDE DEF reported
    <3> SUFFICES ASSUME reported # {} PROVE Cardinality(reported) = 1 OBVIOUS
    <3>1. PICK i \in reported : TRUE BY Zenon
    <3>2. reported = {i} BY <2>4
    <3> QED BY <3>2, SmallSets, ZenonT(60)
  <2> HIDE DEF reported
  <2>8. Len(<<>>) = 0 /\ Len(<<NormalTRB>>) = 1 BY SMTT(30)
  <2>9. CASE transfers[s].interrupt = <<>>
    <3>1. devices[s].hid = 2 /\ causes = {} => reported # {} BY <2>1, <2>5, <2>9, ZenonT(60) DEF OneReport
    <3> QED BY <2>6, <2>7, <2>8, <2>9, <3>1, SMTT(30) DEF reported
  <2>10. CASE transfers[s].interrupt = <<NormalTRB>> /\ ~Has(er, ReportOf(s))
    <3>1. reported = {} BY <2>5, <2>10, Zenon
    <3> QED BY <2>6, <2>8, <2>10, <3>1, SMTT(30) DEF reported
  <2> QED BY <2>1, <2>9, <2>10, ZenonT(60) DEF OneReport
<1> QED BY <1>1, <1>2, <1>3, PTL DEF Spec
=============================================================================
