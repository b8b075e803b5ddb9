SPECIFICATION DevicesSpec
CONSTANTS
  MaxPorts = 2
  MaxSlots = 2
  Kinds <- Combined
  Endpoints <- Drivers
  MaxPlugs = 2
  Faults = {"memory", "command", "transfer"}
INVARIANTS
  CommandsDone
  DefaultAddressExclusive
  ReportsRequested
  AnswersMatched
PROPERTIES
  Returns
  
  
CHECK_DEADLOCK FALSE
