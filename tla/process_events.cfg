SPECIFICATION Spec
CONSTANTS
  kernel = kernel
  idle = idle
  a = a
  b = b
  None = None
  Kernel = kernel
  Idle = idle
  Threads <- ThreadsAB
  MaxPid = 0
  MaxTid = 3
  MaxEid = 2
  MaxWaiters = 2
  MaxRegistered = 3
  MaxSuspend = 0
  MigratePeriod = 1
  InitEids = {1, 2}
  Watched = {}
  Ops <- EventOps
SYMMETRY SymAB
INVARIANTS
  RegistrationsMatch
  EventNotLost
