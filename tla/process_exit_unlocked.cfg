SPECIFICATION Spec
CONSTANTS
  kernel = kernel
  idle = idle
  a = a
  b = b
  None = None
  Kernel = kernel
  Idle = idle
  Threads <- ThreadsAB
  MaxPid = 0
  MaxTid = 3
  MaxEid = 0
  MaxWaiters = 2
  MaxRegistered = 8
  MaxSuspend = 0
  MigratePeriod = 2
  InitEids = {}
  Watched = {}
  Ops <- ProgressOps
SYMMETRY SymAB
INVARIANT SleepHoldsLock
