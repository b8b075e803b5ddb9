SPECIFICATION Spec
CONSTANTS
  kernel = kernel
  idle = idle
  a = a
  b = b
  None = None
  Kernel = kernel
  Idle = idle
  Threads <- ThreadsAB
  MaxPid = 1
  MaxTid = 2
  MaxEid = 1
  MaxWaiters = 2
  MaxRegistered = 8
  MaxSuspend = 0
  MigratePeriod = 1
  InitEids = {}
  Watched = {}
  Ops <- LifecycleOps
SYMMETRY SymAB
INVARIANTS
  
  FreedOnlyInExitWindow
  JoinNotLost
