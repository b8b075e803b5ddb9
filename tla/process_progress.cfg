SPECIFICATION FairSpec
CONSTANTS
  kernel = kernel
  idle = idle
  a = a
  b = b
  None = None
  Kernel = kernel
  Idle = idle
  Threads <- ThreadsAB
  MaxPid = 0
  MaxTid = 2
  MaxEid = 0
  MaxWaiters = 1
  MaxRegistered = 8
  MaxSuspend = 2
  MigratePeriod = 5
  InitEids = {}
  Watched = {kernel, a}
  Ops <- ProgressOps
PROPERTIES
  JoinReturns
  RoundRobin
