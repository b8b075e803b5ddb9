SPECIFICATION LocksSpec
CONSTANTS
  boot = boot
  t1 = t1
  t2 = t2
  t3 = t3
  m1 = m1
  m2 = m2
  m3 = m3
  Processors <- OneProcessor
  Threads = {t1, t2, t3}
  Home <- AllOnBoot
INVARIANTS
  MutualExclusion
PROPERTIES
  AquireServed
  HandledInOrder
  DeliveredOutsideWindow
