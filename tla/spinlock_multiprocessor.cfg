SPECIFICATION Spec
CONSTANTS
  boot = boot
  other = other
  t1 = t1
  t2 = t2
  Processors <- TwoProcessors
  Threads = {t1, t2}
  Home <- OneEach
INVARIANT MutualExclusion
