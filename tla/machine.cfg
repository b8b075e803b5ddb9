SPECIFICATION MachineSpec
CONSTANTS
  a = a
  b = b
  c = c
  Limit = 6
  MaxFrames = 2
  Handles = {a, b, c}
  MemoryMaps <- SomeMaps
INVARIANTS
  FramesAccounted
  ProgramAsLinked
  WriteProtectionRestored
  OwnTrampoline
  
  
PROPERTIES
  FirstFit
  RunGivesBack
  AllTicked
  WaitElapses
  LoopsEnd
CHECK_DEADLOCK FALSE
