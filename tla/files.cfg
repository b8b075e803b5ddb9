SPECIFICATION Spec
CONSTANTS
  Threads <- MCThreads
  Users = {"kernel"}
  Shell = "shell"
  TmpVolumes = {"tmp"}
  FatVolumes = {"fat"}
  LocalPaths <- MCLocalPaths
  Names = {"dir"}
  Devices = {"disk"}
  Paths <- MCPaths
  Modes <- MCModes
  Mountpoints <- MCMountpoints
  DiskPath <- MCDiskPath
  MaxHandles = 1
  MaxRecords = 2
INVARIANTS SoleHandle  NothingLeaks
PROPERTY CallsEnd
