SPECIFICATION FairSpec
CONSTANTS
  MaxFd = 6
  NPorts = 3
  Kernels = {"mainline", "module", "windows", "none"}
  MaxArgs = 4
INVARIANT TypeOK
INVARIANT ScanDescriptors
INVARIANT LoopStart
PROPERTY HostnameAgrees
PROPERTY ScanComplete
CHECK_DEADLOCK FALSE
