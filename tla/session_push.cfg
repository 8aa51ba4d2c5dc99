SPECIFICATION FairSpec
CONSTANTS
  NFiles = 3
  MaxVer = 1
  Protocol = 31
  Push = TRUE
  BufCap = 2
  Compress = FALSE
  CanVanish = FALSE
  CanDrop = TRUE
  DiskFails = FALSE
INVARIANTS
  Complete
  NoMutualWait
PROPERTIES
  CleanExit
