SPECIFICATION FairSpec
CONSTANTS
  NFiles = 2
  MaxVer = 1
  Protocol = 30
  Push = FALSE
  BufCap = 0
  Compress = FALSE
  CanVanish = TRUE
  CanDrop = TRUE
  DiskFails = TRUE
INVARIANTS
  LockStep
  RightFile
PROPERTIES
  ImplementsFileSync
  Termination
