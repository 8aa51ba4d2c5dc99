SPECIFICATION Spec
CONSTANTS
  NFiles = 2
  Leader <- LinkedPair
  NInodes = 6
  OptionSets <- Combinations
  Size <- TwoSizes
  Limits = {5}
  CopyFails = FALSE
  MaxClock = 2
  MaxRuns = 2
INVARIANTS
  NoTornFile
  UpToDate
  GroupsAgree
PROPERTIES
  SnapshotIntact
  NeverBack
CHECK_DEADLOCK FALSE
