SPECIFICATION Spec
CONSTANTS
  Tree <- SmallTree
  Node <- SmallNodes
  Excluded <- Hidden
  Unreadable <- Closed
  Changing = {8}
  OptionSets <- SmallOptions
  DestTrees <- SmallDest
  ByteMax = 2
  MaxTime = 2
INVARIANTS
  AlignedList
  SameList
  SameIndex
  GroupsKept
  WalkComplete
  AllThere
