SPECIFICATION FairSpec
CONSTANTS
  Bytes <- TwoBytes
  DataFiles <- SomeData
  BasisFiles <- SomeBases
  BlockSize = 2
  MaxBlockSize = 5
  Scale = 2
  HalfWord = 16
  LenWord = 10
  ChunkSize = 2
  StrongAgrees = TRUE
INVARIANTS
  Tiled
  NoMissedMatch
  RollExact
  Rebuilt
PROPERTIES
  EndsRebuilt
