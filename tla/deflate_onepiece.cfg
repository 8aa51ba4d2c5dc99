SPECIFICATION DeflateSpec
CONSTANTS
  MaxOps = 5
  MaxBlock = 5
  RelLimit = 3
  RunLimit = 3
  Interleaved = FALSE
INVARIANTS
  RoundTrip
  SameDictionary
