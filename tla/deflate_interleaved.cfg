SPECIFICATION DeflateSpec
CONSTANTS
  MaxOps = 3
  MaxBlock = 2
  RelLimit = 3
  RunLimit = 3
  Interleaved = TRUE
INVARIANTS
  RoundTrip
