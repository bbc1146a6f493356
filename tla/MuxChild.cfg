SPECIFICATION FairSpec
CONSTANTS
  Readers = {r1, r2}
  ChunkSizes = {1, 2}
  ReadSizes = {1}
  MaxBytes = 3
  MaxChunks = 2
  MaxSets = 2
INVARIANTS NoLostWakeup SoleReaderFindsData
PROPERTIES ImplementsStream WaitsEnd
CHECK_DEADLOCK FALSE
