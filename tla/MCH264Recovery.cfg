SPECIFICATION FairSpec
CONSTANTS
  NoShape = NoShape
  IdRange = 8
  MaxChunks = 2
  Total = 2
  Gop = 2
  MaxSilent = 1
  MaxRestarts = 1
INVARIANTS TypeOK WholeUnitAssembled
PROPERTIES IdrEndsWait Recovers KeepsPresenting
