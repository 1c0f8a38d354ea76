SPECIFICATION Spec
CONSTANTS
  NoShape = NoShape
  IdRange = 8
  MaxChunks = 2
  Sizes = {2}
  OutboundSlots = 2
  MaxUnits = 4
  MaxRestarts = 0
  Lifetime = 2
  WholeUnitLoss = TRUE
INVARIANTS PicturesSound
CHECK_DEADLOCK FALSE
