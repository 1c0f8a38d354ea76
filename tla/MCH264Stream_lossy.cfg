SPECIFICATION Spec
CONSTANTS
  NoShape = NoShape
  IdRange = 8
  MaxChunks = 2
  Sizes = {1, 2, 3}
  OutboundSlots = 2
  MaxUnits = 4
  MaxRestarts = 1
  Lifetime = 2
  WholeUnitLoss = TRUE
INVARIANT UnitIntactWithinRun
PROPERTIES ShownInOrder FreshestSent
CHECK_DEADLOCK FALSE
