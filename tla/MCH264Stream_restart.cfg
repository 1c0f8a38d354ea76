SPECIFICATION Spec
CONSTANTS
  NoShape = NoShape
  IdRange = 8
  MaxChunks = 2
  Sizes = {2}
  OutboundSlots = 2
  MaxUnits = 4
  MaxRestarts = 1
  Lifetime = 2
  WholeUnitLoss = FALSE
INVARIANTS UnitIntact
CHECK_DEADLOCK FALSE
