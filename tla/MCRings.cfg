CONSTANTS
  Ids = {a, b}
  Uninit = Uninit
  Capacity = 4
  CursorRange = 8
  FramePoolSlots = 4
SPECIFICATION RingsSpec
INVARIANTS
  CellsExclusive
  CellAccessesOrdered
  PopReturnsOldest
  NeverRefused
  LearnsTheWay
PROPERTIES
  QueueSpec
  RingsAreQueues
