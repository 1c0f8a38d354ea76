SPECIFICATION Spec
CONSTANTS
  NoShape = NoShape
  IdRange = 6
  MaxChunks = 2
  Sizes = {1, 2}
  Streams = {camera, screen}
  ReportEvery = 3
  MaxFrames = 7
  MaxRestarts = 1
  Lifetime = 2
INVARIANTS TypeOK FrameIntact EveryFrameOneOutcome
PROPERTIES EchoedOnceInOrder ShownInOrder
CHECK_DEADLOCK FALSE
SYMMETRY StreamSymmetry
