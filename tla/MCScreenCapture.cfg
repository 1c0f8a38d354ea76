CONSTANTS
  FramePoolSlots = 2
  Source = "callback"
  MaxFrames = 5
  ReportEvery = 2
  RowBytes = 2
  Height = 2
  Memory = 5
  Offsets = {0, 1}
  Sizes = {3, 4, 5}
  Strides <- StridesMC
  MaxCallbacks = 5
SPECIFICATION ScreenSpec
INVARIANTS
  OnlyExpectedShape
  CallbacksAccounted
PROPERTIES
  ImplementsHandoff
CHECK_DEADLOCK FALSE
