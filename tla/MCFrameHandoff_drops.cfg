CONSTANTS
  FramePoolSlots = 4
  Source = "thread"
  MaxFrames = 6
  ReportEvery = 300
SPECIFICATION Spec
PROPERTY DropsOnlyWhenSenderOwnsAll
CHECK_DEADLOCK FALSE
