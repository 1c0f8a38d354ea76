CONSTANTS
  FramePoolSlots = 3
  Source = "thread"
  MaxFrames = 5
  ReportEvery = 2
  FrameSize = 2
  FileLength = 5
SPECIFICATION SourcesSpec
INVARIANTS
  CycleInv
  NoPanic
  SlotExclusive
  SlotContents
  EveryFrameAccounted
  FramesOfTheFile
  WholeFileNeverFails
PROPERTIES
  SentInOrder
  SenderFollowsStop
  SenderReturnsSlots
CHECK_DEADLOCK FALSE
