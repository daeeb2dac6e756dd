CONSTANTS
  Task <- Tasks
  FrameSize <- Sizes
  HeapSize = 8
SPECIFICATION FairHeapSpec
INVARIANTS
  FramesApart
  FailureIsFinal
PROPERTY
  MainEnds
CHECK_DEADLOCK FALSE
