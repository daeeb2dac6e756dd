CONSTANTS
  Handle = {h1, h2, h3, h4, h5}
  MaxTasks = 4
  Condition = {0, 1, 2}
  ReadyToWake <- PriorityReady
  None = None
  Level = 0
SPECIFICATION EndingSpec
INVARIANTS
  WaitingSorted
  SoleOwner
  NoneLost
PROPERTIES
  LostOnlyWhenFull
  ResumesMostUrgent
  RunGivesNoNextWake
  EndsWithAllDone
