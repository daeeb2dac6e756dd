CONSTANTS
  Scheduler = {"a", "b"}
  Handle = {"t1", "t2", "t3", "t4"}
  MaxTasks <- Room
SPECIFICATION Spec
INVARIANTS
  OneHolder
PROPERTIES
  LostOnlyWhenFull
  ResumeReturns
  EveryoneResumed
