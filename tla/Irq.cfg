CONSTANTS
  XLEN = 32
  Spurious = FALSE
  Scheduler <- Schedulers
  MaxTasks <- Room
  Handle = {"t3", "t4", "t5"}
SPECIFICATION IrqSpec
INVARIANTS
  HandlerAtLoopHead
  RunsWhereAwaited
  NoneDropped
PROPERTY
  Alternates
