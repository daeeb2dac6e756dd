CONSTANTS
  XLEN = 32
  Spurious = TRUE
  Handle = {"t0", "t1"}
  MaxTasks = 2
  Condition <- Times
  ReadyToWake <- DelayReady
  None = None
  Tick = 2
  Period <- Periods
  Garbage = {0, 5}
  MaxAwait = 5
  MaxTime = 12
SPECIFICATION LoopSpec
INVARIANTS
  AtomicSleep
  OncePerArm
  SleepBounded
PROPERTY
  EveryoneWakes
