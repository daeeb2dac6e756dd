CONSTANTS
  Handle = {h1, h2}
  MaxTasks = 2
  Condition <- Times
  ReadyToWake <- DelayReady
  None = None
  Tick = 3
  Delay = {2, 4}
  MaxTime = 10
SPECIFICATION DelaySpec
INVARIANT NextWakeIsSoonest
