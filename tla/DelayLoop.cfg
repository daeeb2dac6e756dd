CONSTANTS
  Handle = {h1, h2, h3}
  MaxTasks = 3
  Condition <- Times
  ReadyToWake <- DelayReady
  None = None
  Tick = 2
  Delay = {1, 3}
  MaxTime = 7
SPECIFICATION DelaySpec
INVARIANTS
  DelayTypeOK
  FalseMeansEmpty
PROPERTIES
  NeverATickEarly
  FifoTies
  EveryoneWakes
  MainExits
