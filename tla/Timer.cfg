CONSTANTS
  Base = 4
  MaxHigh = 2
  Offset <- Offsets
  NoOffset = NoOffset
SPECIFICATION TimerSpec
INVARIANTS
  CompareWhereAsked
  NoSpuriousInterrupt
  NoMissedInterrupt
PROPERTIES
  ReadNotTorn
  SteadyWithinRange
