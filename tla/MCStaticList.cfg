CONSTANTS
  N = 4
  Value = {v1, v2}
SPECIFICATION Spec
INVARIANTS
  WellFormed
  Partition
PROPERTIES
  LiveEntriesStable
  ImplementsBoundedList
