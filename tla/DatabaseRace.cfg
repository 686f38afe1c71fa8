SPECIFICATION MCSpec
CONSTANTS
  Writers = {insert}
  Cleaners = {cleanup}
  MaxOps = 2
  MaxRuns = 1
  Interval = 2
  Limit = 2
  MaxLag = 1
  MaxEvents = 3
  MaxTime = 6
INVARIANTS
  HandledIsStored
CHECK_DEADLOCK FALSE
