SPECIFICATION MCSpec
CONSTANTS
  Writers = {insert, update}
  Cleaners = {cleanup}
  MaxOps = 3
  MaxRuns = 2
  Interval = 2
  Limit = 2
  MaxLag = 1
  MaxEvents = 3
  MaxTime = 6
SYMMETRY Symmetry
INVARIANTS
  SchemaFits
  ReturnedIsThrough
  RaisesOnlyBeside
  NoneIsLeftOut
CHECK_DEADLOCK FALSE
