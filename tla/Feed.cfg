SPECIFICATION MCSpec
CONSTANTS
  MaxLines = 1
  MaxTasks = 1
  Quits = {q1}
  Limit = 2
  MaxCards = 3
  MaxEvents = 3
INVARIANTS
  FeedIsWhole
CHECK_DEADLOCK FALSE
