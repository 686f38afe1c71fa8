SPECIFICATION MCSpec
CONSTANTS
  MaxLines = 4
  MaxTasks = 2
  Quits = {q1, q2}
  Limit = 1
  MaxCards = 2
  MaxEvents = 1
INVARIANTS
  OnceInOrder
PROPERTIES
  LinesComeThrough
  ImplementsCalls
  QuitEndsBridge
CHECK_DEADLOCK FALSE
