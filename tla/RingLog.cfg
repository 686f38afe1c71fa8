SPECIFICATION Spec
CONSTANTS
  MaxLines = 2
  MaxArchives = 1
  SyncInterval = 2
  TailLines = 3
  MaxWrites = 5
  MaxClock = 3
  MaxBack = 1
  MaxCrashes = 1
INVARIANTS
  TailIsNewest
  
CHECK_DEADLOCK FALSE
