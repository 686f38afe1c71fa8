SPECIFICATION FairSpec
CONSTANTS
  typeA = typeA
  cb1 = cb1
  s1 = s1
  s2 = s2
  None = None
  Types <- MCTypes
  Callbacks <- MCCallbacks
  Stoppers <- MCStoppers
  MaxSize = 2
  MaxSubs = 1
  MaxLog = 3
  MaxTasks = 2
  OverlapStart = FALSE
INVARIANTS
  SingleDispatcher
  SeenInOrder
  WildcardSeesAll
PROPERTIES
  ImplementsBroadcastLog
  StopReturns
  AcceptedIsDispatched
