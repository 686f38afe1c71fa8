SPECIFICATION MCSpec
CONSTANTS
  f1 = f1
  f2 = f2
  journald = journald
  Fps <- MCFps
  Sources <- MCSources
  SourceOf <- MCSourceOf
  Configs <- MCConfigs
  StartTimes <- MCStartTimes
  RateSpan = 4
  MaxRate = 2
  MinGap = 1
  MaxBaseline = 2
  MaxTime = 9
  MaxCount = 2
  BufferMax = 2
  YieldEvery = 2
  BatchTicks = 2
  HasDedup = TRUE
  MaxEntries = 3
INVARIANTS
  RateLimited
  Spaced
  CountWithinOne
  TrackedAreRecent
  EntriesOnceInOrder
  CritIsAnnounced
  StopFlushesBuffer
PROPERTIES
  EveryEntryLeaves
CHECK_DEADLOCK FALSE
