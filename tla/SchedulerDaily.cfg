SPECIFICATION MCSpec
CONSTANTS
  Units = {u1}
  Window = 2
  QueueMax = 2
  MaxEpisodes = 0
  MaxBlind = 0
  MaxWarnings = 0
  MaxSignals = 1
  MaxTime = 0
  Jobs <- Daily
  Plan <- MCPlan
  MinutesPerHour = 2
  HoursPerDay = 2
  DaysPerWeek = 2
  Slack = 1
  MaxClock = 12
  MaxValue = 11
INVARIANTS
  FiresWhenMatched
CHECK_DEADLOCK FALSE
