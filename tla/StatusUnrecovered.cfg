SPECIFICATION MCSpec
CONSTANTS
  Units = {u1}
  Window = 2
  QueueMax = 2
  MaxEpisodes = 1
  MaxBlind = 0
  MaxWarnings = 0
  MaxSignals = 2
  MaxTime = 3
  Jobs <- MCJobs
  Plan <- MCPlan
  MinutesPerHour = 2
  HoursPerDay = 2
  DaysPerWeek = 2
  Slack = 1
  MaxClock = 0
  MaxValue = 11
PROPERTIES
  CriticalUntilRecovered
CHECK_DEADLOCK FALSE
