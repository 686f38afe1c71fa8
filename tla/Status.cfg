SPECIFICATION MCSpec
CONSTANTS
  Units = {u1}
  Window = 2
  QueueMax = 2
  MaxEpisodes = 2
  MaxBlind = 1
  MaxWarnings = 1
  MaxSignals = 2
  MaxTime = 2
  Jobs <- MCJobs
  Plan <- MCPlan
  MinutesPerHour = 2
  HoursPerDay = 2
  DaysPerWeek = 2
  Slack = 1
  MaxClock = 6
  MaxValue = 11
INVARIANTS
  TrayTellsOfCritical
  OneReportPerFailure
  MinutesAreMet
  StopEndsJobs
  FieldAgrees
PROPERTIES
  TrayComesRight
CHECK_DEADLOCK FALSE
