SPECIFICATION MCSpec
CONSTANTS
  Polling = {"services"}
  Buffering = {"journald"}
  Watching = {"pacman"}
  FailsToStart = {"db", "scheduler"}
  FailsToStop = {"scheduler", "journald"}
  QueueMax = 2
  MaxEvents = 4
  MaxRuns = 3
  Reloads = {r1, r2}
INVARIANTS
  NoneUnheard
  ReportIsRight
  ShutsDownAll
  OneClientOpen
  BriefingComesOut
CHECK_DEADLOCK FALSE
