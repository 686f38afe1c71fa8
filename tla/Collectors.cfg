SPECIFICATION MCSpec
CONSTANTS
  Gauges = {"psi_memory"}
  Programs = {"browser", "compiler"}
  Devices = {"nvme0"}
  Keys = {}
  TopProcs = 1
  WindowSize = 8
  Cooldown = 5
  MaxMissed = 2
  MaxErrors = 2
  Peers = {"laptop"}
  Endpoints = {"sshd"}
  Dumps = {"dump"}
  Files = {"pacman.conf.pacnew"}
  Packages = {"openssl"}
  SlowEvery = 2
  MaxTools = 1
  MaxOrphans = 2
  MaxCrashes = 2
INVARIANTS
  AlertsAreTold
  DiskFillIsTold
  NewsIsToldOnce
PROPERTIES
  KeepsWatching
CHECK_DEADLOCK FALSE
