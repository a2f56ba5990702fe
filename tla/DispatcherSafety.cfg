CONSTANTS
  Callers = {c1, c2}
  Exes = {e1}
  Severities = {"info", "warning", "critical"}
  MinSeverity = "warning"
  Keys <- AllKeys
  Configured = TRUE
  Capacity = 2
  MaxAlerts = 4
  NoThread = NoThread
  RateLimit = 1
  DedupeWindow = 2
  Second = 1
  Minute = 1
  WallSteps <- DisciplinedClock
  MaxTime = 2
  MaxWall = 0
SPECIFICATION Spec
SYMMETRY CallerSymmetry
INVARIANTS
  DispatcherTypeOK
  MutexOwnership
  NoLostWakeup
  NewestSurvive
  DuplicateOfSent
  SettledWhenGone
PROPERTY
  GuardedByMutex
