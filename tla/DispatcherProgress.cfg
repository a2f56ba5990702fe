CONSTANTS
  Callers = {c1, c2}
  Exes = {e1}
  Severities = {"info", "warning"}
  MinSeverity = "warning"
  Keys <- AllKeys
  Configured = TRUE
  Capacity = 2
  MaxAlerts = 4
  NoThread = NoThread
  RateLimit = 1
  DedupeWindow = 2
  Second = 1
  Minute = 1
  WallSteps <- DisciplinedClock
  MaxTime = 1
  MaxWall = 0
SPECIFICATION FairSpec
PROPERTIES
  ImplementsChannel
  CallersReturn
  AcceptedSettle
  ShutdownCompletes
