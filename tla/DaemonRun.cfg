CONSTANTS
  Pids = {2, 3}
  SelfPid = 2
  Exes <- Texts
  DeniedExes <- DeniedTexts
  Modes = {"monitor", "enforce"}
  Alerting = TRUE
  PidsReused = TRUE
  MayCrash = TRUE
  OutputMayFail = TRUE
  MaxLines = 3
  MaxAhead = 1
  MaxRuns = 2
  Capacity = 2
  Quiet = {"info", "warning"}
  Outcomes = {"delivered"}
SPECIFICATION FairDaemon
INVARIANTS
  ServiceTypeOK
  AuditInOrder
  AuditIsTrue
  DenialsAlerted
  AtMostOneUnaudited
  AlertsCorrelate
  AlertsInAuditOrder
  NothingForgotten
PROPERTIES
  InputHandled
  DaemonEnds
