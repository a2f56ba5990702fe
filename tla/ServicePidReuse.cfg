CONSTANTS
  Pids = {1, 2, 3}
  SelfPid = 2
  Exes <- Texts
  DeniedExes <- DeniedTexts
  Modes = {"enforce"}
  Alerting = FALSE
  PidsReused = TRUE
  MayCrash = FALSE
  OutputMayFail = FALSE
  MaxLines = 3
  MaxAhead = 3
  MaxRuns = 2
SPECIFICATION Spec
INVARIANT
  KilledAsReported
