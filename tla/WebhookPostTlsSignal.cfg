CONSTANTS
  Urls <- TlsUrl
  DigitValue <- Digits
  Controls <- ControlCharacters
  RequestParts = 2
  SendBuffer = 1
  StatusParts = 2
  ResponseCap = 3
  Endless = FALSE
  MaxParts = 4
SPECIFICATION FairSpec
INVARIANT
  DaemonSurvives
