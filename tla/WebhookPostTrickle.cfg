CONSTANTS
  Urls <- AnyUrl
  DigitValue <- Digits
  Controls <- ControlCharacters
  RequestParts = 2
  SendBuffer = 1
  StatusParts = 2
  ResponseCap = 3
  Endless = TRUE
  MaxParts = 4
SPECIFICATION FairSpec
PROPERTY
  PostReturns
