CONSTANTS
  Urls <- AllUrls
  DigitValue <- Digits
  Controls <- ControlCharacters
  RequestParts = 2
  SendBuffer = 1
  StatusParts = 2
  ResponseCap = 3
  Endless = FALSE
  MaxParts = 4
SPECIFICATION FairSpec
INVARIANTS
  PostTypeOK
  NothingLeaks
  GoesWhereConfigured
  SuccessIsEarned
PROPERTY
  PostReturns
