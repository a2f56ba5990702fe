CONSTANTS
  Keys = {k1, k2}
  RateLimit = 2
  DedupeWindow = 1
  Second = 2
  Minute = 4
  WallSteps <- SteppedClock
  MaxTime = 8
  MaxWall = 3
SPECIFICATION GateSpec
SYMMETRY KeySymmetry
INVARIANTS
  GateTypeOK
  RefillBudget
  AtMostTwicePerMinute
  DedupeSpacing
  MarkIsLastSend
