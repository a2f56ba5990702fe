CONSTANTS
  FileSystems <- PlainHosts
  Missing = Missing
  Relative = Relative
  Beginnings <- NameBeginnings
  Policies <- SamplePolicies
  Executables <- AllExecutables
  ReadMayFail = FALSE
  MaxChanges = 2
  MaxAnswers = 2
SPECIFICATION Spec
CHECK_DEADLOCK FALSE
INVARIANT
  PrefixIsDirectory
