CONSTANTS
  FileSystems <- ChangingHosts
  Missing = Missing
  Relative = Relative
  Beginnings <- NameBeginnings
  Policies <- SamplePolicies
  Executables <- AllExecutables
  ReadMayFail = TRUE
  MaxChanges = 2
  MaxAnswers = 2
SPECIFICATION Spec
CHECK_DEADLOCK FALSE
INVARIANTS
  PolicyTypeOK
  NoAliasEscapes
  OneVerdictPerFile
  NoHalfPolicy
