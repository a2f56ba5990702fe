CONSTANTS
  CommandLines <- AllLines
  IntegerOf <- Integers_
  IntMax = 100
  Hostname = "host"
  Names = {"SYSGUARDD_ALERT_WEBHOOK_URL", "LANG"}
  WebhookName = "SYSGUARDD_ALERT_WEBHOOK_URL"
  Unset = Unset
  Environments <- AllEnvironments
  DotenvFiles <- AllDotenvFiles
  FileSystems <- AllFileSystems
  DaemonLines <- Documented
SPECIFICATION Spec
INVARIANTS
  StartupTypeOK
  ServingConfigIsSound
  UrlPrecedence
  LastOptionWins
  DaemonServesOrFails
