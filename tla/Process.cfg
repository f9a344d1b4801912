SPECIFICATION FairSpec
CONSTANTS
  Clients = {a, b}
  Requests <- MCRequests
  Settings <- MCSettings
  MinBodyBytes = 1
  MaxBodyBytes = 3
  None = None
  Unreadable = Unreadable
  BlankTargets = {" "}
  Redacted = Redacted
  NoSources = NoSources
  Invocations <- MCInvocations
  Configs <- MCConfigs
INVARIANTS
  OnlySignedWork
  CleanExit
  TargetsStayIn
PROPERTIES
  ShutdownEnds
CHECK_DEADLOCK FALSE
