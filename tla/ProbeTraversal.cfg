SPECIFICATION Spec
CONSTANTS
  Objects <- MCObjects
  Root = "root"
  Secrets = {"secret"}
  TooLong = {"long"}
  Unreadable = "getter"
  SensitiveNames = {1, 2}
  Graphs <- MCGraphs
  Runtimes = {"typescript", "python"}
  Maxima = {3, 5, 9}
  MaxKeys = 2
  MaxDepth = 2
INVARIANTS
  UntruncatedMissesNothing
  PythonFindsSecretsInReach
CHECK_DEADLOCK FALSE
