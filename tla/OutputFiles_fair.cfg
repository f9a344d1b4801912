SPECIFICATION FairSpec
CONSTANTS
  Proc = {p1, p2, p3}
  D = D
  R = R
  P1 = P1
  P2 = P2
  File = {D, R}
  Dir = {P1}
  Documents = 1
  Chunks = 1
  Jobs <- SingleJobs
  Faults = {}
  NoProc = NoProc
  NoPath = NoPath
  NoDir = NoDir
PROPERTIES
  EveryCommandEnds
  ContestedPathFilled
CHECK_DEADLOCK FALSE
