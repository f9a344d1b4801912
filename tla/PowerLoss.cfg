SPECIFICATION LossSpec
CONSTANTS
  Proc = {p1, p2, p3}
  D = D
  P1 = P1
  File = {D}
  Dir = {P1}
  Documents = 1
  Chunks = 2
  Jobs <- LossJobs
  Faults = {"error"}
  NoProc = NoProc
  NoPath = NoPath
  NoDir = NoDir
  MaxLosses = 2
INVARIANTS
  VouchedFilesNotTorn
CHECK_DEADLOCK FALSE
