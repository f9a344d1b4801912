SPECIFICATION Spec
CONSTANTS
  Proc = {p1, p2, p3}
  D = D
  R = R
  P1 = P1
  P2 = P2
  File = {D}
  Dir = {P1, P2}
  Documents = 2
  Chunks = 2
  Jobs <- ContendingJobs
  Faults = {"error", "kill"}
  NoProc = NoProc
  NoPath = NoPath
  NoDir = NoDir
INVARIANTS
  TypeOK
  OutcomeSound
  ManifestSealsPacket
  PublishedFromWhole
PROPERTIES
  FrozenOnceEnded
  KeepsPromise
CHECK_DEADLOCK FALSE
