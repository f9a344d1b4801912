SPECIFICATION Spec
CONSTANTS
  DigestRank <- MCDigestRank
  ExternalRank <- MCExternalRank
  MaxObservations = 8
  Manifest <- MCManifest
  Program <- MCProgram
  Feeds <- MoreFeeds
  MaxBundles = 1
  MaxRuns = 2
  NoBundle = NoBundle
  Rejected = Rejected
  None = None
  ApprovedTools = {"prowler", "trivy"}
  NativeProviders = {"aws"}
  ReadOnlyTransports = {"GET"}
  UntrimmedTexts = {" padded"}
  MaxRecords = 2
  MaxValidity <- MCLanes
  MaxTime = 10
INVARIANTS
  TypeIncompatibleIsUnknown
CHECK_DEADLOCK FALSE
