SPECIFICATION Spec
CONSTANTS
  DigestRank <- MCDigestRank
  ExternalRank <- MCExternalRank
  MaxObservations = 5
  None = None
  NoDossier = NoDossier
  Manifest <- MCManifest
  Program <- MCProgram
  Drafts <- MCDrafts
  Papers <- MCPapers
  Requests <- MCRequests
  Responses <- MCResponses
  Observations <- MCObservations
  FailOn = {1, 3, 5, 6}
INVARIANTS
  CountsTestsWithExceptions
CHECK_DEADLOCK FALSE
