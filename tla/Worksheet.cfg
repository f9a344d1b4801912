SPECIFICATION FairSpec
CONSTANTS
  Questions <- MCQuestions
  Version = "v1"
  BlankTexts <- MCBlankTexts
  LegalTexts <- MCLegalTexts
  Identifiers <- MCIdentifiers
  Dates <- MCDates
  Garbage = Garbage
  None = None
  Contexts <- MCContexts
  Entries <- MCEntries
  Files <- MCFiles
  Packets <- MCPackets
  Views = {"all", "gaps"}
  MaxReads = 2
INVARIANTS
  OneImportAtATime
  SummaryIsCurrent
  BrowserAndCliAgree
  ContentWhenComplete
PROPERTIES
  NoSilentLoss
  NoStaleImport
  ImportsEnd
CHECK_DEADLOCK FALSE
