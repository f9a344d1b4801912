SPECIFICATION Spec
CONSTANTS
  MaxOutput = 1
  MaxResult = 3
  Pieces <- MCPieces
INVARIANTS
  ObservationIsWhole
  InvalidMeansInvalid
  NoChildOutlivesItsProbe
PROPERTIES
  ProbeEnds
CHECK_DEADLOCK FALSE
