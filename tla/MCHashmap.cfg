SPECIFICATION Spec
CONSTANTS
  KeyBits = {0, 1, 2, 3, 4, 5}
  MaxEntries <- MCMaxEntries
CHECK_DEADLOCK FALSE
INVARIANTS
  TypeOK
  RoundTrip
  ShortestLabels
  AugRoundTrip
