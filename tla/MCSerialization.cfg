CONSTANTS
  MaxCellBits = 1023
  MaxCellRefs = 4
  MaxOutListActions = 2
  IndexBase = 4
  AddressHashBytes = 2
SPECIFICATION Spec
INVARIANTS RoundTrip Canonical RefusedForAReason BagRoundTrip TypoIsHarmless VerifiedIsAsked
  ViewsAgree
CHECK_DEADLOCK FALSE
