SPECIFICATION FairSpec
CONSTANTS
  Modulus = 32
  Expiry = 5
  MaxGap = 3
INVARIANTS
  TypeOK
  ExactAwayFromWrap
PROPERTIES
  WrapIsLeftBehind
