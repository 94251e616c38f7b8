SPECIFICATION FairSpec
CONSTANTS
  sBufferSize = 4
  ReadSizes <- MCReadSizes
  MaxBytes = 10
  MaxErrors = 1
CHECK_DEADLOCK FALSE
INVARIANTS
  TypeOK
PROPERTIES
  ReadsTheStream
  ReadReturns
  Resynchronises
