SPECIFICATION FairSpec
CONSTANTS
  BufferSize = 4
  TxBufferSize = 2
  Lengths = {1, 3}
  ErrorLength = 2
  MaxBytes = 9
  MaxErrors = 2
INVARIANTS
  TypeOK
  OnceInOrder
PROPERTIES
  EverythingLeaves
CHECK_DEADLOCK FALSE
