SPECIFICATION Spec
CONSTANTS
  BufferSize = 4
  TxBufferSize = 2
  Lengths = {1, 3}
  ErrorLength = 2
  MaxBytes = 9
  MaxErrors = 0
INVARIANTS
  NonBlocking
CHECK_DEADLOCK FALSE
