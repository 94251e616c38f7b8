SPECIFICATION FairSpec
CONSTANTS
  b1 = b1
  b2 = b2
  k1 = k1
  k2 = k2
  Null = Null
  Pbufs <- TwoPbufs
  Pcbs <- TwoPcbs
  MaxConnections = 2
  SndBuf = 2
  MaxChain = 2
  CloseErrors <- AnyCloseError
INVARIANTS
  TypeOK
  PbufsAccounted
  LiveControlBlocks
PROPERTIES
  ImplementsEcho
  ClosingCloses
  BacklogMoves
