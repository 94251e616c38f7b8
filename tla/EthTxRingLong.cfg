SPECIFICATION FairSpec
CONSTANTS
  DescCount = 4
  p1 = p1
  p2 = p2
  p3 = p3
  NoPbuf = NoPbuf
  Pbufs <- MCPbufs
  ChainLen <- LongChains
  WritebackKeepsFlags = FALSE
  TailAtCurrentStarts <- TailMayStart
PROPERTIES
  ImplementsTxQueue
  DescriptorsComeBack
