SPECIFICATION FairSpec
CONSTANTS
  BufferCount = 4
  DescCount = 2
  Frames <- MCFrames
  Sizes <- MCSizes
INVARIANTS
  TypeOK
  BuffersConserved
  PacketsWhole
  OffOnlyWhenHeld
PROPERTIES
  ReceivedIsRead
