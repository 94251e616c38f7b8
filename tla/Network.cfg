SPECIFICATION FairSpec
CONSTANTS
  sMaxDhcpTries = 2
  MaxTries = 6
  Modes = {"FullDuplex100Mbit", "HalfDuplex10Mbit"}
  sMaxDevAddr = 31
  PhyAddr = 1
INVARIANTS
  TypeOK
  StateFollowsLink
  MacFollowsPhy
  WaitsForClient
PROPERTIES
  LinkFollowsPhy
  WaitEndsInAddress
