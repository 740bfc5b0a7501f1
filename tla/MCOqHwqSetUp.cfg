SPECIFICATION FairSpec
CONSTANTS
  NbSlaves = 4
  NbPorts = 2
  MaxEthPorts = 3
  Machines <- ThreeMachines
  MaxRxQueue = 1
  Address = {"a", "m"}
  Rules <- TwoRules
  NoRule = "none"
  Load <- FiveAndNone
  Trains = {3}
  MaxBurst = 12
  TxRing = 1
  DrainTsc = 1
  MaxTick = 1
  DstPorts <- Bursts
INVARIANTS
  ListsFit
  GroupingIsRight
  RemoteOnlyWhenShort
PROPERTIES
  IsOutputQueuedSwitch
  SetUpEnds
  EveryPacketLeaves
