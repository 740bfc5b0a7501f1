SPECIFICATION Spec
CONSTANTS
  NbSlaves = 1
  NbPorts = 2
  MaxEthPorts = 3
  Machines <- OneNode
  MaxRxQueue = 2
  Address = {"a", "none"}
  Rules <- OneRule
  NoRule = "none"
  Load <- FiveAndNone
  Trains = {1}
  MaxBurst = 4
  TxRing = 1
  DrainTsc = 1
  MaxTick = 1
  DstPorts <- NoBursts
INVARIANTS
  TypeOK
PROPERTIES
  IsOutputQueuedSwitch
