SPECIFICATION FairSpec
CONSTANTS
  NbPorts = 2
  NbSlaves = 2
  Machines <- TwoMachines
  MaxTxQueue = 2
  Address = {"a", "b"}
  Rules <- TwoRules
  Load <- TwoAndNone
  MaxBurst = 2
  RxRing = 2
  TxRing = 1
  PollTsc = 1
  MaxTick = 1
INVARIANTS
  TypeOK
  OneReader
  QueuesAreSetUp
  LeavesByItsPort
PROPERTIES
  IsOutputQueuedSwitch
  EveryPacketLeaves
