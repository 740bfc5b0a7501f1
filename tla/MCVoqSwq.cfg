SPECIFICATION Spec
CONSTANTS
  NbPorts = 2
  Host <- MCHost
  HostPort <- MCIncastPort
  Conn <- MCConn
  Dcm <- MCIncastDcm
  Ros <- MCRos
  Sport <- MCSport
  Dport <- MCDport
  Event = {"e1", "e2", "e3"}
  ReqSink = "ffffffff"
  Load <- MCLoadMain
  RxLcore = {"l0", "l1"}
  TxLcore = {"l0", "l1"}
  RxLcoreOf <- MCLcoreOf
  TxLcoreOf <- MCLcoreOf
  MaxDataFlows = 4
  IntBits = 2
  FdirGens = 2
  RingSize = 1
  Burst = 2
  NicQueueSize = 2
  None = None
INVARIANTS
  TypeOK
  RingServed
  SinkIsolation
  OneSlotPerSink
  AnswersBeforeRequests
  FdirIdsUniqueUntilWrap
