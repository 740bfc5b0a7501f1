SPECIFICATION Spec
CONSTANTS
  NbPorts = 2
  Host <- MCHost
  HostPort <- MCHairpinPort
  Conn <- MCConn
  Dcm <- MCIncastDcm
  Ros <- MCRos
  Sport <- MCSport
  Dport <- MCDport
  Event = {"e1", "e2"}
  ReqSink = "ffffffff"
  Load <- MCLoadFull
  RxLcore = {"l0", "l1"}
  TxLcore = {"l0", "l1"}
  RxLcoreOf <- MCLcoreOf
  TxLcoreOf <- MCLcoreOf
  MaxDataFlows = 2
  IntBits = 2
  FdirGens = 2
  RingSize = 2
  Burst = 2
  NicQueueSize = 2
  None = None
INVARIANTS
  SinkIsolation
  AnswersBeforeRequests
