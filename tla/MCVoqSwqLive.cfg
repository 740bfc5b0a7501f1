SPECIFICATION FairSpec
CONSTANTS
  NbPorts = 2
  Host <- MCHost
  HostPort <- MCHairpinPort
  Conn <- MCConn
  Dcm <- MCIncastDcm
  Ros <- MCRos
  Sport <- MCSport
  Dport <- MCDport
  Event = {"e1"}
  ReqSink = "ffffffff"
  Load <- MCLoadLive
  RxLcore = {"l0", "l1"}
  TxLcore = {"l0", "l1"}
  RxLcoreOf <- MCLcoreOf
  TxLcoreOf <- MCLcoreOf
  MaxDataFlows = 4
  IntBits = 4
  FdirGens = 2
  RingSize = 1
  Burst = 2
  NicQueueSize = 2
  None = None
PROPERTIES
  IsLosslessSwitch
  FastPathDrains
  HandlerFinishes
