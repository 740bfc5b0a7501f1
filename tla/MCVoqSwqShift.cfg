SPECIFICATION Spec
CONSTANTS
  NbPorts = 2
  Host <- MCHost
  HostPort <- MCHairpinPort
  Conn <- MCConn
  Dcm <- MCHairpinDcm
  Ros <- MCRos
  Sport <- MCSport
  Dport <- MCDport
  Event = {"e1", "e2"}
  ReqSink = "ffffffff"
  Load <- MCLoadReqs
  RxLcore = {"l0", "l1"}
  TxLcore = {"l0", "l1"}
  RxLcoreOf <- MCLcoreOf
  TxLcoreOf <- MCLcoreOf
  MaxDataFlows = 8
  IntBits = 4
  FdirGens = 4
  RingSize = 2
  Burst = 2
  NicQueueSize = 2
  None = None
INVARIANT
  PolledRingsExist
