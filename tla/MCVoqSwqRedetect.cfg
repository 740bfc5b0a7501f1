SPECIFICATION Spec
CONSTANTS
  NbPorts = 2
  Host <- MCHost
  HostPort <- MCIncastPort
  Conn <- MCConn
  Dcm <- MCIncastDcm
  Ros <- MCRos
  Sport <- MCSport
  Dport <- MCDport
  Event = {"e1"}
  ReqSink = "ffffffff"
  Load <- MCLoadBurst
  RxLcore = {"l0", "l1"}
  TxLcore = {"l0", "l1"}
  RxLcoreOf <- MCLcoreOf
  TxLcoreOf <- MCLcoreOf
  MaxDataFlows = 8
  IntBits = 4
  FdirGens = 4
  RingSize = 2
  Burst = 3
  NicQueueSize = 3
  None = None
INVARIANT
  DetectedOncePerBurst
