SPECIFICATION Spec
CONSTANTS
  MaxLcores = 7
  MaxPorts = 4
  Nodes = {n0, n1}
  LcorePortMax = 2
INVARIANTS
  TypeOK
  ServedByOne
  RemoteOnlyWhenFull
  FailsOnlyWhenShort
  EvenOnOneNode
