SPECIFICATION Spec
CONSTANTS
  NPods = 2
  NPlanes = 2
  Spines <- TheSpines
  SpineLists <- TheLists
  BridgeLists <- TheBridges
  EndNodes <- TheEnds
  PodOf <- ThePods
  DefaultPlane = 2
  DefaultSpine = 2
  Procs = {"p", "q"}
  NodeOf <- TheNodes
  Inflows <- TheInflows
  Src <- TheSources
  Modes = {"none", "all"}
  MaxScripts = 2
  Ending = {"p"}
  MaxPending = 2
INVARIANTS
  TypeOK
  NeverAstray
  Distributed
  RemovesScannedIds
PROPERTIES
  PathsAreKept
