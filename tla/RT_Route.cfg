SPECIFICATION Spec
CONSTANTS
  Node <- MCNode
  Type <- MCType
  Capacity <- MCCapacity
  Edge <- MCEdge
  Short <- MCShort
  Net = {"clk", "n1", "n2"}
  SortedNets <- MCSortedNets
  GlobalNets = {"clk"}
  Source <- MCSource
  Sinks <- MCSinks
  Box <- MCBox
  Class = {"a"}
  ClassSource <- MCClassSource
  NumLocalOpins <- MCNumLocalOpins
  MinIncrementalFanout = 2
  OpinLockIteration = 1
  MaxIterations = 4
  Algorithms = {"TIMING_DRIVEN", "BREADTH_FIRST"}
INVARIANTS
  TypeOK
  OccupancyExact
  TracesLegal
PROPERTIES
  PruneIsExact
  RoutesLegally
