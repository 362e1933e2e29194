CONSTANTS
  Task <- ForkTask
  DepSeq <- ForkDepSeq
  Logic <- ForkLogic
  Orders <- ForkOrders
  Cost <- ForkCost
  Energy <- ForkEnergy
  MaxRounds = 1
  Nobody = Nobody
SPECIFICATION FairSpec
INVARIANTS
  NoVirtualOverlap
PROPERTIES
  RefinesStageGraph
  WorkloadReturns
