CONSTANTS
  Task <- DiamondTask
  DepSeq <- DiamondDepSeq
  Entry = 0
  EntryRank = 7
  CostModels <- DiamondCostModels
  XferCost <- DiamondXferCost
  MaxCalls = 2
SPECIFICATION Spec
INVARIANTS
  OrderRespectsGraph
  InputsArrive
  NoOverlap
  EntryFirst
  RatiosFollowPlacement
