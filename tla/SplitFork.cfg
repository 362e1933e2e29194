CONSTANTS
  Task <- ForkTask
  DepSeq <- ForkDepSeq
  N = 3
  Logic = {2}
  Orders <- BothOrders
  Ratios = {0, 1, 33, 50, 100}
  Sizes = {0, 10, 2048, 4096}
SPECIFICATION SplitSpec
INVARIANTS
  MapCoversSuccessors
  OperandsApart
  TransferIsCounted
