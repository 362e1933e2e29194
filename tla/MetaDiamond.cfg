CONSTANTS
  Task = {0, 1, 2, 3}
  DepSeq <- DiamondPreds
  ComputeBound <- DiamondComputeBound
  Algorithm = {0, 1, 2}
  Points <- ThreePoints
  Outcomes <- VaryingOutcomes
  Alpha = 2
  Beta = 8
  InitialBest = 2000
  PointNum = 2
  IterNum = 2
  MaxValue = 20000
  NoPoint = NoPoint
SPECIFICATION Spec
INVARIANTS
  Executable
  ReturnsTheBest
  OnlyHopelessUndefined
