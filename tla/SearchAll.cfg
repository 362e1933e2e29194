CONSTANTS
  Kinds = {"PSO", "AOA", "RSA"}
  PointNum = 3
  IterNum = 3
  DimNum = 1
  Seeds = 2
  Limit = 100
  Coord <- ThreeCoord
  NaN = NaN
  Values = {1, 2}
  MaxValue = 3
  NoPoint = NoPoint
SPECIFICATION Spec
INVARIANTS
  BestAtATime
  PersonalBest
  AOAOnlyRecombines
PROPERTIES
  RefinesSearch
