CONSTANTS
  Manager = {m1, m2, m3}
  MaxAlive = 2
  Graphs <- ThreeGraphs
  Bounds = {415}
  PerBlock = 2530
  None = None
SPECIFICATION Spec
INVARIANTS
  SetFollowsManagers
  GraphIsCovered
