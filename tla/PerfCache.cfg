CONSTANTS
  Points = 16
  UpperBounds = {16, 47, 104}
  Overhead <- LinearOverhead
  Slope <- LinearSlope
  Grain = 5
  Stray = {0, 50}
  CutAt = {0, 1, 15}
  MaxKills = 1
  MaxRestarts = 2
SPECIFICATION Spec
INVARIANTS
  DeduceIsAccurate
  CutCpuFileIsNotTrusted
