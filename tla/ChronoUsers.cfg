CONSTANTS
  User = {"operator", "transfer operator", "pool", "test"}
  Size = {1, 2}
  Socket = {1, 2}
  Reading <- Runs
  BiasReading <- Biases
  PROBE_REP = 2
  BiasRepeat = 2
  Jobs = 2
  Unit = 840
  DblMax = 1000000
SPECIFICATION ChronoSpec
INVARIANTS
  StatsMatchData
  ProbeIsFresh
  CorrectedIsConsistent
  UndefinedOnlyAfterQuery
