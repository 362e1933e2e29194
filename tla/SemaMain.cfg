CONSTANTS
  NumVertices = 6
  OutEdges <- MainOutEdges
  Duration <- MainDuration
  Worker = {w1, w2, w3}
  NotStarted = NotStarted
SPECIFICATION FairSpec
INVARIANTS
  InputsReleased
  TimerIsLatestEnd
  StartIsAnInput
PROPERTIES
  Terminates
