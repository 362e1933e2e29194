CONSTANTS
  Task <- VeeTask
  DepSeq <- VeeDepSeq
  Logic <- VeeLogic
  Orders <- VeeOrders
  Cost <- VeeCost
  Energy <- VeeEnergy
  MaxRounds = 2
  Nobody = Nobody
SPECIFICATION Spec
INVARIANTS
  DataReady
  DpuExclusive
  NoMissedWakeup
  WakerIsLatestInput
  EndsAfterInputs
  EnergyBalance
  ResultIsLastEnd
PROPERTIES
  CompletionsFinal
