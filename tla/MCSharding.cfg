SPECIFICATION Spec
CONSTANTS
  Code <- MCCode
  Function <- MCFunction
  Entry <- MCEntry
  Width <- MCWidth
  NumInputs <- MCNumInputs
  NumOutputs <- MCNumOutputs
  Effectless <- MCCacheable
  Cacheable <- MCCacheable
  Limit = 4
  Address <- MCAddress
  Main = "main"
  ShardFun = "step"
  Inputs <- MCInputs
  ShardSteps <- MCShardSteps
  Meaning <- MCMeaning
CHECK_DEADLOCK FALSE
INVARIANTS
  StackDiscipline
  CallsReturnMeaning
  CallsAreBacked
  ShardsReplayExecution
  FailureIsTraced
