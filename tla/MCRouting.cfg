CONSTANTS
  r1 = r1
  r2 = r2
  Request <- McRequest
  NoRequest = NoRequest
  Worker = {w1}
  NoWorker = NoWorker
  Node <- McNode
  NoNode = NoNode
  StartNode = "start"
  Kind <- McKind
  Outgoing <- McOutgoing
  TaskType <- McTaskType
  Var <- McVar
  Val <- McVal
  Unset = Unset
  Inputs <- McInputs
  Outputs <- McOutputs
  MaxInstances = 1
  MaxJobs = 1
  MaxTasks = 1
  MaxIncidents = 1
  MaxSteps = 3
SPECIFICATION FairSpec
INVARIANTS
  IInv
PROPERTIES
  EveryRequestAnswered
  EveryInstanceSettles
CHECK_DEADLOCK FALSE
