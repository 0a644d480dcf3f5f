CONSTANTS
  r1 = r1
  r2 = r2
  Request <- McRequest
  NoRequest = NoRequest
  Worker = {w1, w2}
  NoWorker = NoWorker
  Node <- McNode
  NoNode = NoNode
  StartNode = "start"
  Kind <- McKind
  Outgoing <- WorkLoop
  TaskType <- McTaskType
  Var <- McVar
  Val <- McVal
  Unset = Unset
  Inputs <- McInputs
  Outputs <- McOutputs
  MaxInstances = 1
  MaxJobs = 1
  MaxTasks = 0
  MaxIncidents = 1
  MaxSteps = 3
SPECIFICATION Spec
SYMMETRY Symmetry
PROPERTIES
  LockIsExclusive
CHECK_DEADLOCK FALSE
