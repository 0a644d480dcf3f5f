CONSTANTS
  r1 = r1
  r2 = r2
  Request = {r1}
  NoRequest = NoRequest
  Worker = {w1}
  NoWorker = NoWorker
  Node <- McNode
  NoNode = NoNode
  StartNode = "start"
  Kind <- McKind
  Outgoing <- ReviewLoop
  TaskType <- McTaskType
  Var <- McVar
  Val <- McVal
  Unset = Unset
  Inputs <- McInputs
  Outputs <- McOutputs
  MaxInstances = 1
  MaxJobs = 2
  MaxTasks = 2
  MaxIncidents = 1
  MaxSteps = 3
SPECIFICATION QuerySpec
INVARIANTS
  AnswerWasTrue
CHECK_DEADLOCK FALSE
