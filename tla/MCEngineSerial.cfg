CONSTANTS
  r1 = r1
  r2 = r2
  Request <- McRequest
  NoRequest = NoRequest
  Worker = {w1, w2}
  NoWorker = NoWorker
  Node <- McNode
  NoNode = NoNode
  StartNode = "start"
  Kind <- McKind
  Outgoing <- ReviewLoop
  TaskType <- McTaskType
  Var <- McVar
  Val <- McVal
  Unset = Unset
  Inputs <- McInputs
  Outputs <- McOutputs
  MaxInstances = 2
  MaxJobs = 2
  MaxTasks = 2
  MaxIncidents = 2
  MaxSteps = 3
SPECIFICATION SerialSpec
SYMMETRY Symmetry
INVARIANTS
  OneOpenItem
  NoRowsLeftBehind
  ActiveIncidentMeansDeadJob
PROPERTIES
  FinishedStaysFinished
  LockIsExclusive
  WorkCompletedOnce
  CancelMeansCancelled
  RefinesWorkflow
CHECK_DEADLOCK FALSE
