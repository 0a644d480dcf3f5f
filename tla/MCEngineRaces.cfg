CONSTANTS
  r1 = r1
  r2 = r2
  Request <- McRequest
  NoRequest = NoRequest
  Worker = {w1}
  NoWorker = NoWorker
  Node <- McNode
  NoNode = NoNode
  StartNode = "start"
  Kind <- McKind
  Outgoing <- ReviewLoop
  TaskType <- McTaskType
  Var <- McVar
  Val <- McVal
  Unset = Unset
  Inputs <- McInputs
  Outputs <- McOutputs
  MaxInstances = 1
  MaxJobs = 2
  MaxTasks = 2
  MaxIncidents = 1
  MaxSteps = 3
SPECIFICATION Spec
SYMMETRY Symmetry
INVARIANTS
  RuntimeRowsHaveInstance
  StrandedOnlyByLostStep
  AuditTellsTheEnd
  StatusAlwaysFound
  DeadJobHasIncident
PROPERTIES
  ArchiveIsFinal
CHECK_DEADLOCK FALSE
