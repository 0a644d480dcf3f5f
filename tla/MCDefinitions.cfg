SPECIFICATION Spec
CONSTANTS
  p1 = p1
  p2 = p2
  r1 = r1
  r2 = r2
  NoProcess = NoProcess
  NoRequest = NoRequest
  Process <- MCProcess
  Request <- MCRequest
  MaxDefinitions = 4
SYMMETRY MCSymmetry
INVARIANTS
  IInv
  OneActive
  VersionsCountDeployments
PROPERTIES
  StaysStartable
  RefinesRegistry
