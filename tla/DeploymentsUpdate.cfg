SPECIFICATION Spec
CONSTANTS
  Request = {q1, q2}
  Version = {1}
  AllowedModes = {"direct", "gitops", "hybrid"}
  MaxFaults = 0
  MaxSyncs = 0
  None = None
PROPERTIES UpdateKeepsInstance
CHECK_DEADLOCK FALSE
