SPECIFICATION Spec
CONSTANTS
  Project = {a}
  Namespace = {n1, n2}
  MaxInstances = 2
  PageSize = 1
  MaxEdits = 2
  None = None
INVARIANT CountMatchesList
