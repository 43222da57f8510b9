SPECIFICATION Spec
CONSTANTS
  a = a  b = b  c = c
  Bad = Bad  None = None
  Project = {p, q}
  Line <- MCLine
  Specs <- MCSpecs
  Handler = {h1}
  MaxRev = 2
  MaxRestarts = 1
  MaxFailures = 1
INVARIANTS SingleVersion LeftoversAreTracked BehindIsExplained
PROPERTIES EventuallyInStep
