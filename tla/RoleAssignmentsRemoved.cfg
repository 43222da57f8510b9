SPECIFICATION Spec
CONSTANTS
  rq = rq  rs = rs
  None = None
  User = {u}
  Group = {}
  Project = {p}
  Role = {rp}
  ProjectOf <- MCProjectOf
  SpecGroups <- MCSpecGroups
  Handler = {h1}
  Loader = {l1}
  MaxRev = 3
  MaxRestarts = 0
  MaxFailures = 0
INVARIANT RemovedIsGone
