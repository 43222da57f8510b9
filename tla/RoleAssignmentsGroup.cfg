SPECIFICATION Spec
CONSTANTS
  rq = rq  rs = rs
  None = None
  User = {}
  Group = {g}
  Project = {p}
  Role = {rp, rq}
  ProjectOf <- MCProjectOf
  SpecGroups <- MCSpecGroups
  Handler = {h1}
  Loader = {l1}
  MaxRev = 3
  MaxRestarts = 1
  MaxFailures = 1
INVARIANTS RevokedStaysRevoked GrantedIsDurable
PROPERTY BindingsReturn
