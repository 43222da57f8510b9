SPECIFICATION SideSpec
CONSTANTS
  user1 = user1  group1 = group1  proj1 = proj1  roleP = roleP  roleS = roleS
  hand1 = hand1  hand2 = hand2  load1 = load1
  None = None
  User = {user1}
  Group = {group1}
  Project = {proj1}
  Role = {roleP, roleS}
  ProjectOf <- MCProjectOf
  SpecGroups = {}
  Handler = {hand1, hand2}
  Loader = {load1}
  MaxRev = 3
  MaxRestarts = 1
  MaxFailures = 0
SYMMETRY Symmetric
INVARIANT RolesHoldInAll
PROPERTY NoLostBinding
