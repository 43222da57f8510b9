SPECIFICATION Spec
CONSTANTS
  admin = admin  ours = ours
  Client = {admin,c1}
  Project = {ours, theirs}
  Member <- MCMember
  Admin = {admin}
  None = None
  MaxConnections = 1
  SendBuffer = 1
  BroadcastBuffer = 1
  MaxPublished = 1
  MaxHeard = 1
INVARIANTS NoPanic
CHECK_DEADLOCK FALSE
