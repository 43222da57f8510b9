SPECIFICATION AllSpec
CONSTANTS
  Name = {n1, n2}  Watched = {n1}
  Editor = {a1, a2}
  Method = {"basic", "public"}
  MaxOps = 2
  MaxEdits = 2
  MaxFaults = 1
  u = u  alt = alt  g = g  r1 = r1  obj = obj  c1 = c1  w1 = w1
  None = None
  Replica = {p1, p2}
  adm = adm
  Account = {adm, dev}
  CacheTTL = 0
  MaxTime = 2
  MaxEvents = 3
  Server = {s1, s2}
  srv = srv  Asker = {q1}
  Team = {"g1"}  TeamProject = {pa}  MaxMapped = 2  MaxMoves = 2
  Project = {pa, pb}  MaxSlot = 2  MaxRv = 3  Limit = 1
  MaxInstances = 1  PageSize = 1  MaxTurns = 2
  Constraint = {k1, k2}
  Namespace = {ns}
  MaxConfirmations = 1  MaxShifts = 1
  Login = {q1, q2}
  MaxAttempts = 2
  MaxOutages = 3
  BurstSize = 3
  Flow = {f1}
  Caller = {q1, q2}
  StateTTL = 2
  CodeTTL = 1
  TicketTTL = 1
  JWTExpiry = 2
  MaxInstant = 4
  MaxTickets = 2
INVARIANTS AllTypesOK OnceOnly  SettingsAreUndone RolesDecide ReplicasAgree LimitsHold  DenialsAreConfirmed ShownIsGranted
PROPERTIES TicketsAreOnce
CHECK_DEADLOCK FALSE
