SPECIFICATION Spec
CONSTANTS
  User = {u}
  Group = {}
  Role = {r1}
  Object = {o}
  Reader = {c1,c2}
  Writer = {w1}
  None = None
  Projects <- MCProjects
  AltForm <- MCAltForm
  CacheTTL = 1
  MaxWrites = 2
INVARIANTS StaleIsExplained CalmAnswer
PROPERTIES EventuallyCoherent
