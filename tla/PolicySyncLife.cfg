SPECIFICATION AllSpec
CONSTANTS
  Loop = {l1, l2}
  MaxStarts = 2
  c1 = c1  ours = ours
  None = None
  Rgd = {x1, x2}
  Call = {q1}
  MaxMoves = 3
  MaxSlow = 1
INVARIANTS AllTypesOK NoDoubleClose ShutdownIsQuiet
PROPERTIES TriggerIsServed GoneIsClosed EventuallyTracked
CHECK_DEADLOCK FALSE
