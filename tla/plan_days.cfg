CONSTANTS
  f1 = f1  f2 = f2  k1 = k1  k2 = k2
  trip = trip  None = None
  Plan = {trip}
  LastDay = 7
  FollowUpDays = 3
  MaxLength = 1
  Follower = {f1, f2}
  Checker = {k1, k2}
  Hasty = FALSE
  MaxMissed = 1
SPECIFICATION Spec
CHECK_DEADLOCK FALSE
SYMMETRY SameRuns
INVARIANTS TypeOK SaidOnce 
