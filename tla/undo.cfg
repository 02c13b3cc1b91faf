CONSTANTS
  u1 = u1  u2 = u2  v1 = v1  v2 = v2
  picnic = picnic  outing = outing  milk = milk
  Idea = {picnic}
  PlanId = {outing}
  Item = {milk}
  Value = {v1, v2}
  Presser = {u1, u2}
  None = None
  MaxCalls = 3
  MaxTime = 3
  MaxStops = 1
SPECIFICATION Spec
CHECK_DEADLOCK FALSE
SYMMETRY Alike
INVARIANTS TypeOK UndoneOnce ClaimsGivenBack
PROPERTIES PutsBackItsOwn
