CONSTANTS
  c1 = c1  c2 = c2
  main = main  spare = spare
  Caller = {c1, c2}
  Company = {main, spare}
  Limit = 2
  MonthlyLimit <- Months
  Dearest = 2
  Day = 3
  HoldTime = 2
  Longest = 2
  Horizon = 5
  MaxCalls = 3
  MaxCrashes = 1
SPECIFICATION Spec
CHECK_DEADLOCK FALSE
INVARIANTS TypeOK EachCallHeld HoldsOwned OneCrosses
