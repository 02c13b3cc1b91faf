CONSTANTS
  t1 = t1  f1 = f1
  Task = {t1}
  Ahead = 1
  Every = 2
  Request <- Requests
  Form = {f1}
  Horizon = 4
  MaxRows = 3
  MaxRevision = 4
SPECIFICATION Spec
CHECK_DEADLOCK FALSE
INVARIANTS TypeOK OnePending RemindedOnce 
PROPERTIES NoFlood RevisionMoves
