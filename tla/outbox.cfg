CONSTANTS
  o1 = o1  a1 = a1
  j = j  d = d  t = t
  Own = {o1}
  Reply = {a1}
  Worker = {j, d, t}
  Job = j
  Turner = t
  Sweeper = {d}
  RenewalMayFail = FALSE
  TurnsOutlast = TRUE
  MaxMishaps = 1
SPECIFICATION FairSpec
CHECK_DEADLOCK FALSE
INVARIANTS TypeOK DeliveredWasSaid SentOnce
PROPERTIES EditHonoured EverySaid
