CONSTANTS
  k1 = k1  k2 = k2
  m1 = m1  m2 = m2
  Day = {sat, sun}
  Asked = sat
  Event = {e1, e2}
  Key = {k1}
  None = None
  SessionOf <- OneSession
  Maker = {m1}
  Changer = {}
  Syncer = {s}
  Hasty = FALSE
  MaxSurprises = 0
SPECIFICATION Spec
CHECK_DEADLOCK FALSE
PROPERTIES OnlyGoneCancels
