CONSTANTS
  k1 = k1  k2 = k2
  m1 = m1  m2 = m2
  Day = {sat, sun}
  Asked = sat
  Event = {e1, e2}
  Key = {k1, k2}
  None = None
  SessionOf <- OneSession
  Maker = {m1, m2}
  Changer = {c}
  Syncer = {s}
  Hasty = FALSE
  MaxSurprises = 2
SPECIFICATION MCSpec
CHECK_DEADLOCK FALSE
INVARIANTS TypeOK OnePlanEach OneEventAsked InStep
PROPERTIES EveryEventHeld CancelFollows KeptGoesOn
