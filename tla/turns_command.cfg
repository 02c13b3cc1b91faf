CONSTANTS
  h1 = h1  h2 = h2  h3 = h3  r = r  c = c
  service = service  command = command
  ann = ann  home = home
  m1 = m1  m2 = m2  m3 = m3
  Worker = {h1, r, c}
  RetryWorker = {r, c}
  Process = {service, command}
  ProcOf <- CommandBeside
  Member = {ann}
  From <- OneSender
  Chat = {home}
  ChatOf <- OneChat
  Msg = {m1, m2}
  Digest = {m1}
  Recorded = {m2}
  Gathered = {}
  MaxRetries = 1
  RenewalMayFail = FALSE
  MaxCrashes = 1
  MaxResets = 1
SPECIFICATION Spec
CHECK_DEADLOCK FALSE
INVARIANTS TypeOK OneTurnEach NobodySwitchedOff TurnsBounded
PROPERTIES SettledStays KeepsPromise
