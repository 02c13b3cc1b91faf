CONSTANTS
  h1 = h1  h2 = h2  h3 = h3  r = r  c = c
  service = service  command = command
  ann = ann  home = home
  m1 = m1  m2 = m2  m3 = m3
  Worker = {h1, h2}
  RetryWorker = {}
  Process = {service}
  ProcOf <- OneProcess
  Member = {ann}
  From <- OneSender
  Chat = {home}
  ChatOf <- OneChat
  Msg = {m1, m2, m3}
  Digest = {}
  Recorded = {}
  Gathered = {m1, m2, m3}
  MaxRetries = 1
  RenewalMayFail = TRUE
  MaxCrashes = 1
  MaxResets = 0
SPECIFICATION Spec
CHECK_DEADLOCK FALSE
SYMMETRY SameHandlersAndMessages
INVARIANTS NoFoldChain AnsweredOnce
