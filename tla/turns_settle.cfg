CONSTANTS
  h1 = h1  h2 = h2  h3 = h3  r = r  c = c
  service = service  command = command
  ann = ann  home = home
  m1 = m1  m2 = m2  m3 = m3
  Worker = {h1, r}
  RetryWorker = {r}
  Process = {service}
  ProcOf <- OneProcess
  Member = {ann}
  From <- OneSender
  Chat = {home}
  ChatOf <- OneChat
  Msg = {m1, m2}
  Digest = {}
  Recorded = {}
  Gathered = {m1, m2}
  MaxRetries = 1
  RenewalMayFail = FALSE
  MaxCrashes = 1
  MaxResets = 0
SPECIFICATION FairSpec
CHECK_DEADLOCK FALSE
INVARIANTS AnsweredOnce
PROPERTIES EverySettles
