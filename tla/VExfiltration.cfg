CONSTANTS
  db = db
  fix = fix
  log = log
  net = net
  th1 = th1
  s1 = s1
  s2 = s2
  NoSession = NoSession
  Thread = {th1}
  Session = {s1, s2}
  Tool = {db, log, net}
  Call = {db, log, net}
  Loaded = {db, log, net}
  Node <- MCNode
  NodeOf <- MCNodeOf
  TypeOf <- MCTypeOf
  Edge <- ChainEdge
  NameText <- PlainNames
  ContextLength = 2
  CacheCapacity = 200
  Thresholds = {5}
  MaxHistory = 4
  Timeout = 0
  MaxSessions = 0
  MaxClock = 0
  OneCallPerSession = TRUE
SPECIFICATION GuardianSpec
INVARIANTS
  NoExfiltration
