CONSTANTS
  db = db
  fix = fix
  log = log
  net = net
  th1 = th1
  th2 = th2
  s1 = s1
  NoSession = NoSession
  Thread = {th1, th2}
  Session = {s1}
  Tool = {db, log, net}
  Call = {db, log, net}
  Loaded = {db, log, net}
  Node <- MCNode
  NodeOf <- MCNodeOf
  TypeOf <- MCTypeOf
  Edge <- ChainEdge
  NameText <- PlainNames
  ContextLength = 5
  CacheCapacity = 200
  Thresholds = {10}
  MaxHistory = 3
  Timeout = 0
  MaxSessions = 0
  MaxClock = 0
  OneCallPerSession = FALSE
SPECIFICATION GuardianSpec
INVARIANTS
  PathsFollowEdges
