\* One thread and two sessions of up to five calls over a graph that logs
\* between a source and a destination.
CONSTANTS
  db = db
  fix = fix
  log = log
  net = net
  th1 = th1
  s1 = s1
  s2 = s2
  NoSession = NoSession
  Thread = {th1}
  Session = {s1, s2}
  Tool = {db, log, net}
  Call = {db, log, net}
  Loaded = {}
  Node <- MCNode
  NodeOf <- MCNodeOf
  TypeOf <- MCTypeOf
  Edge <- LoopEdge
  NameText <- PlainNames
  ContextLength = 2
  CacheCapacity = 1
  Thresholds = {2}
  MaxHistory = 5
  Timeout = 0
  MaxSessions = 0
  MaxClock = 0
  OneCallPerSession = TRUE
SYMMETRY Symmetry
SPECIFICATION GuardianSpec
INVARIANTS
  CacheSound
  PathsFollowEdges
  NoNearExfiltration
