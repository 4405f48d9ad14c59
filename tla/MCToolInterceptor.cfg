\* Two threads, two sessions of which one lives at a time, expiry after two
\* seconds of four.
CONSTANTS
  db = db
  net = net
  th1 = th1
  th2 = th2
  s1 = s1
  s2 = s2
  NoSession = NoSession
  Thread = {th1, th2}
  Session = {s1, s2}
  Tool = {db, net}
  Call = {db, net}
  Node <- MCNode
  NodeOf <- MCNodeOf
  TypeOf <- MCTypeOf
  Edge <- MCEdge
  NameText <- PlainNames
  ContextLength = 2
  CacheCapacity = 1
  Thresholds = {2}
  MaxHistory = 2
  MaxCalls = 2
  Timeout = 2
  MaxSessions = 1
  MaxClock = 4
SYMMETRY Symmetry
SPECIFICATION InterceptorSpec
INVARIANTS
  HistoriesPermitted
  RunsPermitted
  EffectsRecorded
  EffectsCounted
PROPERTY EagerlyExpired
