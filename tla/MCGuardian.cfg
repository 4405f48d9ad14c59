\* Two threads and two sessions over a source and a destination.  The sandbox
\* has only the destination's module.
CONSTANTS
  db = db
  fix = fix
  log = log
  net = net
  th1 = th1
  th2 = th2
  s1 = s1
  s2 = s2
  NoSession = NoSession
  Thread = {th1, th2}
  Session = {s1, s2}
  Tool = {db, net}
  Call = {db, net}
  Loaded = {net}
  Node <- MCNode
  NodeOf <- MCNodeOf
  TypeOf <- MCTypeOf
  Edge <- MCEdge
  NameText <- PlainNames
  ContextLength = 2
  CacheCapacity = 1
  Thresholds = {2}
  MaxHistory = 4
  Timeout = 0
  MaxSessions = 0
  MaxClock = 0
  OneCallPerSession = TRUE
SYMMETRY Symmetry
SPECIFICATION GuardianSpec
INVARIANTS
  RecordedPermitted
  RunsBounded
  RunsRecorded
PROPERTIES
  ImplementsWindowGuard
