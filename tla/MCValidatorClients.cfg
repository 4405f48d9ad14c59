\* One thread, a threshold that changes, histories longer than a cache key.
CONSTANTS
  db = db
  net = net
  ghost = ghost
  th1 = th1
  Thread = {th1}
  Tool <- MCTool
  Node <- MCNode
  NodeOf <- MCNodeOf
  TypeOf <- MCTypeOf
  Edge <- MCEdge
  NameText <- PlainNames
  ContextLength = 2
  CacheCapacity = 2
  Thresholds = {1, 2}
  MaxHistory = 3
SPECIFICATION ValidatorSpec
INVARIANTS
  AnswersSound
  ShortHistoriesExact
