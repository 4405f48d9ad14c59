\* More keys than fit in the cache, two values to replace one by the other;
\* sequences end at MaxCalls and graphs at MaxEdges: deadlock is no error.
SPECIFICATION Spec
CONSTANTS
  Key = {k1, k2, k3, k4, k5}
  Value = {approved, denied}
  MaxSize = 3
  Tool = {"db", "fix", "log", "net", "unknown"}
  Node = {"db", "fix", "log", "net"}
  NodeOf <- SameNames
  TypeOf <- TypesByTool
  Edge = {}
  ContextLength = 5
  ThresholdOf <- MCThresholdOf
  MaxCalls = 5
  Pair <- MCPair
  Ends <- MCEnds
  NoNode = ""
  MaxEdges = 6
  UInt32 = 8
  UInt64 = 16
  Lowest <- MCLowest
  Highest <- MCHighest
  Default <- MCDefault
  Unreadable = Unreadable
  ConfigFiles <- MCConfigFiles
  Id = {"a", "b", "c"}
  ToolName = {"read", "send", "key=value"}
  NoName = ""
  Type = {"NORMAL", "SENSITIVE_SOURCE", "DATA_PROCESSOR", "EXTERNAL_DESTINATION"}
  NewNodes <- MCNodes
  NewEdges <- MCEdges
  Label = "key=value"
  Files <- MCFiles
INVARIANTS
  EdgesJoinNodes
  IndexSound
  JsonRoundTrip
  DotRoundTrip
  ListAndMapAgree
  LeastRecentlyUsedGoes
  ScanFindsExfiltration
  CyclesFound
  ShortestPath
  LimitsHold
  ConfigRoundTrip
PROPERTIES
  IndexKeepsUp
  ImplementsBoundedCache
CHECK_DEADLOCK FALSE
