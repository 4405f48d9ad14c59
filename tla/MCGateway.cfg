\* An operator who deletes sessions in the middle of calls.  Runs end at
\* MaxEvents, so that deadlock is no error.
SPECIFICATION Spec
CONSTANTS
  read = read
  send = send
  Tool = {read, send}
  Node = {"READ", "SEND"}
  NodeOf <- MCNodeOf
  TypeOf <- MCTypeOf
  Edge <- MCEdge
  ContextLength = 2
  Session = {s1, s2}
  Thresholds = {3}
  Agent = {a1, a2}
  Operator = {op}
  None = None
  MaxEvents = 4
SYMMETRY Alike
INVARIANTS
  EventsFollowHistory
  EventsChain
  TrackerForgets
CHECK_DEADLOCK FALSE
