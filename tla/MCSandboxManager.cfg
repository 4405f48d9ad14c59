\* Two callers, a loader, and tools that return.
SPECIFICATION WellBehaved
CONSTANTS
  safe = safe
  tight = tight
  Tool = {t1}
  Caller = {c1, c2}
  Loader = {l1}
  Config = {safe, tight}
  Safe = safe
  TimeoutOf <- MCTimeoutOf
  Duration = {1, 2}
  None = None
  MaxExecutors = 3
  MaxCalls = 3
INVARIANT
  RunningIsPooled
PROPERTIES
  LoadedAsConfigured
  AnswersTell
  EverybodyReturns
