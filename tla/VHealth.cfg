\* One dashboard and one request on up to two threads.
SPECIFICATION ServerSpec
CONSTANTS
  Handler = {h1}
  Client = {c1}
  Job = {h1, c1}
  NoJob = NoJob
  Free = Free
  MaxEvents = 1
  BaseThreads = 1
  MaxThreads = 2
PROPERTY HealthAnswers
CHECK_DEADLOCK FALSE
