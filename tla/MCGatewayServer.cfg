\* Two agents and a dashboard on one to three threads, two events.  The server
\* may stop: deadlock is no error.
SPECIFICATION ServerSpec
CONSTANTS
  Handler = {h1, h2}
  Client = {c1}
  Job = {h1, h2, c1}
  NoJob = NoJob
  Free = Free
  MaxEvents = 2
  BaseThreads = 1
  MaxThreads = 3
INVARIANTS
  EveryEventOnceInOrder
  NoLostWakeup
  StoppedMeansServed
PROPERTIES
  EventsArrive
  GoneAreDropped
  AnsweredInTheEnd
CHECK_DEADLOCK FALSE
