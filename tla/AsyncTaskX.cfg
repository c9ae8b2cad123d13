\* Two tasks, cancelled by the main thread and another, on a pool of one thread that
\* refuses the second while it has the first.  A task may lie in the queue for any
\* time before a thread takes it, so nothing is lost by not queueing two.
CONSTANTS
  a = a
  b = b
  o = o
  UI = UI
  Task <- TwoTasks
  Other <- OneOther
  PoolSize = 1
  QueueSize = 0
  MaxUpdates = 1
SPECIFICATION FairSpec
INVARIANTS
  TypeOK
  CallbackOnce
  SecondResultNeedsCancel
  UpdatesBeforeCallback
PROPERTIES
  TaskFinishes
\* All tasks may be finished.
CHECK_DEADLOCK FALSE
