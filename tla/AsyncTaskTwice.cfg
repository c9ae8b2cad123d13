\* One task, cancelled by another thread than the one that runs it.
CONSTANTS
  a = a
  b = b
  o = o
  UI = UI
  Task <- OneTask
  Other <- OneOther
  PoolSize = 1
  QueueSize = 0
  MaxUpdates = 1
SPECIFICATION Spec
INVARIANTS
  OnlyOneResult
CHECK_DEADLOCK FALSE
