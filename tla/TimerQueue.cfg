\* Five tasks: three levels of the heap.  A purge cannot break the order of so few.
CONSTANTS
  Task <- FiveTasks
  When <- Times
SPECIFICATION Spec
INVARIANTS
  IsQueue
PROPERTIES
  KeepsTheRest
\* All tasks have been scheduled and taken.
CHECK_DEADLOCK FALSE
