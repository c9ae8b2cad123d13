\* Six tasks: the fewest with which a purge can leave a later task at the root.
CONSTANTS
  Task <- SixTasks
  When <- Times
SPECIFICATION Spec
INVARIANTS
  MinimumIsEarliest
CHECK_DEADLOCK FALSE
