\* Two tasks and a clock of two instants: tasks due at once, due later and launched
\* late, once or again and again, with every order of schedule, cancel, purge,
\* setPeriod, setEnabled and the steps of the timer's thread.
CONSTANTS
  a = a
  b = b
  Task <- Tasks
  Delay = {0, 1}
  Period = {1}
  NoPeriod <- MinusOne
  NewPeriod <- SetPeriods
  Adjusted <- AdjustedTasks
  MaxTime = 2
  Forever = Forever
  NoTask = NoTask
SPECIFICATION FairSpec
INVARIANTS
  TypeOK
  NoLostWakeup
  QueuedOnce
  
PROPERTIES
  ImplementsTimerSpec
  DueTaskLeaves
  ThreadEnds
\* The clock stops at its bound and the timer's thread may have ended.
CHECK_DEADLOCK FALSE
