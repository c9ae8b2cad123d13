\* Three threads and no request: two processes register threads at once, before,
\* during and after the loop of onDestroy.
CONSTANTS
  UI = UI
  t1 = t1
  t2 = t2
  t3 = t3
  m1 = m1
  m2 = m2
  NoMsg = NoMsg
  Thread <- Threads
  Looping <- JustT1
  FromFunc <- NoThreads
  Msg <- NoRequest
  Chunk <- NoRequest
SPECIFICATION FairSpec
INVARIANTS
  GcStops
  GcReachesRegistered
PROPERTIES
  DestroyEndsRegistered
\* The activity may stay open and idle for ever.
CHECK_DEADLOCK FALSE
