\* activity.newThread(func): a looping thread constructed from a function.
CONSTANTS
  UI = UI
  t1 = t1
  t2 = t2
  t3 = t3
  m1 = m1
  m2 = m2
  NoMsg = NoMsg
  Thread <- JustT1
  Looping <- JustT1
  FromFunc <- JustT1
  Msg <- NoRequest
  Chunk <- NoRequest
SPECIFICATION FairSpec
PROPERTIES
  DestroyEndsLoops
CHECK_DEADLOCK FALSE
