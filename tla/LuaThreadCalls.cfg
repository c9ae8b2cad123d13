\* Two looping threads and two requests, one of which loads code: every order of
\* push, quit and run() between two threads and the main thread.
CONSTANTS
  UI = UI
  t1 = t1
  t2 = t2
  t3 = t3
  m1 = m1
  m2 = m2
  NoMsg = NoMsg
  Thread <- TwoThreads
  Looping <- TwoThreads
  FromFunc <- JustT1
  Msg <- Requests
  Chunk <- OneRequest
SPECIFICATION FairSpec
INVARIANTS
  TypeOK
  RunningIsServable
  LossNeedsQuit
  QueuedOnce
PROPERTIES
  ImplementsCallService
  QuitEndsRunning
  AcceptedSettles
\* The system may rest: no thread has a request left and nobody makes one.
CHECK_DEADLOCK FALSE
