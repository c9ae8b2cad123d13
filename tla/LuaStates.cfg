\* The UI thread and two script threads, four calls in all.  The system rests when
\* nobody makes a call, and two scripts can wait for each other.
SPECIFICATION Spec
CONSTANTS
  Main = Main
  Threads = {t1, t2}
  MaxCalls = 4
INVARIANTS
  TypeOK
PROPERTIES
  OwnValueUsed
  
CHECK_DEADLOCK FALSE
