---------------------------- MODULE MCLuaThread ----------------------------
(* Three script threads and one or two requests: the smallest instance in    *)
(* which two processes register threads at once while a third thread runs.   *)
EXTENDS LuaThread, TLC

CONSTANTS t1, t2, t3, m1, m2

Threads == {t1, t2, t3}
TwoThreads == {t1, t2}
JustT1 == {t1}
NoThreads == {}
Requests == {m1, m2}
OneRequest == {m1}
NoRequest == {}
=============================================================================
