---------------------------- MODULE MCAsyncTaskX ----------------------------
(* One or two tasks, and a thread besides the main one that cancels them. *)
EXTENDS AsyncTaskX, TLC

CONSTANTS a, b, o

OneTask == {a}
TwoTasks == {a, b}
OneOther == {o}
=============================================================================
