------------------------------ MODULE MCTimerX ------------------------------
(* Two tasks of one timer. *)
EXTENDS TimerX, TLC

CONSTANTS a, b

Tasks == {a, b}
AdjustedTasks == {a}
MinusOne == -1
SetPeriods == {-1, 0, 1}
=============================================================================
