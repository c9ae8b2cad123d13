---------------------------- MODULE MCTimerQueue ----------------------------
(* Tasks are numbered in the order they are scheduled. *)
EXTENDS TimerQueue, TLC

FiveTasks == 1..5
SixTasks == 1..6
Times == 1..3
=============================================================================
