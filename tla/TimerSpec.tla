------------------------------ MODULE TimerSpec ------------------------------
(***************************************************************************)
(* What the documentation of TimerX promises, with no thread, heap or lock:*)
(* tasks are executed one after another, the earliest first, none before   *)
(* its time, a recurring one again one period after the time it ran        *)
(* (fixed delay) or was meant to run (fixed rate); a cancelled task is not *)
(* executed any more, and a cancelled timer executes nothing.              *)
(***************************************************************************)
EXTENDS Integers

CONSTANTS Task, Delay, Period, NoPeriod, NewPeriod

VARIABLES
  now,       \* the clock
  pending,   \* the tasks with an execution to come
  due,       \* when, for each of them
  period,    \* the period of each task, negative for none
  rated,     \* the tasks scheduled at a fixed rate
  over       \* tasks that may not be scheduled: they were once, or are cancelled

vars == <<now, pending, due, period, rated, over>>

Init ==
  /\ now = 1
  /\ pending = {}
  /\ due = [t \in Task |-> 0]
  /\ period = [t \in Task |-> 0]
  /\ rated = {}
  /\ over = {}

Tick == now' = now + 1 /\ UNCHANGED <<pending, due, period, rated, over>>

Schedule(t, delay, p, fixed) ==
  /\ t \notin over
  /\ pending' = pending \union {t}
  /\ over' = over \union {t}
  /\ due' = [due EXCEPT ![t] = now + delay]
  /\ period' = [period EXCEPT ![t] = p]
  /\ rated' = IF fixed THEN rated \union {t} ELSE rated \ {t}
  /\ UNCHANGED now

\* A new period may be set just when the next execution is planned.
Execute(t) ==
  /\ t \in pending
  /\ due[t] <= now
  /\ \A u \in pending : due[t] <= due[u]
  /\ \/ /\ period[t] < 0
        /\ pending' = pending \ {t}
        /\ due' = [due EXCEPT ![t] = 0]
        /\ UNCHANGED period
     \/ /\ period[t] >= 0
        /\ \E p \in NewPeriod \union {period[t]} :
             /\ period' = [period EXCEPT ![t] = p]
             /\ due' = [due EXCEPT ![t] = (IF t \in rated THEN @ ELSE now) + p]
        /\ UNCHANGED pending
  /\ UNCHANGED <<now, rated, over>>

SetPeriod(t, p) ==
  /\ period' = [period EXCEPT ![t] = p]
  /\ UNCHANGED <<now, pending, due, rated, over>>

CancelTask(t) ==
  /\ pending' = pending \ {t}
  /\ over' = over \union {t}
  /\ UNCHANGED <<now, due, period, rated>>

\* Also what becomes of the timer when a task throws.
CancelTimer ==
  /\ pending' = {}
  /\ over' = Task
  /\ UNCHANGED <<now, due, period, rated>>

Next ==
  \/ Tick
  \/ CancelTimer
  \/ \E t \in Task :
       \/ Execute(t)
       \/ CancelTask(t)
       \/ \E p \in NewPeriod : SetPeriod(t, p)
       \/ \E d \in Delay, p \in Period \union {NoPeriod}, fixed \in BOOLEAN : Schedule(t, d, p, fixed)

Spec == Init /\ [][Next]_vars

=============================================================================
