-------------------------------- MODULE TimerX --------------------------------
(***************************************************************************)
(* A script timer: com.androlua.util.TimerX with its thread (TimerImpl),   *)
(* its tasks (TimerTaskX, LuaTimerTask) and what LuaTimer calls on them.   *)
(*                                                                         *)
(* The timer's thread works under the monitor of TimerImpl, which it gives *)
(* up to wait and to run a task.  Scheduling, cancelling the timer and     *)
(* purging take the same monitor; cancelling one task takes only that      *)
(* task's lock, and setEnabled and setPeriod take none, so these can come  *)
(* between the thread's look at a task and what it does to it.             *)
(***************************************************************************)
EXTENDS TimerHeap, Integers

CONSTANTS
  Delay,       \* the delays a script may ask for
  Period,      \* the periods schedule() accepts, all positive
  NoPeriod,    \* the period of a task scheduled without one: the code's -1
  NewPeriod,   \* the periods setPeriod() is given: it accepts any
  Adjusted,    \* bound: the tasks that setPeriod() and setEnabled() are called for
  MaxTime,     \* bound on the clock
  Forever,     \* the deadline of wait() without a timeout
  NoTask

ASSUME TimerXAssumption ==
  /\ Delay \subseteq Nat
  /\ Period \subseteq Nat \ {0}
  /\ NoPeriod = -1
  /\ NewPeriod \subseteq Int
  /\ Adjusted \subseteq Task
  /\ MaxTime \in Nat
  /\ Forever \notin Nat
  /\ NoTask \notin Task

VARIABLES
  now,            \* System.currentTimeMillis()
  queue,          \* TimerImpl.tasks: the heap
  when,           \* of each task: the time it is queued for, 0 for none
  period,         \* of each task
  fixedRate,      \* of each task
  launched,       \* of each task: scheduledTime > 0, set by its first launch
  taskCancelled,  \* of each task: its field cancelled
  enabled,        \* of each task: LuaTimerTask.mEnabled
  cancelled,      \* TimerImpl.cancelled
  finished,       \* TimerImpl.finished: the TimerX object has been finalized
  pc,             \* where the timer's thread is in run()
  cur,            \* its local variable task
  wakeAt,         \* when its wait ends by itself
  prevented,      \* history: cancel() of the task has returned true
  late,           \* history: how often run() was entered after the task was cancelled
  disordered      \* history: a purge has left the heap out of order

taskVars == <<when, period, fixedRate, launched, taskCancelled, enabled>>
threadVars == <<pc, cur, wakeAt>>
historyVars == <<prevented, late, disordered>>
vars == <<now, queue, taskVars, cancelled, finished, threadVars, historyVars>>

Init ==
  /\ now = 1
  /\ queue = << >>
  /\ when = [t \in Task |-> 0]
  /\ period = [t \in Task |-> 0]
  /\ fixedRate = [t \in Task |-> FALSE]
  /\ launched = [t \in Task |-> FALSE]
  /\ taskCancelled = [t \in Task |-> FALSE]
  /\ enabled = [t \in Task |-> TRUE]
  /\ cancelled = FALSE
  /\ finished = FALSE
  /\ pc = "top"
  /\ cur = NoTask
  /\ wakeAt = Forever
  /\ prevented = [t \in Task |-> FALSE]
  /\ late = [t \in Task |-> 0]
  /\ disordered = FALSE

Tick ==
  /\ now < MaxTime
  /\ now' = now + 1
  /\ UNCHANGED <<queue, taskVars, cancelled, finished, threadVars, historyVars>>

\* The thread holds the monitor from the top of its loop to the launch of a task.
MonitorFree == pc # "launch"

\* notify() on the TimerImpl: only its own thread ever waits on it.
NotifyNobody == UNCHANGED <<pc, wakeAt>>
Notify ==
  IF pc = "wait" THEN pc' = "top" /\ wakeAt' = Forever ELSE UNCHANGED <<pc, wakeAt>>

-----------------------------------------------------------------------------
(* TimerX: the methods a script calls, while it can still reach the object. *)

IsScheduledBefore(t) == launched[t]
IsScheduled(t) == when[t] > 0 \/ launched[t]

\* schedule(task, delay[, period]) and scheduleAtFixedRate, all by scheduleImpl;
\* each reason to throw leaves everything as it was.
Schedule(t, delay, p, fixed) ==
  /\ MonitorFree
  /\ ~finished
  /\ ~cancelled
  /\ ~IsScheduled(t)
  /\ ~taskCancelled[t]
  /\ when' = [when EXCEPT ![t] = now + delay]
  /\ period' = [period EXCEPT ![t] = p]
  /\ fixedRate' = [fixedRate EXCEPT ![t] = fixed]
  /\ queue' = Insert(queue, when', t)
  /\ Notify
  /\ UNCHANGED <<now, launched, taskCancelled, enabled, cancelled, finished, cur, historyVars>>

CancelTimer ==
  /\ MonitorFree
  /\ ~finished
  /\ cancelled' = TRUE
  /\ queue' = << >>
  /\ Notify
  /\ UNCHANGED <<now, taskVars, finished, cur, historyVars>>

Purge ==
  /\ MonitorFree
  /\ ~finished
  /\ queue' = DeleteIfCancelled(queue, when, taskCancelled)
  /\ disordered' = (disordered \/ ~IsHeap(queue', when))
  /\ UNCHANGED <<now, taskVars, cancelled, finished, threadVars, prevented, late>>

\* FinalizerHelper.finalize(): nothing refers to the TimerX any more.
Finalize ==
  /\ MonitorFree
  /\ ~finished
  /\ finished' = TRUE
  /\ Notify
  /\ UNCHANGED <<now, queue, taskVars, cancelled, cur, historyVars>>

\* TimerTaskX.cancel(), which is LuaTimer.stop() and gc(): it takes the task's own
\* lock only, and the queue keeps the task until the thread comes to it.
CancelTask(t) ==
  /\ prevented' = [prevented EXCEPT ![t] = @ \/ (~taskCancelled[t] /\ when[t] > 0)]
  /\ taskCancelled' = [taskCancelled EXCEPT ![t] = TRUE]
  /\ UNCHANGED <<now, queue, when, period, fixedRate, launched, enabled, cancelled, finished,
                 threadVars, late, disordered>>

\* TimerTaskX.setPeriod(), without a check or a lock: a negative period makes the task
\* one-shot, whenever it comes.  Before schedule(), which overwrites it, it says nothing.
SetPeriod(t, p) ==
  /\ IsScheduled(t)
  /\ period' = [period EXCEPT ![t] = p]
  /\ UNCHANGED <<now, queue, when, fixedRate, launched, taskCancelled, enabled, cancelled,
                 finished, threadVars, historyVars>>

SetEnabled(t, on) ==
  /\ enabled' = [enabled EXCEPT ![t] = on]
  /\ UNCHANGED <<now, queue, when, period, fixedRate, launched, taskCancelled, cancelled,
                 finished, threadVars, historyVars>>

-----------------------------------------------------------------------------
(* TimerImpl.run(): the timer's thread.                                     *)

\* The loop ends: the timer is cancelled, or idle and unreachable.
Return ==
  /\ pc = "top"
  /\ cancelled \/ (queue = << >> /\ finished)
  /\ pc' = "dead"
  /\ UNCHANGED <<now, queue, taskVars, cancelled, finished, cur, wakeAt, historyVars>>

WaitForTask ==
  /\ pc = "top"
  /\ ~cancelled
  /\ queue = << >>
  /\ ~finished
  /\ pc' = "wait"
  /\ wakeAt' = Forever
  /\ UNCHANGED <<now, queue, taskVars, cancelled, finished, cur, historyVars>>

\* The earliest task turns out to be cancelled.
DropCancelled ==
  /\ pc = "top"
  /\ ~cancelled
  /\ queue # << >>
  /\ taskCancelled[Head(queue)]
  /\ queue' = Delete(queue, when, 1)
  /\ UNCHANGED <<now, taskVars, cancelled, finished, threadVars, historyVars>>

\* It is still to come: wait(timeToSleep).
WaitForTime ==
  /\ pc = "top"
  /\ ~cancelled
  /\ queue # << >>
  /\ ~taskCancelled[Head(queue)]
  /\ when[Head(queue)] > now
  /\ pc' = "wait"
  /\ wakeAt' = when[Head(queue)]
  /\ UNCHANGED <<now, queue, taskVars, cancelled, finished, cur, historyVars>>

\* It is due.  The task's lock is free again until the launch takes it.
Pick ==
  /\ pc = "top"
  /\ ~cancelled
  /\ queue # << >>
  /\ ~taskCancelled[Head(queue)]
  /\ when[Head(queue)] <= now
  /\ cur' = Head(queue)
  /\ pc' = "launch"
  /\ UNCHANGED <<now, queue, taskVars, cancelled, finished, wakeAt, historyVars>>

\* The wait ends: its time has come.
Wake ==
  /\ pc = "wait"
  /\ wakeAt # Forever
  /\ wakeAt <= now
  /\ pc' = "top"
  /\ wakeAt' = Forever
  /\ UNCHANGED <<now, queue, taskVars, cancelled, finished, cur, historyVars>>

\* Object.wait may also return for no reason.
WakeSpuriously ==
  /\ pc = "wait"
  /\ pc' = "top"
  /\ wakeAt' = Forever
  /\ UNCHANGED <<now, queue, taskVars, cancelled, finished, cur, historyVars>>

\* The second look at the task, under its lock again.
NoSecondLook == FALSE
CancelledMeanwhile == taskCancelled[cur]

LaunchCancelled ==
  /\ pc = "launch"
  /\ CancelledMeanwhile
  /\ queue' = Delete(queue, when, GetTask(queue, cur))
  /\ pc' = "top"
  /\ cur' = NoTask
  /\ UNCHANGED <<now, taskVars, cancelled, finished, wakeAt, historyVars>>

\* The time of the run after this one when the period is read as p, 0 for none.
NextTimeUnset(t, p) ==
  IF period[t] < 0 THEN period[t] ELSE IF fixedRate[t] THEN when[t] + p ELSE now + p
NextTimeDrifting(t, p) ==
  IF period[t] < 0 THEN 0 ELSE now + p
NextTime(t, p) ==
  IF period[t] < 0 THEN 0
  ELSE IF fixedRate[t] THEN when[t] + p
  ELSE now + p

\* What the thread finds in task.period when it reads it again to compute the next
\* time: what a setPeriod() since the first look, that at its sign, has put there.
\* Bound: a period that takes the time back to 0 or before, in the code the start of
\* 1970, is not chosen.
PeriodRead(t) ==
  {period[t]} \union {p \in NewPeriod : t \in Adjusted /\ period[t] >= 0 /\ NextTime(t, p) > 0}

\* The task leaves the queue, a recurring one goes back in for its next time, and
\* the thread gives up the monitor to run it.
Launch ==
  /\ pc = "launch"
  /\ ~CancelledMeanwhile
  /\ LET pos == IF when[Head(queue)] # when[cur] THEN GetTask(queue, cur) ELSE 1
         rest == Delete(queue, when, pos)
     IN \E p \in PeriodRead(cur) :
          /\ period' = [period EXCEPT ![cur] = p]
          /\ when' = [when EXCEPT ![cur] = NextTime(cur, p)]
          /\ queue' = IF period[cur] >= 0 THEN Insert(rest, when', cur) ELSE rest
  /\ launched' = [launched EXCEPT ![cur] = TRUE]
  /\ pc' = "run"
  /\ UNCHANGED <<now, fixedRate, taskCancelled, enabled, cancelled, finished, cur, wakeAt,
                 historyVars>>

\* if (task.isEnabled()) task.run();
EnterTask ==
  /\ pc = "run"
  /\ enabled[cur]
  /\ pc' = "body"
  /\ late' = [late EXCEPT ![cur] = IF taskCancelled[cur] THEN @ + 1 ELSE @]
  /\ UNCHANGED <<now, queue, taskVars, cancelled, finished, cur, wakeAt, prevented,
                 disordered>>

SkipTask ==
  /\ pc = "run"
  /\ ~enabled[cur]
  /\ pc' = "top"
  /\ cur' = NoTask
  /\ UNCHANGED <<now, queue, taskVars, cancelled, finished, wakeAt, historyVars>>

\* LuaTimerTask.run() returns: what the script throws is caught and reported.
TaskReturns ==
  /\ pc = "body"
  /\ pc' = "top"
  /\ cur' = NoTask
  /\ UNCHANGED <<now, queue, taskVars, cancelled, finished, wakeAt, historyVars>>

\* Anything else it throws cancels the timer, whose queue stays as it is, and
\* ends the thread.
TaskThrows ==
  /\ pc = "body"
  /\ cancelled' = TRUE
  /\ pc' = "dead"
  /\ cur' = NoTask
  /\ UNCHANGED <<now, queue, taskVars, finished, wakeAt, historyVars>>

-----------------------------------------------------------------------------
Run ==
  \/ Return \/ WaitForTask \/ DropCancelled \/ WaitForTime \/ Pick \/ Wake
  \/ LaunchCancelled \/ Launch \/ EnterTask \/ SkipTask \/ TaskReturns

Next ==
  \/ Tick
  \/ \E t \in Task, d \in Delay, p \in Period \union {NoPeriod}, fixed \in BOOLEAN :
       (p = NoPeriod => ~fixed) /\ Schedule(t, d, p, fixed)
  \/ CancelTimer \/ Purge \/ Finalize
  \/ \E t \in Task : CancelTask(t)
  \/ \E t \in Adjusted :
       \/ \E p \in NewPeriod : SetPeriod(t, p)
       \/ \E on \in BOOLEAN : SetEnabled(t, on)
  \/ Run \/ WakeSpuriously \/ TaskThrows

Spec == Init /\ [][Next]_vars

\* Time passes, and the thread runs when it can; a task's script returns.
Fairness == WF_vars(Tick) /\ WF_vars(Run)

FairSpec == Spec /\ Fairness

-----------------------------------------------------------------------------
(* Properties                                                               *)

Queued(t) == \E i \in 1..Len(queue) : queue[i] = t

\* Every variable has its type.
TypeOK ==
  /\ now \in Nat \ {0}
  /\ queue \in Seq(Task)
  /\ when \in [Task -> Nat]
  /\ period \in [Task -> Int]
  /\ fixedRate \in [Task -> BOOLEAN]
  /\ launched \in [Task -> BOOLEAN]
  /\ taskCancelled \in [Task -> BOOLEAN]
  /\ enabled \in [Task -> BOOLEAN]
  /\ cancelled \in BOOLEAN
  /\ finished \in BOOLEAN
  /\ pc \in {"top", "wait", "launch", "run", "body", "dead"}
  /\ cur \in Task \union {NoTask}
  /\ wakeAt \in Nat \union {Forever}
  /\ prevented \in [Task -> BOOLEAN]
  /\ late \in [Task -> Nat]
  /\ disordered \in BOOLEAN

\* The thread never sleeps through its work: while it waits the timer is not
\* cancelled, a wait without a timeout means an empty queue of a timer that can
\* still be reached, and any other wait ends by the time of the earliest task, unless
\* a purge has disordered the heap, which takes six tasks (TimerQueue).
NoLostWakeup ==
  pc = "wait" =>
    /\ ~cancelled
    /\ wakeAt = Forever => queue = << >> /\ ~finished
    /\ queue # << >> /\ ~disordered => \A t \in Task : Queued(t) => wakeAt <= when[t]

\* A task is queued once, only while it has a time to run at, and not at all when
\* that time is 0: scheduling and requeueing never double it.
QueuedOnce ==
  /\ \A i, j \in 1..Len(queue) : queue[i] = queue[j] => i = j
  /\ \A t \in Task : Queued(t) => when[t] > 0
  /\ \A t \in Task : when[t] > 0 /\ ~taskCancelled[t] /\ ~cancelled => Queued(t)

\* What cancel() of a task achieves, whatever setPeriod() made of it: a run that the
\* thread has already committed itself to may still come, no second one; and the
\* answer is true just when a planned run is left, then and ever after: launching a
\* one-shot task after such an answer would belie it.
CancelTakesEffect ==
  \A t \in Task :
    /\ late[t] <= 1
    /\ taskCancelled[t] => (prevented[t] <=> when[t] > 0)

\* A task before t in the queue that goes back there for the same time or an earlier
\* one: its rate is fixed and its period 0, or it was made negative while it was read.
Hogged(t) ==
  \E u \in Task \ {t} :
    /\ Queued(u) /\ launched[u] /\ ~taskCancelled[u] /\ when[u] <= when[t]
    /\ period[u] < 0 \/ (period[u] = 0 /\ fixedRate[u])

\* A queued task does not wait past its time for ever, whatever else is queued: it is
\* run or taken out, unless setPeriod() lets another one hold the head of the queue
\* again and again.
DueTaskLeaves ==
  \A t \in Task :
    \/ []<>Hogged(t)
    \/ Queued(t) /\ when[t] <= MaxTime ~> (~Queued(t) \/ cancelled \/ (pc = "run" /\ cur = t))

\* A cancelled timer's thread ends, and so does that of an unreachable timer whose
\* tasks are all cancelled, at the latest when the earliest of them is due.
ThreadEnds ==
  cancelled \/ (finished /\ \A t \in Task : Queued(t) => taskCancelled[t] /\ when[t] <= MaxTime)
    ~> pc = "dead"

\* The timer implements what its documentation promises.
Ideal == INSTANCE TimerSpec
           WITH pending <- {t \in Task : Queued(t) /\ ~taskCancelled[t] /\ ~cancelled},
                due <- when,
                rated <- {t \in Task : fixedRate[t]},
                over <- {t \in Task : cancelled \/ IsScheduled(t) \/ taskCancelled[t]}

ImplementsTimerSpec == Ideal!Spec

=============================================================================
