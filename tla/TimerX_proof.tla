------------------------------ MODULE TimerX_proof -----------------------------
(***************************************************************************)
(* Theorems about TimerX: its types and safety properties, for any tasks,  *)
(* delays, periods and times, from TimerXAssumption and the theorems about *)
(* the heap.                                                               *)
(***************************************************************************)
EXTENDS TimerX, TimerHeap_proof

-----------------------------------------------------------------------------
(* The inductive invariant                                                  *)

\* QueuedOnce, in terms of the set of queued tasks.
QueueInv ==
  /\ IsInjective(queue)
  /\ \A t \in ToSet(queue) : when[t] > 0
  /\ \A t \in Task : when[t] > 0 /\ ~taskCancelled[t] /\ ~cancelled => t \in ToSet(queue)

\* Only a purge disorders the heap: all other deletions are of the head.
OrderInv == ~disordered => IsHeap(queue, when)

\* The task that the thread is about to launch is still the head, since nobody else
\* changes the queue until it gives up the monitor.
LaunchInv ==
  /\ pc \in {"launch", "run", "body"} => cur \in Task
  /\ pc = "launch" => queue # << >> /\ cur = Head(queue)

\* NoLostWakeup, in terms of the set of queued tasks.
WaitInv ==
  pc = "wait" =>
    /\ ~cancelled
    /\ wakeAt = Forever => queue = << >> /\ ~finished
    /\ queue # << >> /\ ~disordered => \A t \in ToSet(queue) : wakeAt <= when[t]

\* A late run is that of a cancelled task, and the thread has gone on from it; the
\* answer of cancel() was true just when the task still has a time, which it keeps.
CancelInv ==
  \A t \in Task :
    /\ late[t] <= 1
    /\ late[t] # 0 => taskCancelled[t] /\ ~ (pc = "run" /\ cur = t)
    /\ prevented[t] => taskCancelled[t]
    /\ taskCancelled[t] => (prevented[t] <=> when[t] > 0)

IInv == TypeOK /\ QueueInv /\ OrderInv /\ LaunchInv /\ WaitInv /\ CancelInv

-----------------------------------------------------------------------------
(* What the operations do to the queue                                      *)

LEMMA QueuedIs ==
  ASSUME TypeOK, NEW t
  PROVE  Queued(t) <=> t \in ToSet(queue)
<1>1. ToSet(queue) = {queue[i] : i \in 1 .. Len(queue)}
  BY Indices DEF TypeOK
<1> QED BY <1>1 DEF Queued

\* The head of a queue that is not empty is its first task.
LEMMA HeadIs ==
  ASSUME TypeOK, queue # << >>
  PROVE  /\ 1 \in 1 .. Len(queue)
         /\ Head(queue) = queue[1] /\ Head(queue) \in Task /\ Head(queue) \in ToSet(queue)
<1>1. queue \in Seq(Task) /\ Len(queue) \in Nat /\ Len(queue) # 0
  BY DEF TypeOK
<1>2. 1 \in 1 .. Len(queue)
  BY <1>1
<1>3. Head(queue) = queue[1]
  BY <1>1
<1>4. queue[1] \in ToSet(queue) /\ queue[1] \in Task
  BY <1>1, <1>2, Indices
<1> QED BY <1>2, <1>3, <1>4

\* A task that is scheduled was not queued, and is then.
LEMMA ScheduleIs ==
  ASSUME IInv, NEW t \in Task, NEW d \in Delay, NEW p, NEW fixed, Schedule(t, d, p, fixed)
  PROVE  /\ t \notin ToSet(queue)
         /\ when' = [when EXCEPT ![t] = now + d] /\ now + d \in Nat /\ now + d > 0
         /\ when' \in [Task -> Nat]
         /\ queue' \in Seq(Task) /\ IsInjective(queue')
         /\ ToSet(queue') = ToSet(queue) \union {t}
         /\ IsHeap(queue, when) => IsHeap(queue', when')
<1>1. when \in [Task -> Nat] /\ now \in Nat \ {0} /\ queue \in Seq(Task) /\ IsInjective(queue)
  BY DEF IInv, TypeOK, QueueInv
<1>2. when[t] = 0
  BY <1>1 DEF Schedule, IsScheduled
<1>3. t \notin ToSet(queue)
  BY <1>2 DEF IInv, QueueInv
<1>4. d \in Nat
  BY TimerXAssumption
<1>5. when' = [when EXCEPT ![t] = now + d] /\ now + d \in Nat /\ now + d > 0
  BY <1>1, <1>4 DEF Schedule
<1>6. when' \in [Task -> Nat] /\ \A u \in Task : u # t => when'[u] = when[u]
  BY <1>1, <1>5
<1>7. queue' = Insert(queue, when', t)
  BY DEF Schedule
<1>8. ASSUME IsHeap(queue, when) PROVE IsHeap(queue, when')
  <2>1. \A u \in ToSet(queue) : u \in Task /\ u # t
    BY <1>1, <1>3, Indices
  <2>2. \A u \in ToSet(queue) : when[u] = when'[u]
    BY <2>1, <1>6
  <2> QED BY <1>1, <1>8, <2>2, OrderOfElements
<1>9. /\ queue' \in Seq(Task) /\ IsInjective(queue')
      /\ ToSet(queue') = ToSet(queue) \union {t}
      /\ IsHeap(queue, when') => IsHeap(queue', when')
  BY <1>1, <1>3, <1>6, <1>7, InsertIs
<1> QED BY <1>3, <1>5, <1>6, <1>8, <1>9

\* A head that is deleted takes nothing else along.
LEMMA DeleteHeadIs ==
  ASSUME IInv, queue # << >>
  PROVE  LET rest == Delete(queue, when, 1)
         IN /\ rest \in Seq(Task) /\ IsInjective(rest)
            /\ ToSet(rest) = ToSet(queue) \ {Head(queue)}
            /\ IsHeap(queue, when) => IsHeap(rest, when)
<1>1. when \in [Task -> Nat] /\ queue \in Seq(Task) /\ IsInjective(queue)
  BY DEF IInv, TypeOK, QueueInv
<1>2. 1 \in 1 .. Len(queue) /\ Head(queue) = queue[1]
  BY HeadIs DEF IInv
<1> QED BY <1>1, <1>2, DeleteIs

\* The second look at a cancelled task deletes the head, as the first one does.
LEMMA LaunchCancelledIs ==
  ASSUME IInv, LaunchCancelled
  PROVE  /\ queue # << >> /\ cur = Head(queue) /\ taskCancelled[cur]
         /\ queue' = Delete(queue, when, 1)
<1>1. queue # << >> /\ cur = Head(queue) /\ taskCancelled[cur]
  BY DEF IInv, LaunchInv, LaunchCancelled, CancelledMeanwhile
<1>2. 1 \in 1 .. Len(queue) /\ Head(queue) = queue[1] /\ queue \in Seq(Task) /\ IsInjective(queue)
  BY <1>1, HeadIs DEF IInv, TypeOK, QueueInv
<1>3. GetTask(queue, cur) = 1
  BY <1>1, <1>2, GetTaskIs
<1> QED BY <1>1, <1>3 DEF LaunchCancelled

\* The next time of the task that is launched, whatever period is read for it.
LEMMA NextTimeIs ==
  ASSUME IInv, Launch, NEW p \in PeriodRead(cur)
  PROVE  /\ cur \in Task /\ cur \in ToSet(queue) /\ cur = Head(queue) /\ queue # << >>
         /\ p \in Int /\ NextTime(cur, p) \in Nat
         /\ period[cur] \in Int /\ p \in NewPeriod \union {period[cur]}
         /\ period[cur] < 0 => NextTime(cur, p) = 0 /\ p = period[cur]
         /\ period[cur] >= 0 => NextTime(cur, p) > 0
<1>1. cur \in Task /\ cur \in ToSet(queue) /\ cur = Head(queue) /\ queue # << >>
  BY HeadIs DEF IInv, LaunchInv, Launch
<1>2. now \in Nat \ {0} /\ when[cur] \in Nat /\ when[cur] > 0
  BY <1>1 DEF IInv, TypeOK, QueueInv
<1>3. period[cur] \in Int
  BY <1>1 DEF IInv, TypeOK
<1>4. \/ p = period[cur]
      \/ p \in NewPeriod /\ period[cur] >= 0 /\ NextTime(cur, p) > 0
  BY DEF PeriodRead
<1>5. p \in Int
  BY <1>3, <1>4, TimerXAssumption
<1>6. NextTime(cur, p) = IF period[cur] < 0 THEN 0
                         ELSE IF fixedRate[cur] THEN when[cur] + p
                         ELSE now + p
  BY DEF NextTime
<1>7. NextTime(cur, p) \in Int
  BY <1>2, <1>5, <1>6
<1>8. CASE period[cur] < 0
  BY <1>1, <1>3, <1>4, <1>5, <1>6, <1>8
<1>9. CASE period[cur] >= 0
  <2>1. NextTime(cur, p) > 0
    BY <1>2, <1>3, <1>4, <1>6, <1>9
  <2> QED BY <1>1, <1>3, <1>4, <1>5, <1>7, <1>9, <2>1
<1> QED BY <1>3, <1>8, <1>9

\* A launch takes the head out of the queue, and puts it back for its next time.
LEMMA LaunchIs ==
  ASSUME IInv, Launch
  PROVE  /\ cur \in Task /\ cur \in ToSet(queue) /\ cur = Head(queue) /\ queue # << >>
         /\ \E p \in PeriodRead(cur) : /\ period' = [period EXCEPT ![cur] = p]
                                       /\ when' = [when EXCEPT ![cur] = NextTime(cur, p)]
         /\ when' \in [Task -> Nat] /\ period' \in [Task -> Int]
         /\ period[cur] \in Int
         /\ period[cur] < 0 => when'[cur] = 0
         /\ period[cur] >= 0 => when'[cur] > 0
         /\ \A u \in Task : u # cur => when'[u] = when[u]
         /\ queue' \in Seq(Task) /\ IsInjective(queue')
         /\ ToSet(queue') = IF period[cur] >= 0 THEN ToSet(queue) ELSE ToSet(queue) \ {cur}
         /\ IsHeap(queue, when) => IsHeap(queue', when')
<1> DEFINE rest == Delete(queue, when, 1)
<1>a. /\ cur \in Task /\ cur \in ToSet(queue) /\ cur = Head(queue) /\ queue # << >>
      /\ period[cur] \in Int
  <2>1. period[cur] \in PeriodRead(cur)
    BY DEF PeriodRead
  <2> QED BY <2>1, NextTimeIs
<1>b. \E p \in PeriodRead(cur) : /\ period' = [period EXCEPT ![cur] = p]
                                 /\ when' = [when EXCEPT ![cur] = NextTime(cur, p)]
                                 /\ queue' = IF period[cur] >= 0 THEN Insert(rest, when', cur) ELSE rest
  BY <1>a DEF Launch
<1>0. PICK n \in Nat, q \in Int :
        /\ period' = [period EXCEPT ![cur] = q]
        /\ when' = [when EXCEPT ![cur] = n]
        /\ period[cur] < 0 => n = 0
        /\ period[cur] >= 0 => n > 0
        /\ queue' = IF period[cur] >= 0 THEN Insert(rest, when', cur) ELSE rest
  BY <1>b, NextTimeIs
<1> HIDE DEF rest
<1>1. cur \in Task /\ cur \in ToSet(queue) /\ cur = Head(queue) /\ queue # << >>
  BY <1>a
<1>2. when' = [when EXCEPT ![cur] = n]
  BY <1>0
<1>3. /\ rest \in Seq(Task) /\ IsInjective(rest)
      /\ ToSet(rest) = ToSet(queue) \ {cur}
      /\ IsHeap(queue, when) => IsHeap(rest, when)
  BY <1>1, DeleteHeadIs DEF rest
<1>4. when \in [Task -> Nat] /\ period \in [Task -> Int]
  BY DEF IInv, TypeOK
<1>5. when' \in [Task -> Nat] /\ \A u \in Task : u # cur => when'[u] = when[u]
  BY <1>1, <1>2, <1>4
<1>11. /\ period' \in [Task -> Int] /\ period[cur] \in Int
       /\ period[cur] < 0 => when'[cur] = 0
       /\ period[cur] >= 0 => when'[cur] > 0
  BY <1>0, <1>1, <1>2, <1>4
<1>6. ASSUME IsHeap(queue, when) PROVE IsHeap(rest, when')
  <2>1. \A u \in ToSet(rest) : u \in Task /\ u # cur
    BY <1>3, Indices
  <2>2. \A u \in ToSet(rest) : when[u] = when'[u]
    BY <2>1, <1>5
  <2> QED BY <1>3, <1>6, <2>2, OrderOfElements
<1>7. /\ Insert(rest, when', cur) \in Seq(Task)
      /\ ToSet(Insert(rest, when', cur)) = ToSet(rest) \union {cur}
      /\ IsInjective(Insert(rest, when', cur))
      /\ IsHeap(rest, when') => IsHeap(Insert(rest, when', cur), when')
  <2>1. cur \notin ToSet(rest) /\ cur \in Task /\ rest \in Seq(Task) /\ IsInjective(rest)
    BY <1>1, <1>3
  <2>2. ASSUME NEW w \in [Task -> Nat]
        PROVE  /\ Insert(rest, w, cur) \in Seq(Task)
               /\ ToSet(Insert(rest, w, cur)) = ToSet(rest) \union {cur}
               /\ IsInjective(Insert(rest, w, cur))
               /\ IsHeap(rest, w) => IsHeap(Insert(rest, w, cur), w)
    BY <2>1, InsertIs
  <2> QED BY <1>5, <2>2
<1>8. ToSet(rest) \union {cur} = ToSet(queue)
  BY <1>1, <1>3
<1>12. \E p \in PeriodRead(cur) : /\ period' = [period EXCEPT ![cur] = p]
                                  /\ when' = [when EXCEPT ![cur] = NextTime(cur, p)]
  BY <1>b
<1>9. CASE period[cur] >= 0
  <2>1. queue' = Insert(rest, when', cur)
    BY <1>0, <1>9
  <2>2. ToSet(queue') = ToSet(queue)
    BY <2>1, <1>7, <1>8
  <2> QED BY <1>1, <1>5, <1>6, <1>7, <1>9, <1>11, <1>12, <2>1, <2>2
<1>10. CASE ~ (period[cur] >= 0)
  <2>1. queue' = rest
    BY <1>0, <1>10
  <2> QED BY <1>1, <1>3, <1>5, <1>6, <1>10, <1>11, <1>12, <2>1
<1> QED BY <1>9, <1>10

\* A purge takes out the cancelled tasks.
LEMMA PurgeIs ==
  ASSUME IInv, Purge
  PROVE  /\ queue' \in Seq(Task) /\ IsInjective(queue')
         /\ ToSet(queue') = {t \in ToSet(queue) : ~ taskCancelled[t]}
<1>1. when \in [Task -> Nat] /\ queue \in Seq(Task) /\ IsInjective(queue)
  BY DEF IInv, TypeOK, QueueInv
<1>2. queue' = DeleteIfCancelled(queue, when, taskCancelled)
  BY DEF Purge
<1> QED BY <1>1, <1>2, DeleteIfCancelledIs

-----------------------------------------------------------------------------
(* The invariant holds initially and is kept                                *)

LEMMA InitInv == Init => IInv
<1> SUFFICES ASSUME Init PROVE IInv
  OBVIOUS
<1>1. queue = << >> /\ queue \in Seq(Task) /\ Len(queue) = 0
  BY DEF Init
<1>2. ToSet(queue) = {} /\ IsInjective(queue)
  <2>1. 1 .. 0 = {}
    OBVIOUS
  <2> QED BY <1>1, <2>1, Indices
<1>3. TypeOK
  <2>1. /\ when \in [Task -> Nat] /\ period \in [Task -> Int]
        /\ late \in [Task -> Nat]
    BY DEF Init
  <2>2. /\ fixedRate \in [Task -> BOOLEAN] /\ launched \in [Task -> BOOLEAN]
        /\ taskCancelled \in [Task -> BOOLEAN] /\ enabled \in [Task -> BOOLEAN]
        /\ prevented \in [Task -> BOOLEAN]
    BY DEF Init
  <2>3. /\ now \in Nat \ {0} /\ cancelled \in BOOLEAN /\ finished \in BOOLEAN
        /\ pc \in {"top", "wait", "launch", "run", "body", "dead"}
        /\ cur \in Task \union {NoTask} /\ wakeAt \in Nat \union {Forever}
        /\ disordered \in BOOLEAN
    <3>1. now = 1 /\ pc = "top" /\ cur = NoTask /\ wakeAt = Forever
      BY DEF Init
    <3>2. cancelled = FALSE /\ finished = FALSE /\ disordered = FALSE
      BY DEF Init
    <3>3. now \in Nat \ {0}
      BY <3>1
    <3>4. cancelled \in BOOLEAN /\ finished \in BOOLEAN /\ disordered \in BOOLEAN
      BY <3>2, Zenon
    <3> QED BY <3>1, <3>3, <3>4
  <2> QED BY <1>1, <2>1, <2>2, <2>3 DEF TypeOK
<1>4. QueueInv
  BY <1>2 DEF Init, QueueInv
<1>5. OrderInv
  BY <1>1 DEF OrderInv, IsHeap
<1>6. LaunchInv /\ WaitInv
  BY DEF Init, LaunchInv, WaitInv
<1>7. CancelInv
  BY DEF Init, CancelInv
<1> QED BY <1>3, <1>4, <1>5, <1>6, <1>7 DEF IInv

\* Notify takes the thread back to the top, or changes nothing.
LEMMA NotifyIs ==
  ASSUME Notify
  PROVE  /\ pc' # "wait"
         /\ pc' = pc \/ pc' = "top"
         /\ wakeAt' = wakeAt \/ wakeAt' = Forever
BY DEF Notify

LEMMA TypeStep == IInv /\ [Next]_vars => TypeOK'
<1> SUFFICES ASSUME IInv, [Next]_vars PROVE TypeOK'
  OBVIOUS
<1> USE DEF TypeOK, taskVars, threadVars, historyVars
<1> TypeOK
  BY DEF IInv
<1>1. CASE UNCHANGED vars
  BY <1>1 DEF vars
<1>2. CASE Tick
  <2>1. now' \in Nat \ {0}
    BY <1>2 DEF Tick
  <2> QED BY <1>2, <2>1 DEF Tick
<1>3. ASSUME NEW t \in Task, NEW d \in Delay, NEW p \in Period \union {NoPeriod},
             NEW fixed \in BOOLEAN, Schedule(t, d, p, fixed)
      PROVE  TypeOK'
  <2>1. when' \in [Task -> Nat] /\ queue' \in Seq(Task)
    BY <1>3, ScheduleIs
  <2>2. p \in Int
    BY <1>3, TimerXAssumption
  <2>3. period' \in [Task -> Int] /\ fixedRate' \in [Task -> BOOLEAN]
    BY <1>3, <2>2 DEF Schedule
  <2>4. pc' \in {"top", "wait", "launch", "run", "body", "dead"} /\ wakeAt' \in Nat \union {Forever}
    BY <1>3, NotifyIs DEF Schedule
  <2> QED BY <1>3, <2>1, <2>3, <2>4 DEF Schedule
<1>4. CASE CancelTimer
  <2>1. pc' \in {"top", "wait", "launch", "run", "body", "dead"} /\ wakeAt' \in Nat \union {Forever}
    BY <1>4, NotifyIs DEF CancelTimer
  <2> QED BY <1>4, <2>1 DEF CancelTimer
<1>5. CASE Purge
  <2>1. queue' \in Seq(Task)
    BY <1>5, PurgeIs
  <2>2. disordered' \in BOOLEAN
    BY <1>5 DEF Purge
  <2> QED BY <1>5, <2>1, <2>2 DEF Purge
<1>6. CASE Finalize
  <2>1. pc' \in {"top", "wait", "launch", "run", "body", "dead"} /\ wakeAt' \in Nat \union {Forever}
    BY <1>6, NotifyIs DEF Finalize
  <2> QED BY <1>6, <2>1 DEF Finalize
<1>7. ASSUME NEW t \in Task, CancelTask(t) PROVE TypeOK'
  <2>1. taskCancelled' \in [Task -> BOOLEAN]
    BY <1>7 DEF CancelTask
  <2>2. prevented' \in [Task -> BOOLEAN]
    <3>1. prevented' = [prevented EXCEPT ![t] = prevented[t] \/ (~taskCancelled[t] /\ when[t] > 0)]
      BY <1>7 DEF CancelTask
    <3>2. (prevented[t] \/ (~taskCancelled[t] /\ when[t] > 0)) \in BOOLEAN
      OBVIOUS
    <3> QED BY <3>1, <3>2
  <2> QED BY <1>7, <2>1, <2>2 DEF CancelTask
<1>8. ASSUME NEW t \in Adjusted, NEW p \in NewPeriod, SetPeriod(t, p) PROVE TypeOK'
  <2>1. p \in Int
    BY <1>8, TimerXAssumption
  <2> QED BY <1>8, <2>1 DEF SetPeriod
<1>9. ASSUME NEW t \in Adjusted, NEW on \in BOOLEAN, SetEnabled(t, on) PROVE TypeOK'
  BY <1>9 DEF SetEnabled
<1>10. CASE Return
  BY <1>10 DEF Return
<1>11. CASE WaitForTask
  BY <1>11 DEF WaitForTask
<1>12. CASE DropCancelled
  <2>1. queue' \in Seq(Task)
    BY <1>12, DeleteHeadIs DEF DropCancelled
  <2> QED BY <1>12, <2>1 DEF DropCancelled
<1>13. CASE WaitForTime
  <2>1. wakeAt' \in Nat
    BY <1>13, HeadIs DEF WaitForTime
  <2> QED BY <1>13, <2>1 DEF WaitForTime
<1>14. CASE Pick
  <2>1. cur' \in Task
    BY <1>14, HeadIs DEF Pick
  <2> QED BY <1>14, <2>1 DEF Pick
<1>15. CASE Wake
  BY <1>15 DEF Wake
<1>16. CASE WakeSpuriously
  BY <1>16 DEF WakeSpuriously
<1>17. CASE LaunchCancelled
  <2>1. queue' \in Seq(Task)
    BY <1>17, LaunchCancelledIs, DeleteHeadIs
  <2> QED BY <1>17, <2>1 DEF LaunchCancelled
<1>18. CASE Launch
  <2>1. when' \in [Task -> Nat] /\ period' \in [Task -> Int] /\ queue' \in Seq(Task)
    BY <1>18, LaunchIs
  <2>2. launched' \in [Task -> BOOLEAN]
    BY <1>18 DEF Launch
  <2>3. /\ pc' = "run"
        /\ UNCHANGED <<now, fixedRate, taskCancelled, enabled, cancelled, finished, cur, wakeAt,
                       historyVars>>
    BY <1>18 DEF Launch
  <2> QED BY <2>1, <2>2, <2>3
<1>19. CASE EnterTask
  <2>1. cur \in Task
    BY <1>19 DEF IInv, LaunchInv, EnterTask
  <2>2. late' = [late EXCEPT ![cur] = IF taskCancelled[cur] THEN late[cur] + 1 ELSE late[cur]]
    BY <1>19 DEF EnterTask
  <2>3. late[cur] + 1 \in Nat
    BY <2>1
  <2>4. late' \in [Task -> Nat]
    BY <2>1, <2>2, <2>3
  <2> QED BY <1>19, <2>4 DEF EnterTask
<1>20. CASE SkipTask
  BY <1>20 DEF SkipTask
<1>21. CASE TaskReturns
  BY <1>21 DEF TaskReturns
<1>22. CASE TaskThrows
  BY <1>22 DEF TaskThrows
<1>23. CASE Run
  BY <1>10, <1>11, <1>12, <1>13, <1>14, <1>15, <1>17, <1>18, <1>19, <1>20, <1>21, <1>23 DEF Run
<1> HIDE DEF TypeOK, taskVars, threadVars, historyVars
<1> QED
  BY <1>1, <1>2, <1>3, <1>4, <1>5, <1>6, <1>7, <1>8, <1>9, <1>16, <1>22, <1>23 DEF Next

LEMMA QueueStep == IInv /\ [Next]_vars => QueueInv'
<1> SUFFICES ASSUME IInv, [Next]_vars PROVE QueueInv'
  OBVIOUS
<1> USE DEF taskVars, threadVars, historyVars
<1>q. /\ IsInjective(queue)
      /\ \A t \in ToSet(queue) : when[t] > 0
      /\ \A t \in Task : when[t] > 0 /\ ~taskCancelled[t] /\ ~cancelled => t \in ToSet(queue)
  BY DEF IInv, QueueInv
<1>t. /\ taskCancelled \in [Task -> BOOLEAN] /\ when \in [Task -> Nat]
      /\ \A t \in ToSet(queue) : t \in Task
  <2>1. taskCancelled \in [Task -> BOOLEAN] /\ when \in [Task -> Nat] /\ queue \in Seq(Task)
    BY DEF IInv, TypeOK
  <2> QED BY <2>1, Indices
\* The steps that leave queue, times and cancellations alone.
<1>1. ASSUME UNCHANGED <<queue, when, taskCancelled>>, cancelled => cancelled' PROVE QueueInv'
  BY <1>1, <1>q DEF QueueInv
<1>2. ASSUME NEW t \in Task, NEW d \in Delay, NEW p \in Period \union {NoPeriod},
             NEW fixed \in BOOLEAN, Schedule(t, d, p, fixed)
      PROVE  QueueInv'
  <2>1. /\ when' = [when EXCEPT ![t] = now + d] /\ now + d > 0
        /\ IsInjective(queue') /\ ToSet(queue') = ToSet(queue) \union {t}
    BY <1>2, ScheduleIs
  <2>2. when'[t] > 0 /\ \A u \in Task : u # t => when'[u] = when[u]
    BY <1>t, <2>1
  <2>3. UNCHANGED <<taskCancelled, cancelled>>
    BY <1>2 DEF Schedule
  <2> QED BY <1>q, <1>t, <2>1, <2>2, <2>3 DEF QueueInv
<1>3. CASE CancelTimer
  <2>1. queue' = << >> /\ cancelled'
    BY <1>3 DEF CancelTimer
  <2>2. ToSet(queue') = {} /\ IsInjective(queue')
    <3>1. queue' \in Seq(Task) /\ Len(queue') = 0 /\ 1 .. 0 = {}
      BY <2>1
    <3> QED BY <3>1, Indices
  <2> QED BY <2>1, <2>2 DEF QueueInv
<1>4. CASE Purge
  <2>1. IsInjective(queue') /\ ToSet(queue') = {t \in ToSet(queue) : ~ taskCancelled[t]}
    BY <1>4, PurgeIs
  <2>2. UNCHANGED <<when, taskCancelled, cancelled>>
    BY <1>4 DEF Purge
  <2> QED BY <1>q, <2>1, <2>2 DEF QueueInv
<1>5. ASSUME NEW t \in Task, CancelTask(t) PROVE QueueInv'
  <2>1. \A u \in Task : taskCancelled[u] => taskCancelled'[u]
    BY <1>5, <1>t DEF CancelTask
  <2>2. UNCHANGED <<queue, when, cancelled>>
    BY <1>5 DEF CancelTask
  <2> QED BY <1>q, <2>1, <2>2 DEF QueueInv
<1>6. CASE DropCancelled \/ LaunchCancelled
  <2>1. queue # << >> /\ taskCancelled[Head(queue)] /\ queue' = Delete(queue, when, 1)
    BY <1>6, LaunchCancelledIs DEF DropCancelled
  <2>2. IsInjective(queue') /\ ToSet(queue') = ToSet(queue) \ {Head(queue)}
    BY <2>1, DeleteHeadIs
  <2>3. UNCHANGED <<when, taskCancelled, cancelled>>
    BY <1>6 DEF DropCancelled, LaunchCancelled
  <2> QED BY <1>q, <2>1, <2>2, <2>3 DEF QueueInv
<1>7. CASE Launch
  <2>1. /\ cur \in Task /\ cur \in ToSet(queue) /\ period[cur] \in Int
        /\ period[cur] < 0 => when'[cur] = 0
        /\ period[cur] >= 0 => when'[cur] > 0
    BY <1>7, LaunchIs
  <2>2. /\ when' \in [Task -> Nat]
        /\ IsInjective(queue')
        /\ ToSet(queue') = IF period[cur] >= 0 THEN ToSet(queue) ELSE ToSet(queue) \ {cur}
    BY <1>7, LaunchIs
  <2>3. \A u \in Task : u # cur => when'[u] = when[u]
    BY <1>7, LaunchIs
  <2>4. UNCHANGED <<taskCancelled, cancelled>>
    BY <1>7 DEF Launch
  <2>5. CASE period[cur] >= 0
    BY <1>q, <1>t, <2>1, <2>2, <2>3, <2>4, <2>5 DEF QueueInv
  <2>6. CASE ~ (period[cur] >= 0)
    <3>1. ~ (when'[cur] > 0)
      BY <2>1, <2>6
    <3> QED BY <1>q, <1>t, <2>1, <2>2, <2>3, <2>4, <2>6, <3>1 DEF QueueInv
  <2> QED BY <2>5, <2>6
<1>8. CASE UNCHANGED vars
  BY <1>1, <1>8 DEF vars
<1>9. CASE Tick \/ Finalize
  BY <1>1, <1>9 DEF Tick, Finalize
<1>10. ASSUME NEW t \in Task,
              (\E p \in NewPeriod : SetPeriod(t, p)) \/ \E on \in BOOLEAN : SetEnabled(t, on)
       PROVE  QueueInv'
  BY <1>1, <1>10 DEF SetPeriod, SetEnabled
<1>11. CASE Return \/ WaitForTask \/ WaitForTime \/ Pick \/ Wake \/ WakeSpuriously
  BY <1>1, <1>11 DEF Return, WaitForTask, WaitForTime, Pick, Wake, WakeSpuriously
<1>12. CASE EnterTask \/ SkipTask \/ TaskReturns \/ TaskThrows
  BY <1>1, <1>12 DEF EnterTask, SkipTask, TaskReturns, TaskThrows
<1> QED
  BY <1>2, <1>3, <1>4, <1>5, <1>6, <1>7, <1>8, <1>9, <1>10, <1>11, <1>12,
     TimerXAssumption
  DEF Next, Run

LEMMA OrderStep == IInv /\ [Next]_vars => OrderInv'
<1> SUFFICES ASSUME IInv, [Next]_vars PROVE OrderInv'
  OBVIOUS
<1> USE DEF taskVars, threadVars, historyVars
<1>q. ~disordered => IsHeap(queue, when)
  BY DEF IInv, OrderInv
<1>1. ASSUME UNCHANGED <<queue, when, disordered>> PROVE OrderInv'
  <2>1. IsHeap(queue, when) => IsHeap(queue', when')
    BY <1>1
  <2> QED BY <1>1, <1>q, <2>1 DEF OrderInv
<1>2. ASSUME NEW t \in Task, NEW d \in Delay, NEW p \in Period \union {NoPeriod},
             NEW fixed \in BOOLEAN, Schedule(t, d, p, fixed)
      PROVE  OrderInv'
  <2>1. IsHeap(queue, when) => IsHeap(queue', when')
    BY <1>2, ScheduleIs
  <2>2. disordered' = disordered
    BY <1>2 DEF Schedule
  <2> QED BY <1>q, <2>1, <2>2 DEF OrderInv
<1>3. CASE CancelTimer
  <2>1. queue' = << >>
    BY <1>3 DEF CancelTimer
  <2>2. IsHeap(queue', when')
    BY <2>1 DEF IsHeap
  <2> QED BY <2>2 DEF OrderInv
<1>4. CASE Purge
  <2>1. disordered' = (disordered \/ ~IsHeap(queue', when)) /\ when' = when
    BY <1>4 DEF Purge
  <2>2. ~disordered' => IsHeap(queue', when)
    BY <2>1
  <2>3. IsHeap(queue', when) => IsHeap(queue', when')
    BY <2>1
  <2> QED BY <2>2, <2>3 DEF OrderInv
<1>5. CASE DropCancelled \/ LaunchCancelled
  <2>1. queue # << >> /\ queue' = Delete(queue, when, 1)
    BY <1>5, LaunchCancelledIs DEF DropCancelled
  <2>2. IsHeap(queue, when) => IsHeap(queue', when)
    BY <2>1, DeleteHeadIs
  <2>3. UNCHANGED <<when, disordered>>
    BY <1>5 DEF DropCancelled, LaunchCancelled
  <2> QED BY <1>q, <2>2, <2>3 DEF OrderInv
<1>6. CASE Launch
  <2>1. IsHeap(queue, when) => IsHeap(queue', when')
    BY <1>6, LaunchIs
  <2>2. disordered' = disordered
    BY <1>6 DEF Launch
  <2> QED BY <1>q, <2>1, <2>2 DEF OrderInv
<1>7. CASE UNCHANGED vars
  BY <1>1, <1>7 DEF vars
<1>8. CASE Tick \/ Finalize
  BY <1>1, <1>8 DEF Tick, Finalize
<1>9. ASSUME NEW t \in Task,
             \/ CancelTask(t)
             \/ \E p \in NewPeriod : SetPeriod(t, p)
             \/ \E on \in BOOLEAN : SetEnabled(t, on)
      PROVE  OrderInv'
  BY <1>1, <1>9 DEF CancelTask, SetPeriod, SetEnabled
<1>10. CASE Return \/ WaitForTask \/ WaitForTime \/ Pick \/ Wake \/ WakeSpuriously
  BY <1>1, <1>10 DEF Return, WaitForTask, WaitForTime, Pick, Wake, WakeSpuriously
<1>11. CASE EnterTask \/ SkipTask \/ TaskReturns \/ TaskThrows
  BY <1>1, <1>11 DEF EnterTask, SkipTask, TaskReturns, TaskThrows
<1> QED
  BY <1>2, <1>3, <1>4, <1>5, <1>6, <1>7, <1>8, <1>9, <1>10, <1>11,
     TimerXAssumption
  DEF Next, Run

LEMMA LaunchStep == IInv /\ [Next]_vars => LaunchInv'
<1> SUFFICES ASSUME IInv, [Next]_vars PROVE LaunchInv'
  OBVIOUS
<1> USE DEF taskVars, threadVars, historyVars
<1>q. /\ pc \in {"launch", "run", "body"} => cur \in Task
      /\ pc = "launch" => queue # << >> /\ cur = Head(queue)
  BY DEF IInv, LaunchInv
\* The thread comes to no step that needs a task, and the queue is not touched
\* between Pick and Launch.
<1>1. ASSUME pc' \notin {"launch", "run", "body"} PROVE LaunchInv'
  BY <1>1 DEF LaunchInv
<1>2. ASSUME cur' = cur, pc' = pc \/ pc' \notin {"launch", "run", "body"},
             pc = "launch" => queue' = queue
      PROVE  LaunchInv'
  BY <1>2, <1>q DEF LaunchInv
<1>3. ASSUME NEW t \in Task, NEW d \in Delay, NEW p \in Period \union {NoPeriod},
             NEW fixed \in BOOLEAN, Schedule(t, d, p, fixed)
      PROVE  LaunchInv'
  BY <1>2, <1>3, NotifyIs DEF Schedule, MonitorFree
<1>4. CASE CancelTimer \/ Finalize
  BY <1>2, <1>4, NotifyIs DEF CancelTimer, Finalize, MonitorFree
<1>5. CASE Purge
  BY <1>2, <1>5 DEF Purge, MonitorFree
<1>6. ASSUME NEW t \in Task,
             \/ CancelTask(t)
             \/ \E p \in NewPeriod : SetPeriod(t, p)
             \/ \E on \in BOOLEAN : SetEnabled(t, on)
      PROVE  LaunchInv'
  BY <1>2, <1>6 DEF CancelTask, SetPeriod, SetEnabled
<1>7. CASE UNCHANGED vars \/ Tick
  BY <1>2, <1>7 DEF vars, Tick
<1>8. CASE Return \/ WaitForTask \/ WaitForTime \/ Wake \/ WakeSpuriously
  BY <1>1, <1>8 DEF Return, WaitForTask, WaitForTime, Wake, WakeSpuriously
<1>9. CASE DropCancelled
  BY <1>1, <1>9 DEF DropCancelled
<1>10. CASE LaunchCancelled \/ SkipTask \/ TaskReturns \/ TaskThrows
  BY <1>1, <1>10 DEF LaunchCancelled, SkipTask, TaskReturns, TaskThrows
<1>11. CASE Pick
  <2>1. queue # << >> /\ queue' = queue /\ cur' = Head(queue) /\ cur' \in Task
    BY <1>11, HeadIs DEF Pick, IInv
  <2> QED BY <2>1 DEF LaunchInv
<1>12. CASE Launch \/ EnterTask
  <2>1. pc' \in {"run", "body"} /\ cur' = cur /\ pc \in {"launch", "run"}
    BY <1>12 DEF Launch, EnterTask
  <2> QED BY <2>1, <1>q DEF LaunchInv
<1> QED
  BY <1>3, <1>4, <1>5, <1>6, <1>7, <1>8, <1>9, <1>10, <1>11, <1>12,
     TimerXAssumption
  DEF Next, Run

LEMMA WaitStep == IInv /\ [Next]_vars => WaitInv'
<1> SUFFICES ASSUME IInv, [Next]_vars PROVE WaitInv'
  OBVIOUS
<1> USE DEF taskVars, threadVars, historyVars
<1>q. pc = "wait" =>
        /\ ~cancelled
        /\ wakeAt = Forever => queue = << >> /\ ~finished
        /\ queue # << >> /\ ~disordered => \A t \in ToSet(queue) : wakeAt <= when[t]
  BY DEF IInv, WaitInv
<1>1. ASSUME pc' # "wait" PROVE WaitInv'
  BY <1>1 DEF WaitInv
<1>2. ASSUME UNCHANGED <<pc, wakeAt, cancelled, finished, disordered, queue, when>> PROVE WaitInv'
  BY <1>2, <1>q DEF WaitInv
<1>3. ASSUME NEW t \in Task, NEW d \in Delay, NEW p \in Period \union {NoPeriod},
             NEW fixed \in BOOLEAN, Schedule(t, d, p, fixed)
      PROVE  WaitInv'
  BY <1>1, <1>3, NotifyIs DEF Schedule
<1>4. CASE CancelTimer \/ Finalize
  BY <1>1, <1>4, NotifyIs DEF CancelTimer, Finalize
\* A purge leaves fewer tasks to wait for.
<1>5. CASE Purge
  <2>1. /\ queue' \in Seq(Task) /\ queue \in Seq(Task)
        /\ ToSet(queue') = {t \in ToSet(queue) : ~ taskCancelled[t]}
    BY <1>5, PurgeIs DEF IInv, TypeOK
  <2>2. /\ UNCHANGED <<pc, wakeAt, cancelled, finished, when>>
        /\ disordered => disordered'
    BY <1>5 DEF Purge
  <2>3. queue = << >> => queue' = << >>
    <3>1. SUFFICES ASSUME queue = << >>, queue' # << >> PROVE FALSE
      OBVIOUS
    <3>2. Len(queue) = 0 /\ Len(queue') \in Nat /\ Len(queue') # 0 /\ 1 .. 0 = {}
      BY <2>1, <3>1
    <3>3. 1 \in 1 .. Len(queue')
      BY <3>2
    <3>4. ToSet(queue') = {queue'[i] : i \in 1 .. Len(queue')}
      BY <2>1, Indices
    <3>5. ToSet(queue) = {}
      <4>1. ToSet(queue) = {queue[i] : i \in 1 .. Len(queue)}
        BY <2>1, Indices
      <4>2. 1 .. Len(queue) = {}
        BY <3>2
      <4> QED BY <4>1, <4>2
    <3> QED BY <2>1, <3>3, <3>4, <3>5
  <2>4. \A t \in ToSet(queue') : t \in ToSet(queue)
    BY <2>1
  <2>5. ASSUME pc' = "wait" PROVE /\ ~cancelled'
                                  /\ wakeAt' = Forever => queue' = << >> /\ ~finished'
    BY <1>q, <2>2, <2>3, <2>5
  <2>6. ASSUME pc' = "wait", queue' # << >>, ~disordered', NEW t \in ToSet(queue')
        PROVE  wakeAt' <= when'[t]
    <3>1. wakeAt <= when[t]
      BY <1>q, <2>2, <2>3, <2>4, <2>6
    <3> QED BY <2>2, <3>1
  <2> QED BY <2>5, <2>6 DEF WaitInv
<1>6. ASSUME NEW t \in Task,
             \/ CancelTask(t)
             \/ \E p \in NewPeriod : SetPeriod(t, p)
             \/ \E on \in BOOLEAN : SetEnabled(t, on)
      PROVE  WaitInv'
  BY <1>2, <1>6 DEF CancelTask, SetPeriod, SetEnabled
<1>7. CASE UNCHANGED vars \/ Tick
  BY <1>2, <1>7 DEF vars, Tick
<1>8. CASE Return \/ Wake \/ WakeSpuriously \/ DropCancelled \/ Pick
  BY <1>1, <1>8 DEF Return, Wake, WakeSpuriously, DropCancelled, Pick
<1>9. CASE LaunchCancelled \/ Launch \/ EnterTask \/ SkipTask \/ TaskReturns \/ TaskThrows
  BY <1>1, <1>9 DEF LaunchCancelled, Launch, EnterTask, SkipTask, TaskReturns, TaskThrows
<1>10. CASE WaitForTask
  BY <1>10 DEF WaitForTask, WaitInv
<1>11. CASE WaitForTime
  <2>1. /\ ~cancelled /\ queue # << >> /\ wakeAt' = when[Head(queue)]
        /\ UNCHANGED <<cancelled, queue, when, disordered>>
    BY <1>11 DEF WaitForTime
  <2>2. wakeAt' # Forever
    <3>1. when[Head(queue)] \in Nat
      BY <2>1, HeadIs DEF IInv, TypeOK
    <3> QED BY <2>1, <3>1, TimerXAssumption
  <2>3. ~disordered => \A t \in ToSet(queue) : when[Head(queue)] <= when[t]
    <3>1. when \in [Task -> Nat] /\ queue \in Seq(Task)
      BY DEF IInv, TypeOK
    <3>2. ~disordered => IsHeap(queue, when)
      BY DEF IInv, OrderInv
    <3> QED BY <3>1, <3>2, HeadIsEarliest
  <2> QED BY <2>1, <2>2, <2>3 DEF WaitInv
<1> QED
  BY <1>3, <1>4, <1>5, <1>6, <1>7, <1>8, <1>9, <1>10, <1>11,
     TimerXAssumption
  DEF Next, Run

LEMMA CancelStep == IInv /\ [Next]_vars => CancelInv'
<1> SUFFICES ASSUME IInv, [Next]_vars PROVE CancelInv'
  OBVIOUS
<1> USE DEF taskVars, threadVars, historyVars
<1> DEFINE Good(t) ==
      /\ late[t] <= 1
      /\ late[t] # 0 => taskCancelled[t] /\ ~ (pc = "run" /\ cur = t)
      /\ prevented[t] => taskCancelled[t]
      /\ taskCancelled[t] => (prevented[t] <=> when[t] > 0)
<1>q. \A t \in Task : Good(t)
  BY DEF IInv, CancelInv
<1>g. (\A t \in Task : Good(t)') => CancelInv'
  BY DEF CancelInv
<1>t. /\ taskCancelled \in [Task -> BOOLEAN] /\ when \in [Task -> Nat]
      /\ prevented \in [Task -> BOOLEAN] /\ late \in [Task -> Nat]
  BY DEF IInv, TypeOK
<1>1. ASSUME UNCHANGED <<when, taskCancelled, prevented, late>>,
             pc' = "run" => pc = "run" /\ cur' = cur
      PROVE  CancelInv'
  BY <1>1, <1>q DEF CancelInv
<1>2. ASSUME NEW t \in Task, NEW d \in Delay, NEW p \in Period \union {NoPeriod},
             NEW fixed \in BOOLEAN, Schedule(t, d, p, fixed)
      PROVE  CancelInv'
  <2>1. ~taskCancelled[t]
    BY <1>2 DEF Schedule
  <2>2. /\ when' = [when EXCEPT ![t] = now + d]
        /\ UNCHANGED <<taskCancelled, prevented, late, cur>>
        /\ pc' = "run" => pc = "run"
    BY <1>2, NotifyIs DEF Schedule
  <2>3. ASSUME NEW u \in Task PROVE Good(u)'
    <3>1. CASE u = t
      BY <1>q, <2>1, <2>2, <3>1
    <3>2. CASE u # t
      <4>1. when'[u] = when[u]
        BY <1>t, <2>2, <3>2
      <4> QED BY <1>q, <2>2, <4>1
    <3> QED BY <3>1, <3>2
  <2> QED BY <1>g, <2>3
<1>3. ASSUME NEW t \in Task, CancelTask(t) PROVE CancelInv'
  <2>1. /\ taskCancelled' = [taskCancelled EXCEPT ![t] = TRUE]
        /\ prevented' = [prevented EXCEPT ![t] = prevented[t] \/ (~taskCancelled[t] /\ when[t] > 0)]
        /\ UNCHANGED <<when, late, pc, cur>>
    BY <1>3 DEF CancelTask
  <2>2. ASSUME NEW u \in Task PROVE Good(u)'
    <3>1. CASE u = t
      <4>1. taskCancelled'[u] /\ (prevented'[u] <=> prevented[u] \/ (~taskCancelled[u] /\ when[u] > 0))
        BY <1>t, <2>1, <3>1
      <4> QED BY <1>q, <2>1, <4>1
    <3>2. CASE u # t
      <4>1. (taskCancelled'[u] <=> taskCancelled[u]) /\ (prevented'[u] <=> prevented[u])
        BY <1>t, <2>1, <3>2
      <4> QED BY <1>q, <2>1, <4>1
    <3> QED BY <3>1, <3>2
  <2> QED BY <1>g, <2>2
<1>4. ASSUME NEW t \in Task, NEW p \in NewPeriod, SetPeriod(t, p) PROVE CancelInv'
  BY <1>1, <1>4 DEF SetPeriod
\* The task that is launched is not cancelled: it was never late, nor prevented.
<1>5. CASE Launch
  <2>1. cur \in Task /\ \A u \in Task : u # cur => when'[u] = when[u]
    BY <1>5, LaunchIs
  <2>2. ~taskCancelled[cur]
    BY <1>5 DEF Launch, CancelledMeanwhile
  <2>3. pc' = "run" /\ UNCHANGED <<taskCancelled, prevented, late, cur>>
    BY <1>5 DEF Launch
  <2>4. ASSUME NEW u \in Task PROVE Good(u)'
    <3>1. CASE u = cur
      BY <1>q, <2>2, <2>3, <3>1
    <3>2. CASE u # cur
      BY <1>q, <2>1, <2>3, <3>2
    <3> QED BY <3>1, <3>2
  <2> QED BY <1>g, <2>4
<1>6. CASE EnterTask
  <2>1. cur \in Task /\ pc = "run"
    BY <1>6 DEF IInv, LaunchInv, EnterTask
  <2>2. /\ late' = [late EXCEPT ![cur] = IF taskCancelled[cur] THEN late[cur] + 1 ELSE late[cur]]
        /\ pc' = "body"
        /\ UNCHANGED <<when, taskCancelled, prevented, cur>>
    BY <1>6 DEF EnterTask
  <2>3. late[cur] = 0
    BY <1>q, <2>1
  <2>4. ASSUME NEW u \in Task PROVE Good(u)'
    <3>1. CASE u = cur
      <4>1. late'[u] = IF taskCancelled[u] THEN 1 ELSE 0
        BY <1>t, <2>1, <2>2, <2>3, <3>1
      <4> QED BY <1>q, <2>2, <4>1
    <3>2. CASE u # cur
      <4>1. late'[u] = late[u]
        BY <1>t, <2>2, <3>2
      <4> QED BY <1>q, <2>2, <4>1
    <3> QED BY <3>1, <3>2
  <2> QED BY <1>g, <2>4
<1>7. CASE CancelTimer \/ Finalize
  BY <1>1, <1>7, NotifyIs DEF CancelTimer, Finalize
<1>8. CASE Purge
  BY <1>1, <1>8 DEF Purge
<1>9. ASSUME NEW t \in Task, NEW on \in BOOLEAN, SetEnabled(t, on) PROVE CancelInv'
  BY <1>1, <1>9 DEF SetEnabled
<1>10. CASE UNCHANGED vars \/ Tick
  BY <1>1, <1>10 DEF vars, Tick
<1>11. CASE Return \/ WaitForTask \/ WaitForTime \/ Wake \/ WakeSpuriously \/ Pick
  BY <1>1, <1>11 DEF Return, WaitForTask, WaitForTime, Wake, WakeSpuriously, Pick
<1>12. CASE DropCancelled \/ LaunchCancelled \/ SkipTask \/ TaskReturns \/ TaskThrows
  BY <1>1, <1>12 DEF DropCancelled, LaunchCancelled, SkipTask, TaskReturns, TaskThrows
<1> HIDE DEF Good
<1> QED
  BY <1>2, <1>3, <1>4, <1>5, <1>6, <1>7, <1>8, <1>9, <1>10, <1>11, <1>12,
     TimerXAssumption
  DEF Next, Run

-----------------------------------------------------------------------------
(* The theorems                                                             *)

\* The invariant holds in every reachable state.
LEMMA Invariant == Spec => []IInv
<1>1. IInv /\ [Next]_vars => IInv'
  BY TypeStep, QueueStep, OrderStep, LaunchStep, WaitStep, CancelStep DEF IInv
<1> QED BY <1>1, InitInv, PTL DEF Spec

\* Every variable keeps its type: whatever periods are set, no time becomes negative
\* (within the bound that PeriodRead names), and the thread never works on something
\* that is not a task.
THEOREM TypeCorrect == Spec => []TypeOK
BY Invariant, PTL DEF IInv

\* The thread never sleeps through its work, unless a purge has disordered the heap.
THEOREM NoneSleptThrough == Spec => []NoLostWakeup
<1>1. IInv => NoLostWakeup
  BY QueuedIs DEF IInv, WaitInv, NoLostWakeup
<1> QED BY <1>1, Invariant, PTL

\* A task is queued once, as long as it has a time, and not lost before.
THEOREM TasksQueuedOnce == Spec => []QueuedOnce
<1>1. IInv => QueuedOnce
  <2> SUFFICES ASSUME IInv PROVE QueuedOnce
    OBVIOUS
  <2>1. \A i, j \in 1 .. Len(queue) : queue[i] = queue[j] => i = j
    BY Indices DEF IInv, TypeOK, QueueInv
  <2> QED BY <2>1, QueuedIs DEF IInv, QueueInv, QueuedOnce
<1> QED BY <1>1, Invariant, PTL

\* At most one run comes after cancel() of a task, and cancel() returns true just when
\* a planned run is left, which is then never launched, whatever setPeriod() does.
THEOREM CancelPreventsRuns == Spec => []CancelTakesEffect
<1>1. IInv => CancelTakesEffect
  BY DEF IInv, CancelInv, CancelTakesEffect
<1> QED BY <1>1, Invariant, PTL

\* Without a purge the head of the queue is always the earliest task.
THEOREM HeadComesFirst ==
  Spec /\ [][~Purge]_vars => [](queue # << >> => \A t \in ToSet(queue) : when[Head(queue)] <= when[t])
<1>1. Init => ~disordered
  BY DEF Init
<1>2. ~disordered /\ [Next]_vars /\ [~Purge]_vars => ~disordered'
  BY DEF Next, Run, vars, taskVars, threadVars, historyVars, Tick, Schedule, CancelTimer, Finalize,
         CancelTask, SetPeriod, SetEnabled, Return, WaitForTask, DropCancelled, WaitForTime, Pick,
         Wake, WakeSpuriously, LaunchCancelled, Launch, EnterTask, SkipTask, TaskReturns, TaskThrows
<1>3. IInv /\ ~disordered =>
        (queue # << >> => \A t \in ToSet(queue) : when[Head(queue)] <= when[t])
  BY HeadIsEarliest DEF IInv, TypeOK, OrderInv
<1> QED BY <1>1, <1>2, <1>3, Invariant, PTL DEF Spec

-----------------------------------------------------------------------------
(* TimerX implements TimerSpec, as long as the heap is in order             *)

\* The task about to be launched is due, and the timer is not cancelled.
DueInv == pc = "launch" => ~cancelled /\ when[cur] <= now

LEMMA DueStep == IInv /\ DueInv /\ [Next]_vars => DueInv'
<1> SUFFICES ASSUME IInv, DueInv, [Next]_vars PROVE DueInv'
  OBVIOUS
<1> USE DEF taskVars, threadVars, historyVars
<1>q. pc = "launch" => ~cancelled /\ when[cur] <= now
  BY DEF DueInv
<1>1. ASSUME pc' # "launch" PROVE DueInv'
  BY <1>1 DEF DueInv
<1>2. ASSUME UNCHANGED <<pc, cur, cancelled, when, now>> PROVE DueInv'
  BY <1>2, <1>q DEF DueInv
<1>3. CASE Tick
  <2>1. pc = "launch" => cur \in Task
    BY DEF IInv, LaunchInv
  <2>2. now \in Nat /\ (cur \in Task => when[cur] \in Nat)
    BY DEF IInv, TypeOK
  <2>3. now' = now + 1 /\ UNCHANGED <<pc, cur, cancelled, when>>
    BY <1>3 DEF Tick
  <2> QED BY <1>q, <2>1, <2>2, <2>3 DEF DueInv
<1>4. CASE Pick
  BY <1>4 DEF Pick, DueInv
<1>5. ASSUME NEW t \in Task, NEW d \in Delay, NEW p \in Period \union {NoPeriod},
             NEW fixed \in BOOLEAN, Schedule(t, d, p, fixed)
      PROVE  DueInv'
  BY <1>1, <1>5, NotifyIs DEF Schedule, MonitorFree
<1>6. CASE CancelTimer \/ Finalize
  BY <1>1, <1>6, NotifyIs DEF CancelTimer, Finalize, MonitorFree
<1>7. CASE Purge \/ UNCHANGED vars
  BY <1>2, <1>7 DEF Purge, vars
<1>8. ASSUME NEW t \in Task,
             \/ CancelTask(t)
             \/ \E p \in NewPeriod : SetPeriod(t, p)
             \/ \E on \in BOOLEAN : SetEnabled(t, on)
      PROVE  DueInv'
  BY <1>2, <1>8 DEF CancelTask, SetPeriod, SetEnabled
<1>9. CASE Return \/ WaitForTask \/ WaitForTime \/ Wake \/ WakeSpuriously \/ DropCancelled
  BY <1>1, <1>9 DEF Return, WaitForTask, WaitForTime, Wake, WakeSpuriously, DropCancelled
<1>10. CASE LaunchCancelled \/ Launch \/ EnterTask \/ SkipTask \/ TaskReturns \/ TaskThrows
  BY <1>1, <1>10 DEF LaunchCancelled, Launch, EnterTask, SkipTask, TaskReturns, TaskThrows
<1> QED
  BY <1>3, <1>4, <1>5, <1>6, <1>7, <1>8, <1>9, <1>10,
     TimerXAssumption
  DEF Next, Run

\* The mapped variables.
pendingBar == {t \in Task : Queued(t) /\ ~taskCancelled[t] /\ ~cancelled}
ratedBar == {t \in Task : fixedRate[t]}
overBar == {t \in Task : cancelled \/ IsScheduled(t) \/ taskCancelled[t]}

LEMMA PendingIs ==
  ASSUME TypeOK
  PROVE  pendingBar = {t \in Task : t \in ToSet(queue) /\ ~taskCancelled[t] /\ ~cancelled}
BY QueuedIs DEF pendingBar

LEMMA InitImplements == Init => Ideal!Init
<1> SUFFICES ASSUME Init PROVE Ideal!Init
  OBVIOUS
<1>1. pendingBar = {}
  <2>1. TypeOK /\ ToSet(queue) = {}
    <3>1. queue = << >>
      BY DEF Init
    <3>2. TypeOK
      BY InitInv DEF IInv
    <3>3. \A t : ~Queued(t)
      BY <3>1 DEF Queued
    <3> QED BY <3>2, <3>3, QueuedIs
  <2> QED BY <2>1, PendingIs
<1>2. ratedBar = {}
  BY DEF Init, ratedBar
<1>3. overBar = {}
  BY DEF Init, overBar, IsScheduled
<1> QED BY <1>1, <1>2, <1>3 DEF Init, Ideal!Init, pendingBar, ratedBar, overBar

LEMMA PendingIsNext ==
  ASSUME queue' \in Seq(Task)
  PROVE  pendingBar' = {t \in Task : t \in ToSet(queue') /\ ~taskCancelled'[t] /\ ~cancelled'}
<1>1. ToSet(queue') = {queue'[i] : i \in 1 .. Len(queue')}
  BY Indices
<1> QED BY <1>1 DEF pendingBar, Queued

LEMMA StepImplements ==
  IInv /\ IInv' /\ DueInv /\ ~disordered /\ [Next]_vars => [Ideal!Next]_(Ideal!vars)
<1> SUFFICES ASSUME IInv, IInv', DueInv, ~disordered, [Next]_vars
             PROVE  [Ideal!Next]_(Ideal!vars)
  OBVIOUS
<1> USE DEF taskVars, threadVars, historyVars
<1>p. /\ pendingBar = {t \in Task : t \in ToSet(queue) /\ ~taskCancelled[t] /\ ~cancelled}
      /\ pendingBar' = {t \in Task : t \in ToSet(queue') /\ ~taskCancelled'[t] /\ ~cancelled'}
  BY PendingIs, PendingIsNext DEF IInv, TypeOK
<1>t. /\ taskCancelled \in [Task -> BOOLEAN] /\ when \in [Task -> Nat]
      /\ launched \in [Task -> BOOLEAN] /\ fixedRate \in [Task -> BOOLEAN]
      /\ period \in [Task -> Int]
      /\ now \in Nat
      /\ \A t \in ToSet(queue) : t \in Task
  <2>1. queue \in Seq(Task)
    BY DEF IInv, TypeOK
  <2>2. \A t \in ToSet(queue) : t \in Task
    BY <2>1, Indices
  <2> QED BY <2>2 DEF IInv, TypeOK
\* Steps of which the documentation does not speak.
<1>1. ASSUME UNCHANGED <<now, when, period, fixedRate, launched>>, pendingBar' = pendingBar,
             overBar' = overBar
      PROVE  [Ideal!Next]_(Ideal!vars)
  <2>1. ratedBar' = ratedBar
    BY <1>1 DEF ratedBar
  <2> QED BY <1>1, <2>1 DEF Ideal!vars, pendingBar, ratedBar, overBar
<1>2. ASSUME UNCHANGED <<now, when, period, fixedRate, launched, queue, taskCancelled, cancelled>>
      PROVE  [Ideal!Next]_(Ideal!vars)
  <2>1. pendingBar' = pendingBar
    BY <1>p, <1>2
  <2>2. overBar' = overBar
    BY <1>2 DEF overBar, IsScheduled
  <2> QED BY <1>1, <1>2, <2>1, <2>2
<1>3. CASE Tick
  <2>1. UNCHANGED <<when, period, fixedRate, launched, queue, taskCancelled, cancelled>>
        /\ now' = now + 1
    BY <1>3 DEF Tick
  <2>2. pendingBar' = pendingBar /\ ratedBar' = ratedBar /\ overBar' = overBar
    BY <1>p, <2>1 DEF ratedBar, overBar, IsScheduled
  <2>3. Ideal!Tick
    BY <2>1, <2>2 DEF Ideal!Tick, pendingBar, ratedBar, overBar
  <2> QED BY <2>3 DEF Ideal!Next
<1>4. ASSUME NEW t \in Task, NEW d \in Delay, NEW p \in Period \union {NoPeriod},
             NEW fixed \in BOOLEAN, Schedule(t, d, p, fixed)
      PROVE  [Ideal!Next]_(Ideal!vars)
  <2>1. /\ ~cancelled /\ ~(when[t] > 0) /\ ~launched[t] /\ ~taskCancelled[t]
        /\ when' = [when EXCEPT ![t] = now + d]
        /\ period' = [period EXCEPT ![t] = p]
        /\ fixedRate' = [fixedRate EXCEPT ![t] = fixed]
        /\ UNCHANGED <<now, launched, taskCancelled, cancelled>>
    BY <1>4 DEF Schedule, IsScheduled
  <2>2. now + d > 0 /\ ToSet(queue') = ToSet(queue) \union {t}
    BY <1>4, ScheduleIs
  <2>3. when'[t] > 0 /\ \A u \in Task : u # t => when'[u] = when[u]
    BY <1>t, <2>1, <2>2
  <2>4. t \notin overBar
    BY <2>1 DEF overBar, IsScheduled
  <2>5. pendingBar' = pendingBar \union {t}
    BY <1>p, <2>1, <2>2
  <2>6. overBar' = overBar \union {t}
    BY <2>1, <2>3 DEF overBar, IsScheduled
  <2>7. ratedBar' = IF fixed THEN ratedBar \union {t} ELSE ratedBar \ {t}
    <3>1. fixedRate'[t] = fixed /\ \A u \in Task : u # t => fixedRate'[u] = fixedRate[u]
      BY <1>t, <2>1
    <3> QED BY <3>1 DEF ratedBar
  <2>8. Ideal!Schedule(t, d, p, fixed)
    BY <2>1, <2>4, <2>5, <2>6, <2>7 DEF Ideal!Schedule, pendingBar, ratedBar, overBar
  <2> QED BY <1>4, <2>8 DEF Ideal!Next
<1>5. CASE CancelTimer \/ TaskThrows
  <2>1. cancelled' /\ UNCHANGED <<now, when, period, fixedRate, launched, taskCancelled>>
    BY <1>5 DEF CancelTimer, TaskThrows
  <2>2. pendingBar' = {} /\ ratedBar' = ratedBar /\ overBar' = Task
    BY <1>p, <2>1 DEF ratedBar, overBar
  <2>3. Ideal!CancelTimer
    BY <2>1, <2>2 DEF Ideal!CancelTimer, pendingBar, ratedBar, overBar
  <2> QED BY <2>3 DEF Ideal!Next
<1>6. CASE Purge
  <2>1. UNCHANGED <<now, when, period, fixedRate, launched, taskCancelled, cancelled>>
    BY <1>6 DEF Purge
  <2>2. ToSet(queue') = {t \in ToSet(queue) : ~ taskCancelled[t]}
    BY <1>6, PurgeIs
  <2>3. pendingBar' = pendingBar
    BY <1>p, <2>1, <2>2
  <2>4. overBar' = overBar
    BY <2>1 DEF overBar, IsScheduled
  <2> QED BY <1>1, <2>1, <2>3, <2>4
<1>7. ASSUME NEW t \in Task, CancelTask(t) PROVE [Ideal!Next]_(Ideal!vars)
  <2>1. taskCancelled' = [taskCancelled EXCEPT ![t] = TRUE]
        /\ UNCHANGED <<now, when, period, fixedRate, launched, queue, cancelled>>
    BY <1>7 DEF CancelTask
  <2>2. taskCancelled'[t] /\ \A u \in Task : u # t => taskCancelled'[u] = taskCancelled[u]
    BY <1>t, <2>1
  <2>3. pendingBar' = pendingBar \ {t}
    BY <1>p, <2>1, <2>2
  <2>4. overBar' = overBar \union {t}
    BY <2>1, <2>2 DEF overBar, IsScheduled
  <2>5. ratedBar' = ratedBar
    BY <2>1 DEF ratedBar
  <2>6. Ideal!CancelTask(t)
    BY <2>1, <2>3, <2>4, <2>5 DEF Ideal!CancelTask, pendingBar, ratedBar, overBar
  <2> QED BY <2>6 DEF Ideal!Next
<1>8. ASSUME NEW t \in Task, NEW p \in NewPeriod, SetPeriod(t, p) PROVE [Ideal!Next]_(Ideal!vars)
  <2>1. period' = [period EXCEPT ![t] = p]
        /\ UNCHANGED <<now, when, fixedRate, launched, queue, taskCancelled, cancelled>>
    BY <1>8 DEF SetPeriod
  <2>2. pendingBar' = pendingBar /\ ratedBar' = ratedBar /\ overBar' = overBar
    BY <1>p, <2>1 DEF ratedBar, overBar, IsScheduled
  <2>3. Ideal!SetPeriod(t, p)
    BY <2>1, <2>2 DEF Ideal!SetPeriod, pendingBar, ratedBar, overBar
  <2> QED BY <1>8, <2>3 DEF Ideal!Next
\* What is dropped had been cancelled.
<1>9. CASE DropCancelled \/ LaunchCancelled
  <2>1. queue # << >> /\ taskCancelled[Head(queue)] /\ queue' = Delete(queue, when, 1)
    BY <1>9, LaunchCancelledIs DEF DropCancelled
  <2>2. ToSet(queue') = ToSet(queue) \ {Head(queue)}
    BY <2>1, DeleteHeadIs
  <2>3. UNCHANGED <<now, when, period, fixedRate, launched, taskCancelled, cancelled>>
    BY <1>9 DEF DropCancelled, LaunchCancelled
  <2>4. pendingBar' = pendingBar
    BY <1>p, <2>1, <2>2, <2>3
  <2>5. overBar' = overBar
    BY <2>3 DEF overBar, IsScheduled
  <2> QED BY <1>1, <2>3, <2>4, <2>5
\* A launch executes the earliest pending task, which is due.
<1>10. CASE Launch
  <2>l. /\ cur \in Task /\ cur \in ToSet(queue) /\ cur = Head(queue) /\ queue # << >>
        /\ ToSet(queue') = IF period[cur] >= 0 THEN ToSet(queue) ELSE ToSet(queue) \ {cur}
        /\ \E p \in PeriodRead(cur) : /\ period' = [period EXCEPT ![cur] = p]
                                      /\ when' = [when EXCEPT ![cur] = NextTime(cur, p)]
    BY <1>10, LaunchIs
  <2>p. PICK p \in PeriodRead(cur) : /\ period' = [period EXCEPT ![cur] = p]
                                     /\ when' = [when EXCEPT ![cur] = NextTime(cur, p)]
    BY <2>l
  <2>1. /\ cur \in Task /\ cur \in ToSet(queue) /\ cur = Head(queue) /\ queue # << >>
        /\ period[cur] \in Int /\ p \in NewPeriod \union {period[cur]}
        /\ period[cur] < 0 => NextTime(cur, p) = 0 /\ p = period[cur]
    BY <1>10, NextTimeIs
  <2>t. PICK t \in Task : t = cur
    BY <2>1
  <2>2. /\ when' = [when EXCEPT ![cur] = NextTime(cur, p)]
        /\ ToSet(queue') = IF period[cur] >= 0 THEN ToSet(queue) ELSE ToSet(queue) \ {cur}
    BY <2>l, <2>p
  <2>3. /\ ~taskCancelled[cur] /\ launched' = [launched EXCEPT ![cur] = TRUE]
        /\ UNCHANGED <<now, fixedRate, taskCancelled, cancelled>>
    BY <1>10 DEF Launch, CancelledMeanwhile
  <2>4. ~cancelled /\ when[cur] <= now
    BY <1>10 DEF DueInv, Launch
  <2>5. cur \in pendingBar
    BY <1>p, <2>1, <2>3, <2>4
  <2>6. \A u \in pendingBar : when[cur] <= when[u]
    <3>1. IsHeap(queue, when) /\ queue \in Seq(Task)
      BY DEF IInv, OrderInv, TypeOK
    <3>2. \A u \in ToSet(queue) : when[Head(queue)] <= when[u]
      BY <1>t, <3>1, HeadIsEarliest
    <3> QED BY <1>p, <2>1, <3>2
  <2>7. overBar' = overBar
    <3>1. when[cur] > 0
      BY <2>1 DEF IInv, QueueInv
    <3>2. launched'[cur] /\ \A u \in Task : u # cur => launched'[u] = launched[u] /\ when'[u] = when[u]
      BY <1>t, <2>1, <2>2, <2>3
    <3> QED BY <2>3, <3>1, <3>2 DEF overBar, IsScheduled
  <2>8. ratedBar' = ratedBar /\ (cur \in ratedBar <=> fixedRate[cur])
    BY <2>1, <2>3 DEF ratedBar
  <2>9. CASE period[cur] < 0
    <3>1. pendingBar' = pendingBar \ {cur}
      BY <1>p, <2>1, <2>2, <2>3, <2>9
    <3>2. when' = [when EXCEPT ![cur] = 0]
      BY <2>1, <2>2, <2>9
    <3>3. period' = period
      BY <1>t, <2>p, <2>1, <2>9
    <3>4. Ideal!Execute(t)
      BY <2>t, <2>3, <2>4, <2>5, <2>6, <2>7, <2>8, <2>9, <3>1, <3>2, <3>3
      DEF Ideal!Execute, pendingBar, ratedBar, overBar
    <3> QED BY <3>4 DEF Ideal!Next
  <2>10. CASE period[cur] >= 0
    <3>1. pendingBar' = pendingBar
      BY <1>p, <2>1, <2>2, <2>3, <2>10
    <3>2. NextTime(cur, p) = (IF cur \in ratedBar THEN when[cur] ELSE now) + p
      <4>1. ~ (period[cur] < 0)
        BY <2>1, <2>10
      <4> QED BY <2>8, <4>1 DEF NextTime
    <3>3. when' = [when EXCEPT ![cur] = (IF cur \in ratedBar THEN when[cur] ELSE now) + p]
      BY <2>2, <3>2
    <3>4. Ideal!Execute(t)
      BY <2>t, <2>p, <2>1, <2>3, <2>4, <2>5, <2>6, <2>7, <2>8, <2>10, <3>1, <3>3
      DEF Ideal!Execute, pendingBar, ratedBar, overBar
    <3> QED BY <3>4 DEF Ideal!Next
  <2> QED BY <2>1, <2>9, <2>10
<1>11. ASSUME NEW t \in Task, NEW on \in BOOLEAN, SetEnabled(t, on)
       PROVE  [Ideal!Next]_(Ideal!vars)
  BY <1>2, <1>11 DEF SetEnabled
<1>12. CASE Finalize \/ UNCHANGED vars
  BY <1>2, <1>12 DEF Finalize, vars
<1>13. CASE Return \/ WaitForTask \/ WaitForTime \/ Pick \/ Wake \/ WakeSpuriously
  BY <1>2, <1>13 DEF Return, WaitForTask, WaitForTime, Pick, Wake, WakeSpuriously
<1>14. CASE EnterTask \/ SkipTask \/ TaskReturns
  BY <1>2, <1>14 DEF EnterTask, SkipTask, TaskReturns
<1> QED
  BY <1>3, <1>4, <1>5, <1>6, <1>7, <1>8, <1>9, <1>10, <1>11, <1>12, <1>13, <1>14,
     TimerXAssumption
  DEF Next, Run

\* As long as no purge disorders the heap, the timer does what its documentation
\* promises: the earliest task first, none before its time, none after cancel().
THEOREM TimerImplements == Spec /\ []~disordered => ImplementsTimerSpec
<1>1. Init => DueInv
  BY DEF Init, DueInv
<1> QED BY <1>1, DueStep, InitImplements, StepImplements, Invariant, PTL
        DEF Spec, ImplementsTimerSpec, Ideal!Spec
=============================================================================
