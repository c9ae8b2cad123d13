------------------------------ MODULE AsyncTaskX ------------------------------
(***************************************************************************)
(* Background tasks of a script: com.androlua.util.AsyncTaskX, as          *)
(* LuaAsyncTask uses it, with the FutureTask each task is wrapped in, the  *)
(* thread pool it runs on and the main thread's Handler its results are    *)
(* posted to.                                                              *)
(*                                                                         *)
(* A task may be cancelled by the main thread and by the script threads    *)
(* that hold it, at any moment.  Whether the worker or the canceller posts *)
(* the result is decided by mTaskInvoked, which the worker sets only when  *)
(* the FutureTask has already committed itself to the call.                *)
(***************************************************************************)
EXTENDS Naturals, FiniteSets, Sequences

CONSTANTS
  Task,        \* the LuaAsyncTask objects
  UI,          \* the main thread
  Other,       \* other threads that cancel tasks
  PoolSize,    \* MAXIMUM_POOL_SIZE
  QueueSize,   \* the capacity of sPoolWorkQueue
  MaxUpdates   \* bound on how often a task publishes its progress

ASSUME AsyncTaskAssumption ==
  /\ UI \notin Other
  /\ PoolSize \in Nat \ {0}
  /\ QueueSize \in Nat
  /\ MaxUpdates \in Nat

VARIABLES
  mStatus,       \* of each task
  mCancelled,    \* of each task
  mTaskInvoked,  \* of each task
  future,        \* the state of its FutureTask
  work,          \* where the pool's thread is with it
  waiting,       \* sPoolWorkQueue
  messages,      \* what is posted to the main thread's Handler, oldest first
  op,            \* the cancel() each thread is in the middle of
  rejected,      \* history: the pool refused the task
  raced,         \* history: cancel() came between the future's commitment and call()
  updates,       \* history: how often it published its progress
  returned,      \* history: doInBackground returned a result
  results,       \* history: how often finish() was called
  callbacks      \* history: how often the script's callback was called

poolVars == <<work, waiting>>
historyVars == <<rejected, raced, updates, returned, results, callbacks>>
vars == <<mStatus, mCancelled, mTaskInvoked, future, poolVars, messages, op, historyVars>>

Caller == Other \union {UI}
Idle == [do |-> "idle"]
Message == [what : {"result", "progress"}, task : Task]

PostAtFront(what, t) == messages' = << [what |-> what, task |-> t] >> \o messages
Post(what, t) == messages' = Append(messages, [what |-> what, task |-> t])

Init ==
  /\ mStatus = [t \in Task |-> "PENDING"]
  /\ mCancelled = [t \in Task |-> FALSE]
  /\ mTaskInvoked = [t \in Task |-> FALSE]
  /\ future = [t \in Task |-> "new"]
  /\ work = [t \in Task |-> "none"]
  /\ waiting = << >>
  /\ messages = << >>
  /\ op = [p \in Caller |-> Idle]
  /\ rejected = [t \in Task |-> FALSE]
  /\ raced = [t \in Task |-> FALSE]
  /\ updates = [t \in Task |-> 0]
  /\ returned = [t \in Task |-> FALSE]
  /\ results = [t \in Task |-> 0]
  /\ callbacks = [t \in Task |-> 0]

-----------------------------------------------------------------------------
(* The callers.                                                             *)

\* The tasks that occupy a thread of the pool.
Active == {t \in Task : work[t] \in {"taken", "calling", "body", "set"}}

\* executeOnExecutor, only for a pending task; the status is set before the pool
\* accepts the task, and stays so when it throws RejectedExecutionException.
Execute(t) ==
  /\ op[UI] = Idle
  /\ mStatus[t] = "PENDING"
  /\ mStatus' = [mStatus EXCEPT ![t] = "RUNNING"]
  /\ IF Cardinality(Active) + Len(waiting) < PoolSize + QueueSize
       THEN /\ waiting' = Append(waiting, t)
            /\ work' = [work EXCEPT ![t] = "queued"]
            /\ UNCHANGED rejected
       ELSE /\ rejected' = [rejected EXCEPT ![t] = TRUE]
            /\ UNCHANGED poolVars
  /\ UNCHANGED <<mCancelled, mTaskInvoked, future, messages, op, raced, updates, returned,
                 results, callbacks>>

\* cancel(true): mCancelled.set(true), then mFuture.cancel(true).
BeginCancel(p, t) ==
  /\ op[p] = Idle
  /\ mCancelled' = [mCancelled EXCEPT ![t] = TRUE]
  /\ op' = [op EXCEPT ![p] = [do |-> "cancel", task |-> t]]
  /\ UNCHANGED <<mStatus, mTaskInvoked, future, poolVars, messages, historyVars>>

\* LuaAsyncTask.gc(), which onDestroy calls.
Gc(t) == mStatus[t] = "RUNNING" /\ BeginCancel(UI, t)

\* FutureTask.cancel: only a future that is not settled can be cancelled; whoever
\* settles it goes on to done().
CancelFuture(p) ==
  /\ op[p].do = "cancel"
  /\ LET t == op[p].task
     IN IF future[t] = "new"
          THEN /\ future' = [future EXCEPT ![t] = "cancelled"]
               /\ op' = [op EXCEPT ![p].do = "done"]
               /\ raced' = [raced EXCEPT ![t] = work[t] = "calling"]
          ELSE /\ op' = [op EXCEPT ![p] = Idle]
               /\ UNCHANGED <<future, raced>>
  /\ UNCHANGED <<mStatus, mCancelled, mTaskInvoked, poolVars, messages, rejected, updates,
                 returned, results, callbacks>>

\* postResultIfNotInvoked(null), of a cancelled future.
PostNever(t) == FALSE
PostAlways(t) == TRUE
PostIfNotInvoked(t) == ~mTaskInvoked[t]

CancelDone(p) ==
  /\ op[p].do = "done"
  /\ IF PostIfNotInvoked(op[p].task) THEN Post("result", op[p].task) ELSE UNCHANGED messages
  /\ op' = [op EXCEPT ![p] = Idle]
  /\ UNCHANGED <<mStatus, mCancelled, mTaskInvoked, future, poolVars, historyVars>>

-----------------------------------------------------------------------------
(* A thread of the pool with a task.                                        *)

Take ==
  /\ waiting # << >>
  /\ Cardinality(Active) < PoolSize
  /\ work' = [work EXCEPT ![Head(waiting)] = "taken"]
  /\ waiting' = Tail(waiting)
  /\ UNCHANGED <<mStatus, mCancelled, mTaskInvoked, future, messages, op, historyVars>>

\* FutureTask.run: it calls the worker unless it has been cancelled before.
RunFuture(t) ==
  /\ work[t] = "taken"
  /\ work' = [work EXCEPT ![t] = IF future[t] = "new" THEN "calling" ELSE "over"]
  /\ UNCHANGED <<mStatus, mCancelled, mTaskInvoked, future, waiting, messages, op, historyVars>>

\* call(): mTaskInvoked.set(true).
Invoke(t) ==
  /\ work[t] = "calling"
  /\ mTaskInvoked' = [mTaskInvoked EXCEPT ![t] = TRUE]
  /\ work' = [work EXCEPT ![t] = "body"]
  /\ UNCHANGED <<mStatus, mCancelled, future, waiting, messages, op, historyVars>>

\* update(msg) in the task's script is publishProgress: nothing once cancelled.
Publish(t) ==
  /\ work[t] = "body"
  /\ updates[t] < MaxUpdates
  /\ ~mCancelled[t]
  /\ Post("progress", t)
  /\ updates' = [updates EXCEPT ![t] = @ + 1]
  /\ UNCHANGED <<mStatus, mCancelled, mTaskInvoked, future, poolVars, op, rejected, raced,
                 returned, results, callbacks>>

\* doInBackground returns, and the finally block posts the result.
BodyReturns(t) ==
  /\ work[t] = "body"
  /\ Post("result", t)
  /\ returned' = [returned EXCEPT ![t] = TRUE]
  /\ work' = [work EXCEPT ![t] = "set"]
  /\ UNCHANGED <<mStatus, mCancelled, mTaskInvoked, future, waiting, op, rejected, raced,
                 updates, results, callbacks>>

\* It throws: catch (Throwable tr) cancels the task, and finally posts null.
MarkCancelled(t) == [mCancelled EXCEPT ![t] = TRUE]

BodyThrows(t) ==
  /\ work[t] = "body"
  /\ mCancelled' = MarkCancelled(t)
  /\ Post("result", t)
  /\ work' = [work EXCEPT ![t] = "set"]
  /\ UNCHANGED <<mStatus, mTaskInvoked, future, waiting, op, historyVars>>

\* FutureTask.set or setException settles the future, if cancel() has not, and
\* calls done(), which posts nothing: mTaskInvoked is true.
Settle(t) ==
  /\ work[t] = "set"
  /\ future' = [future EXCEPT ![t] = IF @ = "new" THEN "settled" ELSE @]
  /\ work' = [work EXCEPT ![t] = "over"]
  /\ UNCHANGED <<mStatus, mCancelled, mTaskInvoked, waiting, messages, op, historyVars>>

-----------------------------------------------------------------------------
(* The main thread's Handler.                                               *)

\* isCancelled(), which finish() and onPostExecute() ask.
CallsBackAlways(t) == TRUE
CallsBack(t) == ~mCancelled[t]

\* MESSAGE_POST_RESULT: finish() calls onCancelled, which does nothing, or
\* onPostExecute, which calls the script's callback.
Finish ==
  /\ op[UI] = Idle
  /\ messages # << >>
  /\ Head(messages).what = "result"
  /\ LET t == Head(messages).task
     IN /\ mStatus' = [mStatus EXCEPT ![t] = "FINISHED"]
        /\ results' = [results EXCEPT ![t] = @ + 1]
        /\ callbacks' = [callbacks EXCEPT ![t] = IF CallsBack(t) THEN @ + 1 ELSE @]
  /\ messages' = Tail(messages)
  /\ UNCHANGED <<mCancelled, mTaskInvoked, future, poolVars, op, rejected, raced, updates,
                 returned>>

\* MESSAGE_POST_PROGRESS: onProgressUpdate.
Progress ==
  /\ op[UI] = Idle
  /\ messages # << >>
  /\ Head(messages).what = "progress"
  /\ messages' = Tail(messages)
  /\ UNCHANGED <<mStatus, mCancelled, mTaskInvoked, future, poolVars, op, historyVars>>

-----------------------------------------------------------------------------
Work(t) ==
  RunFuture(t) \/ Invoke(t) \/ Publish(t) \/ BodyReturns(t) \/ BodyThrows(t) \/ Settle(t)

Next ==
  \/ \E t \in Task : Execute(t) \/ Gc(t) \/ Work(t)
  \/ \E p \in Caller, t \in Task : BeginCancel(p, t)
  \/ \E p \in Caller : CancelFuture(p) \/ CancelDone(p)
  \/ Take \/ Finish \/ Progress

Spec == Init /\ [][Next]_vars

\* The pool's threads and the main thread go on; the scripts of tasks return.  The
\* main thread comes back to these messages, whatever else it does between them:
\* its Looper serves them in the order they were sent.
Fairness ==
  /\ \A t \in Task : WF_vars(Work(t))
  /\ \A p \in Caller : WF_vars(CancelFuture(p) \/ CancelDone(p))
  /\ WF_vars(Take)
  /\ SF_vars(Finish \/ Progress)

FairSpec == Spec /\ Fairness

-----------------------------------------------------------------------------
(* Properties                                                               *)

\* Every variable has its type, and the counters their range: a task is finished twice
\* and called back once at most.
TypeOK ==
  /\ mStatus \in [Task -> {"PENDING", "RUNNING", "FINISHED"}]
  /\ mCancelled \in [Task -> BOOLEAN]
  /\ mTaskInvoked \in [Task -> BOOLEAN]
  /\ future \in [Task -> {"new", "cancelled", "settled"}]
  /\ work \in [Task -> {"none", "queued", "taken", "calling", "body", "set", "over"}]
  /\ waiting \in Seq(Task)
  /\ messages \in Seq(Message)
  /\ op \in [Caller -> {Idle} \union [do : {"cancel", "done"}, task : Task]]
  /\ rejected \in [Task -> BOOLEAN]
  /\ raced \in [Task -> BOOLEAN]
  /\ updates \in [Task -> 0..MaxUpdates]
  /\ returned \in [Task -> BOOLEAN]
  /\ results \in [Task -> 0..2]
  /\ callbacks \in [Task -> 0..1]

\* How many results of t are still to be handled.
ResultsToCome(t) ==
  Cardinality({i \in 1..Len(messages) : messages[i].what = "result" /\ messages[i].task = t})

\* The script's callback is called once at most, and only with a result that
\* doInBackground has returned, however often and by whom the task is cancelled.
CallbackOnce ==
  \A t \in Task : callbacks[t] <= 1 /\ (callbacks[t] = 1 => returned[t])

\* A task gets a second result only by a cancel() that came when its FutureTask had
\* committed itself to the call and mTaskInvoked was not set yet, and never a third.
SecondResultNeedsCancel ==
  \A t \in Task :
    /\ results[t] + ResultsToCome(t) <= 2
    /\ results[t] + ResultsToCome(t) = 2 => raced[t]

\* The callback comes after every update of the task's progress.
UpdatesBeforeCallback ==
  \A t \in Task : callbacks[t] = 1 =>
    \A i \in 1..Len(messages) : messages[i] # [what |-> "progress", task |-> t]

\* A task that was executed or cancelled is finished in the end, unless the pool
\* refused it: no combination of cancel and run loses the result.
TaskFinishes ==
  \A t \in Task :
    mStatus[t] = "RUNNING" \/ mCancelled[t] ~> (mStatus[t] = "FINISHED" \/ rejected[t])

\* What handleMessage relies on: "There is only one result" (AsyncTaskX.java:716).
OnlyOneResult == \A t \in Task : results[t] <= 1
=============================================================================
