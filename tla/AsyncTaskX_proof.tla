---------------------------- MODULE AsyncTaskX_proof ----------------------------
(***************************************************************************)
(* Theorems about AsyncTaskX, for any number of tasks and of threads that  *)
(* cancel them, any pool and any number of progress updates.               *)
(***************************************************************************)
EXTENDS AsyncTaskX, FiniteSetTheorems, SequenceTheorems, TLAPS

-----------------------------------------------------------------------------
(* The inductive invariant, part by part.                                   *)

\* The types alone, without the ranges that need the invariant.
Types ==
  /\ mStatus \in [Task -> {"PENDING", "RUNNING", "FINISHED"}]
  /\ mCancelled \in [Task -> BOOLEAN]
  /\ mTaskInvoked \in [Task -> BOOLEAN]
  /\ future \in [Task -> {"new", "cancelled", "settled"}]
  /\ work \in [Task -> {"none", "queued", "taken", "calling", "body", "set", "over"}]
  /\ waiting \in Seq(Task)
  /\ messages \in Seq(Message)
  /\ op \in [Caller -> {Idle} \union [do : {"cancel", "done"}, task : Task]]
  /\ rejected \in [Task -> BOOLEAN]
  /\ raced \in [Task -> BOOLEAN]
  /\ updates \in [Task -> 0..MaxUpdates]
  /\ returned \in [Task -> BOOLEAN]
  /\ results \in [Task -> Nat]
  /\ callbacks \in [Task -> Nat]

\* The caller that cancelled the future of t has not run its done() yet.
Cancelling(t) == \E p \in Caller : op[p] = [do |-> "done", task |-> t]

\* A task is queued once, and only a pending one is handed to the pool.
PoolInv ==
  /\ \A t \in Task : mStatus[t] = "PENDING" => work[t] = "none"
  /\ \A i \in 1..Len(waiting) : work[waiting[i]] = "queued"
  /\ \A i, j \in 1..Len(waiting) : waiting[i] = waiting[j] => i = j

\* mTaskInvoked tells whether the worker has come to its body; only a task whose
\* future was cancelled is over without that.
WorkInv ==
  \A t \in Task :
    /\ work[t] \in {"body", "set"} => mTaskInvoked[t]
    /\ work[t] \in {"none", "queued", "taken", "calling"} => ~mTaskInvoked[t]
    /\ future[t] = "settled" => work[t] = "over"
    /\ future[t] = "cancelled" /\ work[t] = "calling" => raced[t]
    /\ raced[t] => future[t] = "cancelled"

\* mCancelled is set before the future is cancelled, and only one cancel() settles it.
CancelInv ==
  /\ \A t \in Task : future[t] = "cancelled" => mCancelled[t]
  /\ \A p \in Caller : op[p].do = "cancel" => mCancelled[op[p].task]
  /\ \A p \in Caller : op[p].do = "done" => future[op[p].task] = "cancelled"
  /\ \A p, q \in Caller :
       op[p].do = "done" /\ op[q].do = "done" /\ op[p].task = op[q].task => p = q

\* The results posted so far: one by the worker at the end of call(), one by the
\* canceller in done(), and both of them only when the cancel() was raced.
Posted(t) == results[t] + ResultsToCome(t)
ByWorker(t) == work[t] = "set" \/ (work[t] = "over" /\ mTaskInvoked[t])
ByCanceller(t) == future[t] = "cancelled" /\ ~Cancelling(t) /\ (mTaskInvoked[t] => raced[t])

ResultInv ==
  \A t \in Task :
    /\ Posted(t) <= 2
    /\ Posted(t) = 2 => ByWorker(t) /\ ByCanceller(t)
    /\ Posted(t) = 1 => ByWorker(t) \/ ByCanceller(t)
    /\ ByWorker(t) => returned[t] \/ mCancelled[t]

\* A callback needs a result that the worker posted, and a body that returned.
CallbackInv ==
  \A t \in Task :
    /\ callbacks[t] <= results[t]
    /\ callbacks[t] <= 1
    /\ callbacks[t] = 1 => returned[t] /\ ByWorker(t)

\* Unless the task is cancelled, its progress is posted before its result.
ProgressInv ==
  \A t \in Task : ~mCancelled[t] =>
    \A i, j \in 1..Len(messages) :
      i < j /\ messages[i] = [what |-> "result", task |-> t]
        => messages[j] # [what |-> "progress", task |-> t]

IInv ==
  /\ PoolInv /\ WorkInv /\ CancelInv
  /\ ResultInv /\ CallbackInv /\ ProgressInv /\ UpdatesBeforeCallback


-----------------------------------------------------------------------------
(* The results to come, counted by their places in the queue.               *)

ResultsIn(s, t) == {i \in 1..Len(s) : s[i].what = "result" /\ s[i].task = t}

\* A queue has finitely many results of a task.
LEMMA CountType ==
  ASSUME NEW s \in Seq(Message), NEW t \in Task
  PROVE  IsFiniteSet(ResultsIn(s, t)) /\ Cardinality(ResultsIn(s, t)) \in Nat
<1>1. IsFiniteSet(1..Len(s))
  BY FS_Interval
<1>2. ResultsIn(s, t) \in SUBSET (1..Len(s))
  BY DEF ResultsIn
<1> QED BY <1>1, <1>2, FS_Subset, FS_CardinalityType

\* A message posted at the end counts for its own task, if it is a result.
LEMMA AppendCount ==
  ASSUME NEW s \in Seq(Message), NEW m \in Message, NEW t \in Task
  PROVE  Cardinality(ResultsIn(Append(s, m), t))
           = Cardinality(ResultsIn(s, t))
               + (IF m = [what |-> "result", task |-> t] THEN 1 ELSE 0)
<1> DEFINE n == Len(s) + 1
<1>1. /\ Len(Append(s, m)) = n
      /\ Append(s, m)[n] = m
      /\ \A i \in 1..Len(s) : Append(s, m)[i] = s[i]
  BY AppendProperties
<1>2. Len(s) \in Nat /\ 1..n = (1..Len(s)) \union {n} /\ n \notin 1..Len(s)
  OBVIOUS
<1>3. CASE m = [what |-> "result", task |-> t]
  <2>1. ResultsIn(Append(s, m), t) = ResultsIn(s, t) \union {n}
    BY <1>1, <1>2, <1>3 DEF ResultsIn
  <2>2. n \notin ResultsIn(s, t)
    BY <1>2 DEF ResultsIn
  <2> QED BY <1>3, <2>1, <2>2, CountType, FS_AddElement
<1>4. CASE m # [what |-> "result", task |-> t]
  <2>1. ~(m.what = "result" /\ m.task = t)
    BY <1>4 DEF Message
  <2>2. ResultsIn(Append(s, m), t) = ResultsIn(s, t)
    BY <1>1, <1>2, <2>1 DEF ResultsIn
  <2> QED BY <1>4, <2>2, CountType
<1> QED BY <1>3, <1>4

\* A message taken from the front no longer counts.
LEMMA TailCount ==
  ASSUME NEW s \in Seq(Message), s # << >>, NEW t \in Task
  PROVE  Cardinality(ResultsIn(s, t))
           = Cardinality(ResultsIn(Tail(s), t))
               + (IF Head(s) = [what |-> "result", task |-> t] THEN 1 ELSE 0)
<1> DEFINE R == ResultsIn(Tail(s), t)
           S == ResultsIn(s, t) \ {1}
           f == [i \in R |-> i + 1]
<1>1. /\ Len(s) \in Nat \ {0}
      /\ Tail(s) \in Seq(Message)
      /\ Len(Tail(s)) = Len(s) - 1
      /\ \A i \in 1..Len(Tail(s)) : Tail(s)[i] = s[i + 1]
  BY EmptySeq, HeadTailProperties
<1>2. f \in Bijection(R, S)
  <2>1. \A i \in R : i \in 1..Len(Tail(s)) /\ i + 1 \in S
    BY <1>1 DEF ResultsIn
  <2>2. \A i, j \in R : f[i] = f[j] => i = j
    BY <2>1
  <2>3. \A j \in S : j - 1 \in R /\ f[j - 1] = j
    <3>1. SUFFICES ASSUME NEW j \in S PROVE j - 1 \in R
      BY DEF ResultsIn
    <3>2. j - 1 \in 1..Len(Tail(s)) /\ Tail(s)[j - 1] = s[j]
      BY <1>1 DEF ResultsIn
    <3> QED BY <3>2 DEF ResultsIn
  <2>4. f \in [R -> S]
    BY <2>1
  <2> HIDE DEF f, R, S
  <2>5. f \in Injection(R, S)
    BY <2>2, <2>4 DEF Injection, IsInjective
  <2>6. f \in Surjection(R, S)
    BY <2>3, <2>4 DEF Surjection
  <2> QED BY <2>5, <2>6 DEF Bijection
<1>3. Cardinality(S) = Cardinality(R)
  <2>1. ExistsBijection(R, S)
    BY <1>2 DEF ExistsBijection
  <2> QED BY <1>1, <2>1, CountType, FS_Bijection
<1>4. Cardinality(S) = Cardinality(ResultsIn(s, t))
                         - (IF 1 \in ResultsIn(s, t) THEN 1 ELSE 0)
  <2> DEFINE Q == ResultsIn(s, t)
  <2>1. IsFiniteSet(Q) /\ Cardinality(Q) \in Nat
    BY CountType
  <2> HIDE DEF Q
  <2>2. Cardinality(Q \ {1}) = IF 1 \in Q THEN Cardinality(Q) - 1 ELSE Cardinality(Q)
    BY <2>1, FS_RemoveElement
  <2>3. Cardinality(Q \ {1}) = Cardinality(Q) - (IF 1 \in Q THEN 1 ELSE 0)
    BY <2>1, <2>2
  <2> QED BY <2>3 DEF Q
<1>5. 1 \in ResultsIn(s, t) <=> Head(s) = [what |-> "result", task |-> t]
  <2>1. Head(s) = s[1] /\ Head(s) \in Message
    BY HeadTailProperties, ElementOfSeq
  <2> QED BY <1>1, <2>1 DEF ResultsIn, Message
<1> QED BY <1>1, <1>3, <1>4, <1>5, CountType

\* The results to come are numbers, and the same when the queue is.
LEMMA ResultsToComeType ==
  ASSUME Types, NEW t \in Task
  PROVE  /\ ResultsToCome(t) \in Nat
         /\ UNCHANGED messages => ResultsToCome(t)' = ResultsToCome(t)
BY ZenonT(60), CountType DEF Types, ResultsToCome, ResultsIn

\* What a post does to the Handler's queue.
LEMMA PostStep ==
  ASSUME Types, NEW what \in {"result", "progress"}, NEW t \in Task, Post(what, t)
  PROVE  /\ messages' \in Seq(Message)
         /\ Len(messages') = Len(messages) + 1
         /\ \A i \in 1..Len(messages) : messages'[i] = messages[i]
         /\ messages'[Len(messages) + 1] = [what |-> what, task |-> t]
         /\ \A u \in Task : ResultsToCome(u)' =
              ResultsToCome(u) + (IF what = "result" /\ u = t THEN 1 ELSE 0)
<1> DEFINE m == [what |-> what, task |-> t]
<1>1. messages \in Seq(Message) /\ m \in Message /\ messages' = Append(messages, m)
  BY DEF Types, Message, Post
<1>2. \A u \in Task : m = [what |-> "result", task |-> u] <=> what = "result" /\ u = t
  OBVIOUS
<1> HIDE DEF m
<1>3. /\ messages' \in Seq(Message)
      /\ Len(messages') = Len(messages) + 1
      /\ \A i \in 1..Len(messages) : messages'[i] = messages[i]
      /\ messages'[Len(messages) + 1] = m
  BY <1>1, AppendProperties
<1>4. ASSUME NEW u \in Task
      PROVE  ResultsToCome(u)' =
               ResultsToCome(u) + (IF what = "result" /\ u = t THEN 1 ELSE 0)
  <2>1. Cardinality(ResultsIn(messages', u)) = Cardinality(ResultsIn(messages, u))
               + (IF m = [what |-> "result", task |-> u] THEN 1 ELSE 0)
    BY <1>1, AppendCount
  <2> QED BY <1>2, <2>1 DEF ResultsToCome, ResultsIn
<1> QED BY <1>3, <1>4 DEF m

\* What handling the first message does to it.
LEMMA HandleStep ==
  ASSUME Types, messages # << >>, messages' = Tail(messages)
  PROVE  /\ messages' \in Seq(Message)
         /\ Len(messages) \in Nat \ {0}
         /\ Len(messages') = Len(messages) - 1
         /\ \A i \in 1..Len(messages') : messages'[i] = messages[i + 1]
         /\ Head(messages) = messages[1] /\ Head(messages) \in Message
         /\ \A u \in Task : ResultsToCome(u) = ResultsToCome(u)'
              + (IF Head(messages) = [what |-> "result", task |-> u] THEN 1 ELSE 0)
<1>1. messages \in Seq(Message)
  BY DEF Types
<1>2. ASSUME NEW u \in Task
      PROVE  ResultsToCome(u) = ResultsToCome(u)'
               + (IF Head(messages) = [what |-> "result", task |-> u] THEN 1 ELSE 0)
  <2>1. Cardinality(ResultsIn(messages, u)) = Cardinality(ResultsIn(messages', u))
               + (IF Head(messages) = [what |-> "result", task |-> u] THEN 1 ELSE 0)
    BY <1>1, TailCount
  <2> QED BY <2>1 DEF ResultsToCome, ResultsIn
<1> QED BY <1>1, <1>2, EmptySeq, HeadTailProperties, ElementOfSeq

-----------------------------------------------------------------------------
(* Types.                                                                   *)

\* The task of a cancel() in progress.
LEMMA OpFields ==
  ASSUME Types, NEW p \in Caller, op[p].do \in {"cancel", "done"}
  PROVE  op[p].task \in Task /\ op[p] = [do |-> op[p].do, task |-> op[p].task]
BY DEF Types, Idle

\* FutureTask.cancel goes on to done() when it settled the future, and is over else.
LEMMA CancelFutureOp ==
  ASSUME Types, NEW p \in Caller, CancelFuture(p)
  PROVE  op' = [op EXCEPT ![p] = IF future[op[p].task] = "new"
                                   THEN [do |-> "done", task |-> op[p].task] ELSE Idle]
<1>1. op[p].do = "cancel" /\ op[p] = [do |-> "cancel", task |-> op[p].task]
  BY OpFields DEF CancelFuture
<1>2. CASE future[op[p].task] = "new"
  <2>1. op' = [op EXCEPT ![p].do = "done"]
    BY <1>2 DEF CancelFuture
  <2>2. [op[p] EXCEPT !.do = "done"] = [do |-> "done", task |-> op[p].task]
    BY <1>1
  <2>3. op' = [op EXCEPT ![p] = [op[p] EXCEPT !.do = "done"]]
    BY <2>1
  <2> QED BY <1>2, <2>2, <2>3
<1>3. CASE future[op[p].task] # "new"
  BY <1>3 DEF CancelFuture
<1> QED BY <1>2, <1>3

\* Every step keeps the types.
LEMMA TypeStep == Types /\ [Next]_vars => Types'
<1> SUFFICES ASSUME Types, [Next]_vars PROVE Types'
  OBVIOUS
<1>1. ASSUME NEW t \in Task, Execute(t) PROVE Types'
  <2>1. waiting' \in Seq(Task)
    <3>1. waiting' = waiting \/ waiting' = Append(waiting, t)
      BY <1>1 DEF Execute, poolVars
    <3>2. waiting \in Seq(Task) /\ t \in Task
      BY <1>1 DEF Types
    <3> QED BY <3>1, <3>2, AppendProperties
  <2>2. work' \in [Task -> {"none", "queued", "taken", "calling", "body", "set", "over"}]
    BY <1>1 DEF Types, Execute, poolVars
  <2>3. rejected' \in [Task -> BOOLEAN]
    BY <1>1 DEF Types, Execute, poolVars
  <2> QED BY <1>1, <2>1, <2>2, <2>3 DEF Types, Execute
<1>2. ASSUME NEW p \in Caller, NEW t \in Task, BeginCancel(p, t) PROVE Types'
  BY <1>2 DEF Types, BeginCancel, poolVars, historyVars
<1>3. ASSUME NEW p \in Caller, CancelFuture(p) PROVE Types'
  <2>1. op[p].task \in Task
    BY <1>3, OpFields DEF CancelFuture
  <2>2. /\ future' \in [Task -> {"new", "cancelled", "settled"}]
        /\ raced' \in [Task -> BOOLEAN]
    BY <1>3, <2>1 DEF Types, CancelFuture
  <2>3. op' \in [Caller -> {Idle} \union [do : {"cancel", "done"}, task : Task]]
    <3>1. op' = [op EXCEPT ![p] = Idle] \/ op' = [op EXCEPT ![p] = [do |-> "done", task |-> op[p].task]]
      BY <1>3, CancelFutureOp
    <3>2. [do |-> "done", task |-> op[p].task] \in [do : {"cancel", "done"}, task : Task]
      BY <2>1
    <3> QED BY <3>1, <3>2 DEF Types
  <2> QED BY <1>3, <2>2, <2>3 DEF Types, CancelFuture, poolVars
<1>4. ASSUME NEW p \in Caller, CancelDone(p) PROVE Types'
  <2>1. messages' \in Seq(Message)
    BY <1>4, OpFields, PostStep DEF Types, CancelDone
  <2> QED BY <1>4, <2>1 DEF Types, CancelDone, poolVars, historyVars
<1>5. CASE Take
  <2>1. Head(waiting) \in Task /\ waiting' \in Seq(Task)
    BY <1>5, HeadTailProperties DEF Types, Take
  <2> QED BY <1>5, <2>1 DEF Types, Take, historyVars
<1>6. ASSUME NEW t \in Task, RunFuture(t) PROVE Types'
  BY <1>6 DEF Types, RunFuture, historyVars
<1>7. ASSUME NEW t \in Task, Invoke(t) PROVE Types'
  BY <1>7 DEF Types, Invoke, historyVars
<1>8. ASSUME NEW t \in Task, Publish(t) PROVE Types'
  <2>1. messages' \in Seq(Message)
    BY <1>8, PostStep DEF Publish
  <2>2. updates' \in [Task -> 0..MaxUpdates]
    <3>1. updates[t] \in 0..MaxUpdates /\ updates[t] < MaxUpdates
      BY <1>8 DEF Types, Publish
    <3>2. updates[t] + 1 \in 0..MaxUpdates
      BY <3>1, AsyncTaskAssumption
    <3>3. updates' = [updates EXCEPT ![t] = updates[t] + 1]
      BY <1>8 DEF Publish
    <3> QED BY <3>2, <3>3 DEF Types
  <2> QED BY <1>8, <2>1, <2>2 DEF Types, Publish, poolVars
<1>9. ASSUME NEW t \in Task, BodyReturns(t) PROVE Types'
  <2>1. messages' \in Seq(Message)
    BY <1>9, PostStep DEF BodyReturns
  <2> QED BY <1>9, <2>1 DEF Types, BodyReturns
<1>10. ASSUME NEW t \in Task, BodyThrows(t) PROVE Types'
  <2>1. messages' \in Seq(Message)
    BY <1>10, PostStep DEF BodyThrows
  <2> QED BY <1>10, <2>1 DEF Types, BodyThrows, MarkCancelled, historyVars
<1>11. ASSUME NEW t \in Task, Settle(t) PROVE Types'
  BY <1>11 DEF Types, Settle, historyVars
<1>12. CASE Finish
  <2>1. messages' \in Seq(Message) /\ Head(messages).task \in Task
    BY <1>12, HandleStep DEF Finish, Message
  <2> DEFINE t == Head(messages).task
  <2>2. mStatus' = [mStatus EXCEPT ![t] = "FINISHED"] /\ results' = [results EXCEPT ![t] = @ + 1]
    BY <1>12 DEF Finish
  <2>3. callbacks' = [callbacks EXCEPT ![t] = IF CallsBack(t) THEN @ + 1 ELSE @]
    BY <1>12 DEF Finish
  <2>4. callbacks' \in [Task -> Nat]
    BY <2>1, <2>3 DEF Types
  <2>5. mStatus' \in [Task -> {"PENDING", "RUNNING", "FINISHED"}]
    BY <2>1, <2>2 DEF Types
  <2>6. results' \in [Task -> Nat]
    BY <2>1, <2>2 DEF Types
  <2> QED BY <1>12, <2>1, <2>4, <2>5, <2>6 DEF Types, Finish, poolVars
<1>13. CASE Progress
  <2>1. messages' \in Seq(Message)
    BY <1>13, HandleStep DEF Progress
  <2> QED BY <1>13, <2>1 DEF Types, Progress, poolVars, historyVars
<1>14. CASE UNCHANGED vars
  BY <1>14 DEF Types, vars, poolVars, historyVars
<1> QED
  BY <1>1, <1>2, <1>3, <1>4, <1>5, <1>6, <1>7, <1>8, <1>9, <1>10, <1>11, <1>12, <1>13, <1>14
  DEF Next, Work, Gc, Caller

-----------------------------------------------------------------------------
(* The parts of the invariant, action by action.                            *)

\* The pool's queue: Execute puts a task in that was nowhere, Take moves one on, and
\* the other actions neither touch the queue nor the place of a queued task.
LEMMA PoolStep == Types /\ PoolInv /\ [Next]_vars => PoolInv'
<1> SUFFICES ASSUME Types, PoolInv, [Next]_vars PROVE PoolInv'
  OBVIOUS
<1> USE DEF PoolInv
<1>0. Len(waiting) \in Nat /\ \A i \in 1..Len(waiting) : waiting[i] \in Task
  BY ElementOfSeq, LenProperties DEF Types
<1>1. ASSUME NEW t \in Task, Execute(t) PROVE PoolInv'
  <2>1. CASE waiting' = waiting
    <3>1. work \in [Task -> {"none", "queued", "taken", "calling", "body", "set", "over"}]
          /\ mStatus \in [Task -> {"PENDING", "RUNNING", "FINISHED"}]
      BY DEF Types
    <3>2. /\ mStatus[t] = "PENDING" /\ mStatus' = [mStatus EXCEPT ![t] = "RUNNING"]
          /\ work' = work \/ work' = [work EXCEPT ![t] = "queued"]
      BY <1>1 DEF Execute, poolVars
    <3> QED BY <1>0, <2>1, <3>1, <3>2
  <2>2. CASE waiting' = Append(waiting, t)
    <3>1. /\ Len(waiting') = Len(waiting) + 1
          /\ \A i \in 1..Len(waiting) : waiting'[i] = waiting[i]
          /\ waiting'[Len(waiting) + 1] = t
      BY <1>1, <2>2, AppendProperties DEF Types
    <3>2. work' = [work EXCEPT ![t] = "queued"] /\ work[t] = "none"
      BY <1>0, <1>1, <2>2, <3>1 DEF Execute, poolVars
    <3>3. mStatus' = [mStatus EXCEPT ![t] = "RUNNING"]
      BY <1>1 DEF Execute
    <3>4. \A i \in 1..Len(waiting) : work'[waiting[i]] = "queued" /\ waiting[i] # t
      BY <1>0, <3>2 DEF Types
    <3>5. t \in Task /\ work'[t] = "queued"
      BY <1>1, <3>2 DEF Types
    <3>6. 1..Len(waiting') = 1..Len(waiting) \union {Len(waiting) + 1}
      BY <1>0, <3>1
    <3>7. \A i \in 1..Len(waiting') : work'[waiting'[i]] = "queued"
      BY <3>1, <3>4, <3>5, <3>6
    <3>8. \A i, j \in 1..Len(waiting') : waiting'[i] = waiting'[j] => i = j
      BY <3>1, <3>4, <3>6
    <3>9. \A u \in Task : mStatus'[u] = "PENDING" => work'[u] = "none"
      BY <3>2, <3>3 DEF Types
    <3> QED BY <3>7, <3>8, <3>9
  <2> QED BY <1>1, <2>1, <2>2 DEF Execute, poolVars
<1>2. CASE Take
  <2>1. /\ Len(waiting) \in Nat \ {0}
        /\ Head(waiting) = waiting[1]
        /\ Len(waiting') = Len(waiting) - 1
        /\ \A i \in 1..Len(waiting') : waiting'[i] = waiting[i + 1]
    BY <1>2, EmptySeq, HeadTailProperties DEF Types, Take
  <2>2. waiting[1] \in Task /\ work' = [work EXCEPT ![waiting[1]] = "taken"]
    BY <1>0, <1>2, <2>1 DEF Take
  <2>3. UNCHANGED mStatus
    BY <1>2 DEF Take
  <2>4. \A i \in 1..Len(waiting') : i + 1 \in 1..Len(waiting) /\ i + 1 # 1
    BY <2>1
  <2>5. \A i \in 1..Len(waiting') : waiting[i + 1] # waiting[1]
    BY <2>1, <2>4
  <2>6. \A i \in 1..Len(waiting') : work'[waiting'[i]] = "queued"
    <3>1. \A u \in Task : u # waiting[1] => work'[u] = work[u]
      BY <2>2 DEF Types
    <3>2. ASSUME NEW i \in 1..Len(waiting')
          PROVE  waiting[i + 1] \in Task /\ work[waiting[i + 1]] = "queued"
      BY <1>0, <2>4
    <3> QED BY <2>1, <2>5, <3>1, <3>2
  <2>7. \A i, j \in 1..Len(waiting') : waiting'[i] = waiting'[j] => i = j
    BY <2>1, <2>4
  <2>8. \A u \in Task : mStatus'[u] = "PENDING" => work'[u] = "none"
    BY <2>1, <2>2, <2>3 DEF Types
  <2> QED BY <2>6, <2>7, <2>8
<1>3. ASSUME NEW t \in Task, RunFuture(t) \/ Invoke(t) \/ Settle(t) \/ BodyReturns(t) \/ BodyThrows(t)
      PROVE  PoolInv'
  <2>1. /\ UNCHANGED <<waiting, mStatus>>
        /\ work[t] \notin {"none", "queued"}
        /\ \A u \in Task \ {t} : work'[u] = work[u]
    BY <1>3 DEF Types, RunFuture, Invoke, Settle, BodyReturns, BodyThrows, historyVars
  <2> QED BY SMTT(60), <1>0, <2>1 DEF Types
<1>4. ASSUME UNCHANGED <<poolVars, mStatus>> PROVE PoolInv'
  BY <1>4 DEF poolVars
<1>5. CASE Finish
  <2>1. UNCHANGED poolVars /\ \A t \in Task : mStatus'[t] = "PENDING" => mStatus[t] = "PENDING"
    BY <1>5 DEF Types, Finish
  <2> QED BY <2>1 DEF poolVars
<1>6. CASE UNCHANGED vars
  BY <1>4, <1>6 DEF vars
<1>7. ASSUME NEW p \in Caller, NEW t \in Task, BeginCancel(p, t) PROVE PoolInv'
  BY <1>4, <1>7 DEF BeginCancel
<1>8. ASSUME NEW p \in Caller, CancelFuture(p) \/ CancelDone(p) PROVE PoolInv'
  BY <1>4, <1>8 DEF CancelFuture, CancelDone
<1>9. ASSUME NEW t \in Task, Publish(t) PROVE PoolInv'
  BY <1>4, <1>9 DEF Publish
<1>10. CASE Progress
  BY <1>4, <1>10 DEF Progress
<1> HIDE DEF PoolInv
<1> QED
  BY <1>1, <1>2, <1>3, <1>5, <1>6, <1>7, <1>8, <1>9, <1>10 DEF Next, Work, Gc, Caller

\* The worker's progress and the state of the future: the future leaves "new" once, by
\* CancelFuture, which notes whether it raced, or by Settle.
LEMMA WorkStep == Types /\ PoolInv /\ WorkInv /\ [Next]_vars => WorkInv'
<1> SUFFICES ASSUME Types, PoolInv, WorkInv, [Next]_vars PROVE WorkInv'
  OBVIOUS
<1> USE DEF WorkInv
<1>1. ASSUME NEW t \in Task, Execute(t) PROVE WorkInv'
  <2>1. work[t] = "none"
    BY <1>1 DEF PoolInv, Execute
  <2> QED BY <1>1, <2>1 DEF Types, Execute, poolVars
<1>2. CASE Take
  <2>1. Head(waiting) = waiting[1] /\ 1 \in 1..Len(waiting) /\ waiting[1] \in Task
    BY <1>2, EmptySeq, HeadTailProperties, ElementOfSeq DEF Types, Take
  <2>2. work[waiting[1]] = "queued" /\ work' = [work EXCEPT ![waiting[1]] = "taken"]
    BY <1>2, <2>1 DEF PoolInv, Take
  <2> QED BY SMTT(60), <1>2, <2>1, <2>2 DEF Types, Take, historyVars
<1>3. ASSUME NEW t \in Task, RunFuture(t) PROVE WorkInv'
  BY <1>3 DEF Types, RunFuture, historyVars
<1>4. ASSUME NEW t \in Task, Invoke(t) PROVE WorkInv'
  BY <1>4 DEF Types, Invoke, historyVars
<1>5. ASSUME NEW t \in Task, BodyReturns(t) \/ BodyThrows(t) PROVE WorkInv'
  BY <1>5 DEF Types, BodyReturns, BodyThrows, historyVars
<1>6. ASSUME NEW t \in Task, Settle(t) PROVE WorkInv'
  BY <1>6 DEF Types, Settle, historyVars
<1>7. ASSUME NEW p \in Caller, CancelFuture(p) PROVE WorkInv'
  <2>1. op[p].task \in Task
    BY <1>7, OpFields DEF CancelFuture
  <2> DEFINE t == op[p].task
  <2>2. CASE future[t] = "new"
    <3>1. \A u \in Task : future'[u] = IF u = t THEN "cancelled" ELSE future[u]
      BY <1>7, <2>1, <2>2 DEF Types, CancelFuture
    <3>2. \A u \in Task : raced'[u] <=> IF u = t THEN work[t] = "calling" ELSE raced[u]
      BY ZenonT(60), <1>7, <2>1, <2>2 DEF Types, CancelFuture
    <3>3. UNCHANGED <<work, mTaskInvoked>>
      BY <1>7 DEF CancelFuture, poolVars
    <3> QED BY <2>1, <2>2, <3>1, <3>2, <3>3
  <2>3. CASE future[t] # "new"
    BY <1>7, <2>3 DEF CancelFuture, poolVars
  <2> QED BY <2>2, <2>3
<1>8. ASSUME UNCHANGED <<work, mTaskInvoked, future, raced>> PROVE WorkInv'
  BY <1>8
<1>9. ASSUME NEW p \in Caller, NEW t \in Task, BeginCancel(p, t) PROVE WorkInv'
  BY <1>8, <1>9 DEF BeginCancel, poolVars, historyVars
<1>10. ASSUME NEW p \in Caller, CancelDone(p) PROVE WorkInv'
  BY <1>8, <1>10 DEF CancelDone, poolVars, historyVars
<1>11. ASSUME NEW t \in Task, Publish(t) PROVE WorkInv'
  BY <1>8, <1>11 DEF Publish, poolVars
<1>12. CASE Finish \/ Progress \/ UNCHANGED vars
  BY <1>8, <1>12 DEF Finish, Progress, vars, poolVars, historyVars
<1> HIDE DEF WorkInv
<1> QED
  BY <1>1, <1>2, <1>3, <1>4, <1>5, <1>6, <1>7, <1>9, <1>10, <1>11, <1>12
  DEF Next, Work, Gc, Caller

\* mCancelled is never reset; only the cancel() that found the future new goes on to
\* done(), and no other cancel() of the same task finds it so again.
LEMMA CancelStep == Types /\ CancelInv /\ [Next]_vars => CancelInv'
<1> SUFFICES ASSUME Types, CancelInv, [Next]_vars PROVE CancelInv'
  OBVIOUS
<1> USE DEF CancelInv
<1>0. \A p \in Caller : op[p].do \in {"cancel", "done"} => op[p].task \in Task
  BY OpFields
<1>1. ASSUME NEW p \in Caller, NEW t \in Task, BeginCancel(p, t) PROVE CancelInv'
  <2>1. /\ op' = [op EXCEPT ![p] = [do |-> "cancel", task |-> t]]
        /\ mCancelled' = [mCancelled EXCEPT ![t] = TRUE]
        /\ UNCHANGED future
    BY <1>1 DEF BeginCancel
  <2>2. \A q \in Caller : op'[q] = IF q = p THEN [do |-> "cancel", task |-> t] ELSE op[q]
    BY <2>1 DEF Types
  <2>3. \A u \in Task : mCancelled'[u] <=> u = t \/ mCancelled[u]
    BY <1>1, <2>1 DEF Types
  <2>4. t \in Task
    BY <1>1
  <2> QED BY <1>0, <2>1, <2>2, <2>3, <2>4
<1>2. ASSUME NEW p \in Caller, CancelFuture(p) PROVE CancelInv'
  <2>1. op[p].do = "cancel" /\ op[p].task \in Task /\ mCancelled[op[p].task] /\ UNCHANGED mCancelled
    BY <1>0, <1>2 DEF CancelFuture
  <2>2. CASE future[op[p].task] = "new"
    <3>1. \A q \in Caller :
            op'[q] = IF q = p THEN [do |-> "done", task |-> op[p].task] ELSE op[q]
      BY <1>2, <2>2, CancelFutureOp DEF Types
    <3>2. \A u \in Task : future'[u] = IF u = op[p].task THEN "cancelled" ELSE future[u]
      BY <1>2, <2>1, <2>2 DEF Types, CancelFuture
    <3>3. \A q \in Caller : op[q].do = "done" => op[q].task # op[p].task
      BY <2>2
    <3> QED BY <1>0, <2>1, <3>1, <3>2, <3>3
  <2>3. CASE future[op[p].task] # "new"
    <3>1. UNCHANGED future /\ \A q \in Caller : op'[q] = IF q = p THEN Idle ELSE op[q]
      BY <1>2, <2>3 DEF Types, CancelFuture
    <3> QED BY <2>1, <3>1 DEF Idle
  <2> QED BY <2>2, <2>3
<1>3. ASSUME NEW p \in Caller, CancelDone(p) PROVE CancelInv'
  <2>1. UNCHANGED <<future, mCancelled>> /\ \A q \in Caller : op'[q] = IF q = p THEN Idle ELSE op[q]
    BY <1>3 DEF Types, CancelDone
  <2> QED BY <2>1 DEF Idle
<1>4. ASSUME NEW t \in Task, BodyThrows(t) PROVE CancelInv'
  <2>1. UNCHANGED <<future, op>> /\ \A u \in Task : mCancelled'[u] <=> u = t \/ mCancelled[u]
    BY <1>4 DEF Types, BodyThrows, MarkCancelled
  <2> QED BY <1>0, <2>1
<1>5. ASSUME NEW t \in Task, Settle(t) PROVE CancelInv'
  <2>1. /\ UNCHANGED <<mCancelled, op>>
        /\ \A u \in Task : future'[u] = "cancelled" <=> future[u] = "cancelled"
    BY <1>5 DEF Types, Settle
  <2> QED BY <1>0, <2>1
<1>6. ASSUME UNCHANGED <<future, mCancelled, op>> PROVE CancelInv'
  BY <1>6
<1>7. ASSUME NEW t \in Task,
             Execute(t) \/ RunFuture(t) \/ Invoke(t) \/ Publish(t) \/ BodyReturns(t)
      PROVE  CancelInv'
  BY <1>6, <1>7 DEF Execute, RunFuture, Invoke, Publish, BodyReturns
<1>8. CASE Take \/ Finish \/ Progress \/ UNCHANGED vars
  BY <1>6, <1>8 DEF Take, Finish, Progress, vars
<1> HIDE DEF CancelInv
<1> QED
  BY <1>1, <1>2, <1>3, <1>4, <1>5, <1>7, <1>8 DEF Next, Work, Gc, Caller

\* Results are counted when they are posted, and handling one does not change the count.
LEMMA PostedStep ==
  ASSUME Types
  PROVE  /\ \A u \in Task : Posted(u) \in Nat
         /\ UNCHANGED <<messages, results>> => \A u \in Task : Posted(u)' = Posted(u)
         /\ \A t \in Task : Post("result", t) /\ UNCHANGED results =>
              \A u \in Task : Posted(u)' = Posted(u) + (IF u = t THEN 1 ELSE 0)
         /\ \A t \in Task : Post("progress", t) /\ UNCHANGED results =>
              \A u \in Task : Posted(u)' = Posted(u)
         /\ Finish \/ Progress => \A u \in Task : Posted(u)' = Posted(u)
<1>0. \A u \in Task : results[u] \in Nat /\ ResultsToCome(u) \in Nat
  BY ResultsToComeType DEF Types
<1>1. \A u \in Task : Posted(u) \in Nat
  BY <1>0 DEF Posted
<1>2. ASSUME UNCHANGED <<messages, results>>, NEW u \in Task PROVE Posted(u)' = Posted(u)
  BY <1>2, ResultsToComeType DEF Posted
<1>3. ASSUME NEW t \in Task, Post("result", t), UNCHANGED results, NEW u \in Task
      PROVE  Posted(u)' = Posted(u) + (IF u = t THEN 1 ELSE 0)
  <2>1. ResultsToCome(u)' = ResultsToCome(u) + (IF u = t THEN 1 ELSE 0)
    BY ZenonT(60), <1>3, PostStep
  <2> QED BY <1>0, <1>3, <2>1 DEF Posted
<1>4. ASSUME NEW t \in Task, Post("progress", t), UNCHANGED results, NEW u \in Task
      PROVE  Posted(u)' = Posted(u)
  <2>1. ResultsToCome(u)' = ResultsToCome(u) + (IF "progress" = "result" /\ u = t THEN 1 ELSE 0)
    BY <1>4, PostStep
  <2> QED BY <1>0, <1>4, <2>1 DEF Posted
<1>5. ASSUME Finish, NEW u \in Task PROVE Posted(u)' = Posted(u)
  <2>1. Head(messages) \in Message /\ Head(messages).what = "result"
    BY <1>5, HandleStep DEF Finish
  <2>2. ResultsToCome(u) = ResultsToCome(u)' + (IF u = Head(messages).task THEN 1 ELSE 0)
    <3>1. Head(messages) = [what |-> "result", task |-> u] <=> u = Head(messages).task
      BY <2>1 DEF Message
    <3> QED BY <1>5, <3>1, HandleStep DEF Finish
  <2>3. results'[u] = results[u] + (IF u = Head(messages).task THEN 1 ELSE 0)
    BY <1>0, <1>5 DEF Types, Finish
  <2>4. ResultsToCome(u)' \in Nat
    <3>1. messages' \in Seq(Message)
      BY <1>5, HandleStep DEF Finish
    <3> QED BY <3>1, CountType DEF ResultsToCome, ResultsIn
  <2> QED BY <1>0, <2>2, <2>3, <2>4 DEF Posted
<1>6. ASSUME Progress, NEW u \in Task PROVE Posted(u)' = Posted(u)
  <2>1. Head(messages) # [what |-> "result", task |-> u] /\ UNCHANGED results
    BY <1>6 DEF Progress, historyVars
  <2>2. ResultsToCome(u) = ResultsToCome(u)' + 0
    BY <1>6, <2>1, HandleStep DEF Progress
  <2>3. ResultsToCome(u)' \in Nat
    <3>1. messages' \in Seq(Message)
      BY <1>6, HandleStep DEF Progress
    <3> QED BY <3>1, CountType DEF ResultsToCome, ResultsIn
  <2> QED BY <1>0, <2>1, <2>2, <2>3 DEF Posted
<1> QED BY <1>1, <1>2, <1>3, <1>4, <1>5, <1>6

\* A result of t that waits to be handled has been posted.
LEMMA WaitingIsPosted ==
  ASSUME Types, NEW i \in 1..Len(messages), NEW t \in Task,
         messages[i] = [what |-> "result", task |-> t]
  PROVE  Posted(t) >= results[t] + 1 /\ results[t] \in Nat
<1>1. messages \in Seq(Message) /\ i \in ResultsIn(messages, t)
  BY DEF Types, ResultsIn
<1>2. IsFiniteSet(ResultsIn(messages, t)) /\ Cardinality(ResultsIn(messages, t)) \in Nat
  BY <1>1, CountType
<1>3. Cardinality(ResultsIn(messages, t)) # 0
  BY <1>1, <1>2, FS_EmptySet
<1>4. ResultsToCome(t) = Cardinality(ResultsIn(messages, t))
  BY DEF ResultsToCome, ResultsIn
<1> QED BY <1>2, <1>3, <1>4 DEF Types, Posted

\* Which cancellers are in done(), after a step of one of them.
LEMMA CancellingStep ==
  ASSUME Types, CancelInv, NEW p \in Caller
  PROVE  /\ \A t \in Task : BeginCancel(p, t) =>
              \A u \in Task : Cancelling(u)' <=> Cancelling(u)
         /\ CancelFuture(p) => \A u \in Task : Cancelling(u)' <=>
              Cancelling(u) \/ (u = op[p].task /\ future[op[p].task] = "new")
         /\ CancelDone(p) => \A u \in Task : Cancelling(u)' <=>
              Cancelling(u) /\ u # op[p].task
<1>1. ASSUME NEW t \in Task, BeginCancel(p, t), NEW u \in Task
      PROVE  Cancelling(u)' <=> Cancelling(u)
  <2>1. op[p] = Idle
        /\ \A q \in Caller : op'[q] = IF q = p THEN [do |-> "cancel", task |-> t] ELSE op[q]
    BY <1>1 DEF Types, BeginCancel
  <2> QED BY <2>1 DEF Cancelling, Idle
<1>2. ASSUME CancelFuture(p), NEW u \in Task
      PROVE  Cancelling(u)' <=>
               Cancelling(u) \/ (u = op[p].task /\ future[op[p].task] = "new")
  <2> DEFINE next == IF future[op[p].task] = "new"
                       THEN [do |-> "done", task |-> op[p].task] ELSE Idle
  <2>1. op[p].do = "cancel" /\ \A q \in Caller : op'[q] = IF q = p THEN next ELSE op[q]
    BY ZenonT(60), <1>2, CancelFutureOp DEF Types, CancelFuture
  <2>2. next = [do |-> "done", task |-> u] <=> (u = op[p].task /\ future[op[p].task] = "new")
    BY DEF Idle
  <2> HIDE DEF next
  <2> QED BY <2>1, <2>2 DEF Cancelling
<1>3. ASSUME CancelDone(p), NEW u \in Task
      PROVE  Cancelling(u)' <=> Cancelling(u) /\ u # op[p].task
  <2>1. /\ op[p] = [do |-> "done", task |-> op[p].task]
        /\ \A q \in Caller : op'[q] = IF q = p THEN Idle ELSE op[q]
    BY <1>3, OpFields DEF Types, CancelDone
  <2>2. \A q \in Caller : q # p => op[q] # [do |-> "done", task |-> op[p].task]
    BY <2>1 DEF CancelInv
  <2> QED BY <2>1, <2>2 DEF Cancelling, Idle
<1> QED BY <1>1, <1>2, <1>3

\* The worker posts when it leaves the body, a canceller in done() and only while
\* mTaskInvoked is not set: what each has posted is told by where it is.
LEMMA ResultStep ==
  Types /\ PoolInv /\ WorkInv /\ CancelInv /\ ResultInv /\ [Next]_vars => ResultInv'
<1> SUFFICES ASSUME Types, PoolInv, WorkInv, CancelInv, ResultInv, [Next]_vars
             PROVE  ResultInv'
  OBVIOUS
<1>0. \A u \in Task : Posted(u) \in Nat
  BY PostedStep
\* Steps that post nothing and leave what was posted as it is.
<1>1. ASSUME \A u \in Task : Posted(u)' = Posted(u),
             \A u \in Task : ByWorker(u)' <=> ByWorker(u),
             \A u \in Task : ByCanceller(u)' <=> ByCanceller(u),
             \A u \in Task : returned[u] \/ mCancelled[u] => returned'[u] \/ mCancelled'[u]
      PROVE  ResultInv'
  BY <1>1 DEF ResultInv
<1>2. ASSUME UNCHANGED <<messages, results, work, mTaskInvoked, future, op, raced, returned>>,
             \A u \in Task : mCancelled[u] => mCancelled'[u]
      PROVE  ResultInv'
  <2>1. \A u \in Task : Posted(u)' = Posted(u)
    BY <1>2, PostedStep
  <2>2. \A u \in Task : (ByWorker(u)' <=> ByWorker(u)) /\ (ByCanceller(u)' <=> ByCanceller(u))
    BY <1>2 DEF ByWorker, ByCanceller, Cancelling
  <2> QED BY <1>1, <1>2, <2>1, <2>2
<1>3. ASSUME NEW t \in Task, Execute(t) PROVE ResultInv'
  <2>1. work[t] = "none" /\ ~mTaskInvoked[t]
    BY <1>3 DEF PoolInv, WorkInv, Execute
  <2>2. \A u \in Task : ByWorker(u)' <=> ByWorker(u)
    BY <1>3, <2>1 DEF Types, Execute, poolVars, ByWorker
  <2>3. \A u \in Task : ByCanceller(u)' <=> ByCanceller(u)
    BY <1>3 DEF Execute, ByCanceller, Cancelling
  <2>4. \A u \in Task : Posted(u)' = Posted(u)
    BY <1>3, PostedStep DEF Execute
  <2> QED BY <1>1, <1>3, <2>2, <2>3, <2>4 DEF Execute
<1>4. CASE Take
  <2>1. Head(waiting) = waiting[1] /\ 1 \in 1..Len(waiting) /\ waiting[1] \in Task
    BY <1>4, EmptySeq, HeadTailProperties, ElementOfSeq DEF Types, Take
  <2>2. work[waiting[1]] = "queued" /\ work' = [work EXCEPT ![waiting[1]] = "taken"]
    BY <1>4, <2>1 DEF PoolInv, Take
  <2>3. \A u \in Task : ByWorker(u)' <=> ByWorker(u)
    BY <1>4, <2>1, <2>2 DEF Types, Take, ByWorker
  <2>4. \A u \in Task : ByCanceller(u)' <=> ByCanceller(u)
    BY <1>4 DEF Take, ByCanceller, Cancelling, historyVars
  <2>5. \A u \in Task : Posted(u)' = Posted(u)
    BY <1>4, PostedStep DEF Take, historyVars
  <2> QED BY <1>1, <1>4, <2>3, <2>4, <2>5 DEF Take, historyVars
<1>5. ASSUME NEW t \in Task, RunFuture(t) PROVE ResultInv'
  <2>1. ~mTaskInvoked[t]
    BY <1>5 DEF WorkInv, RunFuture
  <2>2. \A u \in Task : ByWorker(u)' <=> ByWorker(u)
    BY <1>5, <2>1 DEF Types, RunFuture, ByWorker
  <2>3. \A u \in Task : ByCanceller(u)' <=> ByCanceller(u)
    BY <1>5 DEF RunFuture, ByCanceller, Cancelling, historyVars
  <2>4. \A u \in Task : Posted(u)' = Posted(u)
    BY <1>5, PostedStep DEF RunFuture, historyVars
  <2> QED BY <1>1, <1>5, <2>2, <2>3, <2>4 DEF RunFuture, historyVars
<1>6. ASSUME NEW t \in Task, Invoke(t) PROVE ResultInv'
  <2>1. future[t] = "cancelled" => raced[t]
    BY <1>6 DEF WorkInv, Invoke
  <2>2. \A u \in Task : ByWorker(u)' <=> ByWorker(u)
    BY <1>6 DEF Types, Invoke, ByWorker
  <2>3. \A u \in Task : ByCanceller(u)' <=> ByCanceller(u)
    BY <1>6, <2>1 DEF Types, Invoke, ByCanceller, Cancelling, historyVars
  <2>4. \A u \in Task : Posted(u)' = Posted(u)
    BY <1>6, PostedStep DEF Invoke, historyVars
  <2> QED BY <1>1, <1>6, <2>2, <2>3, <2>4 DEF Invoke, historyVars
<1>7. ASSUME NEW t \in Task, Publish(t) PROVE ResultInv'
  <2>1. \A u \in Task : Posted(u)' = Posted(u)
    BY <1>7, PostedStep DEF Publish
  <2>2. \A u \in Task : (ByWorker(u)' <=> ByWorker(u)) /\ (ByCanceller(u)' <=> ByCanceller(u))
    BY <1>7 DEF Publish, poolVars, ByWorker, ByCanceller, Cancelling
  <2> QED BY <1>1, <1>7, <2>1, <2>2 DEF Publish
<1>8. ASSUME NEW t \in Task, BodyReturns(t) \/ BodyThrows(t) PROVE ResultInv'
  <2>1. Post("result", t) /\ UNCHANGED results /\ t \in Task
    BY <1>8 DEF BodyReturns, BodyThrows, historyVars
  <2>2. \A u \in Task : Posted(u)' = Posted(u) + (IF u = t THEN 1 ELSE 0)
    BY <2>1, PostedStep
  <2>3. \A u \in Task : ByCanceller(u)' <=> ByCanceller(u)
    BY <1>8 DEF BodyReturns, BodyThrows, historyVars, ByCanceller, Cancelling
  <2>4. ~ByWorker(t) /\ \A u \in Task : ByWorker(u)' <=> u = t \/ ByWorker(u)
    BY <1>8 DEF Types, BodyReturns, BodyThrows, ByWorker
  <2>5. /\ returned'[t] \/ mCancelled'[t]
        /\ \A u \in Task : returned[u] \/ mCancelled[u] => returned'[u] \/ mCancelled'[u]
    BY <1>8 DEF Types, BodyReturns, BodyThrows, MarkCancelled, historyVars
  <2> QED BY <1>0, <2>2, <2>3, <2>4, <2>5 DEF ResultInv
<1>9. ASSUME NEW t \in Task, Settle(t) PROVE ResultInv'
  <2>1. mTaskInvoked[t]
    BY <1>9 DEF WorkInv, Settle
  <2>2. \A u \in Task : ByWorker(u)' <=> ByWorker(u)
    BY <1>9, <2>1 DEF Types, Settle, ByWorker
  <2>3. \A u \in Task : ByCanceller(u)' <=> ByCanceller(u)
    BY <1>9 DEF Types, Settle, ByCanceller, Cancelling, historyVars
  <2>4. \A u \in Task : Posted(u)' = Posted(u)
    BY <1>9, PostedStep DEF Settle, historyVars
  <2> QED BY <1>1, <1>9, <2>2, <2>3, <2>4 DEF Settle, historyVars
<1>10. ASSUME NEW p \in Caller, NEW t \in Task, BeginCancel(p, t) PROVE ResultInv'
  <2>1. \A u \in Task : Cancelling(u)' <=> Cancelling(u)
    BY <1>10, CancellingStep
  <2>2. \A u \in Task : (ByWorker(u)' <=> ByWorker(u)) /\ (ByCanceller(u)' <=> ByCanceller(u))
    BY <1>10, <2>1 DEF BeginCancel, poolVars, historyVars, ByWorker, ByCanceller
  <2>3. \A u \in Task : Posted(u)' = Posted(u)
    BY <1>10, PostedStep DEF BeginCancel, historyVars
  <2>4. \A u \in Task : mCancelled[u] => mCancelled'[u]
    BY <1>10 DEF Types, BeginCancel
  <2> QED BY <1>1, <1>10, <2>2, <2>3, <2>4 DEF BeginCancel, historyVars
<1>11. ASSUME NEW p \in Caller, CancelFuture(p) PROVE ResultInv'
  <2> DEFINE t == op[p].task
  <2>1. t \in Task
    BY <1>11, OpFields DEF CancelFuture
  <2>2. \A u \in Task : ByWorker(u)' <=> ByWorker(u)
    BY <1>11 DEF CancelFuture, poolVars, ByWorker
  <2>3. \A u \in Task : Cancelling(u)' <=> Cancelling(u) \/ (u = t /\ future[t] = "new")
    BY <1>11, CancellingStep
  <2>4. \A u \in Task : ByCanceller(u)' <=> ByCanceller(u)
    <3>1. CASE future[t] = "new"
      <4>1. \A u \in Task : u # t => future'[u] = future[u] /\ (raced'[u] <=> raced[u])
        BY <1>11, <2>1, <3>1 DEF Types, CancelFuture
      <4> QED BY <1>11, <2>1, <2>3, <3>1, <4>1 DEF CancelFuture, ByCanceller
    <3>2. CASE future[t] # "new"
      BY <1>11, <2>3, <3>2 DEF CancelFuture, ByCanceller
    <3> QED BY <3>1, <3>2
  <2>5. \A u \in Task : Posted(u)' = Posted(u)
    BY <1>11, PostedStep DEF CancelFuture
  <2> QED BY <1>1, <1>11, <2>2, <2>4, <2>5 DEF CancelFuture
<1>12. ASSUME NEW p \in Caller, CancelDone(p) PROVE ResultInv'
  <2>0. PICK t \in Task : t = op[p].task
    BY <1>12, OpFields DEF CancelDone
  <2>1. future[t] = "cancelled" /\ Cancelling(t)
    BY <1>12, <2>0, OpFields DEF CancelDone, CancelInv, Cancelling
  <2>2. \A u \in Task : Cancelling(u)' <=> Cancelling(u) /\ u # t
    BY <1>12, <2>0, CancellingStep
  <2>3. UNCHANGED <<mCancelled, mTaskInvoked, future, work, results, raced, returned>>
    BY <1>12 DEF CancelDone, poolVars, historyVars
  <2>4. \A u \in Task : ByWorker(u)' <=> ByWorker(u)
    BY <2>3 DEF ByWorker
  <2>5. /\ ~ByCanceller(t)
        /\ \A u \in Task : ByCanceller(u)' <=>
             ByCanceller(u) \/ (u = t /\ (mTaskInvoked[t] => raced[t]))
    BY <2>1, <2>2, <2>3 DEF ByCanceller
  <2>6. CASE mTaskInvoked[t]
    <3>1. \A u \in Task : Posted(u)' = Posted(u)
      BY <1>12, <2>0, <2>3, <2>6, PostedStep DEF CancelDone, PostIfNotInvoked
    <3> QED BY <2>3, <2>4, <2>5, <3>1 DEF ResultInv
  <2>7. CASE ~mTaskInvoked[t]
    <3>1. \A u \in Task : Posted(u)' = Posted(u) + (IF u = t THEN 1 ELSE 0)
      BY <1>12, <2>0, <2>3, <2>7, PostedStep DEF CancelDone, PostIfNotInvoked
    <3>2. Posted(t) # 2 /\ (Posted(t) = 1 => ByWorker(t)) /\ ByCanceller(t)'
      BY <2>1, <2>5, <2>7 DEF ResultInv
    <3> QED BY <1>0, <2>3, <2>4, <2>5, <3>1, <3>2 DEF ResultInv
  <2> QED BY <2>6, <2>7
<1>13. CASE Finish \/ Progress
  <2>1. \A u \in Task : Posted(u)' = Posted(u)
    BY <1>13, PostedStep
  <2>2. \A u \in Task : (ByWorker(u)' <=> ByWorker(u)) /\ (ByCanceller(u)' <=> ByCanceller(u))
    BY <1>13 DEF Finish, Progress, poolVars, historyVars, ByWorker, ByCanceller, Cancelling
  <2> QED BY <1>1, <1>13, <2>1, <2>2 DEF Finish, Progress, historyVars
<1>14. CASE UNCHANGED vars
  BY <1>2, <1>14 DEF vars, poolVars, historyVars
<1> QED
  BY <1>3, <1>4, <1>5, <1>6, <1>7, <1>8, <1>9, <1>10, <1>11, <1>12, <1>13, <1>14
  DEF Next, Work, Gc, Caller

\* A result posted by the worker, a return of the body and a cancellation are not
\* undone, and only Finish counts a result or a callback.
LEMMA HistoryStep ==
  ASSUME Types, PoolInv, WorkInv, [Next]_vars
  PROVE  /\ \A u \in Task : /\ ByWorker(u) => ByWorker(u)'
                            /\ returned[u] => returned'[u]
                            /\ mCancelled[u] => mCancelled'[u]
         /\ ~Finish => UNCHANGED <<results, callbacks>>
<1> DEFINE Kept == /\ \A u \in Task : /\ ByWorker(u) => ByWorker(u)'
                                      /\ returned[u] => returned'[u]
                                      /\ mCancelled[u] => mCancelled'[u]
                   /\ ~Finish => UNCHANGED <<results, callbacks>>
<1>1. ASSUME NEW t \in Task, Execute(t) PROVE Kept
  <2>1. work[t] = "none"
    BY <1>1 DEF PoolInv, Execute
  <2> QED BY <1>1, <2>1 DEF Types, Execute, poolVars, ByWorker
<1>2. CASE Take
  <2>1. Head(waiting) = waiting[1] /\ 1 \in 1..Len(waiting) /\ waiting[1] \in Task
    BY <1>2, EmptySeq, HeadTailProperties, ElementOfSeq DEF Types, Take
  <2>2. work[waiting[1]] = "queued" /\ work' = [work EXCEPT ![waiting[1]] = "taken"]
    BY <1>2, <2>1 DEF PoolInv, Take
  <2> QED BY <1>2, <2>1, <2>2 DEF Types, Take, historyVars, ByWorker
<1>3. ASSUME NEW t \in Task, RunFuture(t) \/ Invoke(t) PROVE Kept
  BY <1>3 DEF Types, WorkInv, RunFuture, Invoke, historyVars, ByWorker
<1>4. ASSUME NEW t \in Task, Publish(t) PROVE Kept
  BY <1>4 DEF Types, Publish, poolVars, ByWorker
<1>5. ASSUME NEW t \in Task, BodyReturns(t) PROVE Kept
  BY <1>5 DEF Types, BodyReturns, ByWorker
<1>6. ASSUME NEW t \in Task, BodyThrows(t) PROVE Kept
  BY <1>6 DEF Types, BodyThrows, MarkCancelled, historyVars, ByWorker
<1>7. ASSUME NEW t \in Task, Settle(t) PROVE Kept
  BY <1>7 DEF Types, WorkInv, Settle, historyVars, ByWorker
<1>8. ASSUME NEW p \in Caller, NEW t \in Task, BeginCancel(p, t) PROVE Kept
  BY <1>8 DEF Types, BeginCancel, poolVars, historyVars, ByWorker
<1>9. ASSUME NEW p \in Caller, CancelFuture(p) \/ CancelDone(p) PROVE Kept
  BY <1>9 DEF Types, CancelFuture, CancelDone, poolVars, historyVars, ByWorker
<1>10. CASE Finish
  BY <1>10 DEF Finish, poolVars, ByWorker
<1>11. CASE Progress \/ UNCHANGED vars
  BY <1>11 DEF Progress, vars, poolVars, historyVars, ByWorker
<1> QED
  BY <1>1, <1>2, <1>3, <1>4, <1>5, <1>6, <1>7, <1>8, <1>9, <1>10, <1>11
  DEF Next, Work, Gc, Caller

\* The result of a task that is not cancelled is the worker's, and the first.
LEMMA FirstResult ==
  ASSUME Types, CancelInv, ResultInv, NEW t \in Task, ~mCancelled[t],
         NEW i \in 1..Len(messages), messages[i] = [what |-> "result", task |-> t]
  PROVE  results[t] = 0 /\ ByWorker(t) /\ returned[t]
<1>1. ~ByCanceller(t)
  BY DEF CancelInv, ByCanceller
<1>2. Posted(t) \in Nat /\ results[t] \in Nat /\ Posted(t) >= results[t] + 1
  BY PostedStep, WaitingIsPosted
<1>3. /\ Posted(t) <= 2 /\ Posted(t) # 2
      /\ Posted(t) = 1 => ByWorker(t)
      /\ ByWorker(t) => returned[t]
  BY <1>1 DEF ResultInv
<1>4. Posted(t) = 1 /\ results[t] = 0
  BY <1>2, <1>3
<1> QED BY <1>3, <1>4

\* Finish calls back when the task is not cancelled: then it is the first result.
LEMMA CallbackStep ==
  Types /\ PoolInv /\ WorkInv /\ CancelInv /\ ResultInv /\ CallbackInv /\ [Next]_vars
    => CallbackInv'
<1> SUFFICES ASSUME Types, PoolInv, WorkInv, CancelInv, ResultInv, CallbackInv, [Next]_vars
             PROVE  CallbackInv'
  OBVIOUS
<1>1. \A u \in Task : /\ ByWorker(u) => ByWorker(u)'
                      /\ returned[u] => returned'[u]
  BY HistoryStep
<1>2. CASE ~Finish
  <2>1. UNCHANGED <<results, callbacks>>
    BY <1>2, HistoryStep
  <2> QED BY <1>1, <2>1 DEF CallbackInv
<1>3. CASE Finish
  <2>0. PICK t \in Task : t = Head(messages).task
    BY <1>3, HandleStep DEF Finish, Message
  <2>1. messages[1] = [what |-> "result", task |-> t] /\ 1 \in 1..Len(messages)
    BY <1>3, <2>0, HandleStep DEF Finish, Message
  <2>2. results' = [results EXCEPT ![t] = @ + 1]
    BY <1>3, <2>0 DEF Finish
  <2>3. callbacks' = [callbacks EXCEPT ![t] = IF CallsBack(t) THEN @ + 1 ELSE @]
    BY <1>3, <2>0 DEF Finish
  <2>4. CASE mCancelled[t]
    <3>1. callbacks' = callbacks
      BY <2>3, <2>4 DEF Types, CallsBack
    <3>2. \A u \in Task : results'[u] = results[u] \/ results'[u] = results[u] + 1
      BY <2>2 DEF Types
    <3>3. \A u \in Task : results[u] \in Nat /\ callbacks[u] \in Nat /\ callbacks[u] <= results[u]
      BY DEF Types, CallbackInv
    <3>4. \A u \in Task : callbacks'[u] <= results'[u]
      BY <3>1, <3>2, <3>3
    <3> QED BY <1>1, <3>1, <3>4 DEF CallbackInv
  <2>5. CASE ~mCancelled[t]
    <3>1. results[t] = 0 /\ ByWorker(t) /\ returned[t]
      BY <2>1, <2>5, FirstResult
    <3>2. callbacks[t] = 0
      BY <3>1 DEF Types, CallbackInv
    <3>3. \A u \in Task : results'[u] = IF u = t THEN 1 ELSE results[u]
      BY <2>2, <3>1 DEF Types
    <3>4. \A u \in Task : callbacks'[u] = IF u = t THEN 1 ELSE callbacks[u]
      BY <2>3, <2>5, <3>2 DEF Types, CallsBack
    <3> QED BY <1>1, <3>1, <3>3, <3>4 DEF CallbackInv
  <2> QED BY <2>4, <2>5
<1> QED BY <1>2, <1>3

\* The queue of the Handler changes in three ways: it keeps its messages, gets one at
\* its end, or loses the one handled.
LEMMA QueueStep ==
  ASSUME Types, [Next]_vars
  PROVE  \/ UNCHANGED messages
         \/ \E t \in Task : Post("result", t)
         \/ \E t \in Task : Publish(t)
         \/ messages # << >> /\ messages' = Tail(messages)
<1> DEFINE Goal == \/ UNCHANGED messages
                   \/ \E t \in Task : Post("result", t)
                   \/ \E t \in Task : Publish(t)
                   \/ messages # << >> /\ messages' = Tail(messages)
<1>1. ASSUME NEW t \in Task, Execute(t) \/ Work(t) PROVE Goal
  BY <1>1 DEF Execute, Work, RunFuture, Invoke, BodyReturns, BodyThrows, Settle
<1>2. ASSUME NEW p \in Caller, NEW t \in Task, BeginCancel(p, t) PROVE Goal
  BY <1>2 DEF BeginCancel
<1>3. ASSUME NEW p \in Caller, CancelFuture(p) \/ CancelDone(p) PROVE Goal
  BY <1>3, OpFields DEF CancelFuture, CancelDone
<1>4. CASE Take \/ Finish \/ Progress \/ UNCHANGED vars
  BY <1>4 DEF Take, Finish, Progress, vars
<1> QED BY <1>1, <1>2, <1>3, <1>4 DEF Next, Gc, Caller

\* Progress is published only from the body, that is before the worker's result.
LEMMA ProgressStep ==
  Types /\ IInv /\ [Next]_vars => ProgressInv'
<1> SUFFICES ASSUME Types, IInv, [Next]_vars,
                    NEW t \in Task, ~mCancelled'[t],
                    NEW i \in 1..Len(messages'), NEW j \in 1..Len(messages'), i < j,
                    messages'[i] = [what |-> "result", task |-> t],
                    messages'[j] = [what |-> "progress", task |-> t]
             PROVE  FALSE
  BY DEF ProgressInv
<1>0. PoolInv /\ WorkInv /\ CancelInv /\ ResultInv
  BY DEF IInv
<1>1. ~mCancelled[t]
  BY <1>0, HistoryStep
<1>2. Len(messages) \in Nat
  BY LenProperties DEF Types
<1>3. \A k, l \in 1..Len(messages) :
        k < l /\ messages[k] = [what |-> "result", task |-> t]
          => messages[l] # [what |-> "progress", task |-> t]
  BY <1>1 DEF IInv, ProgressInv
<1>4. CASE UNCHANGED messages
  BY <1>3, <1>4
<1>5. ASSUME NEW u \in Task, Post("result", u) PROVE FALSE
  <2>1. /\ Len(messages') = Len(messages) + 1
        /\ \A k \in 1..Len(messages) : messages'[k] = messages[k]
        /\ messages'[Len(messages) + 1] = [what |-> "result", task |-> u]
    BY <1>5, PostStep
  <2>2. j # Len(messages) + 1
    BY <2>1
  <2> QED BY <1>2, <1>3, <2>1, <2>2
<1>6. ASSUME NEW u \in Task, Publish(u) PROVE FALSE
  <2>1. /\ Len(messages') = Len(messages) + 1
        /\ \A k \in 1..Len(messages) : messages'[k] = messages[k]
        /\ messages'[Len(messages) + 1] = [what |-> "progress", task |-> u]
    BY <1>6, PostStep DEF Publish
  <2>2. i \in 1..Len(messages) /\ messages[i] = [what |-> "result", task |-> t]
    BY <1>2, <2>1
  <2>3. ByWorker(t)
    BY <1>0, <1>1, <2>2, FirstResult
  <2>4. u # t
    BY <1>6, <2>3 DEF Publish, ByWorker
  <2>5. j # Len(messages) + 1
    BY <2>1, <2>4
  <2> QED BY SMTT(60), <1>2, <1>3, <2>1, <2>2, <2>5
<1>7. CASE messages # << >> /\ messages' = Tail(messages)
  <2>1. Len(messages') = Len(messages) - 1 /\ \A k \in 1..Len(messages') : messages'[k] = messages[k + 1]
    BY <1>7, HandleStep
  <2>2. i + 1 \in 1..Len(messages) /\ j + 1 \in 1..Len(messages) /\ i + 1 < j + 1
    BY <1>2, <2>1
  <2> QED BY <1>3, <2>1, <2>2
<1> QED BY <1>4, <1>5, <1>6, <1>7, QueueStep

\* After the callback the worker has left the body, and what it published before its
\* result has been handled before it.
LEMMA UpdatesStep ==
  Types /\ IInv /\ [Next]_vars => UpdatesBeforeCallback'
<1> SUFFICES ASSUME Types, IInv, [Next]_vars,
                    NEW t \in Task, callbacks'[t] = 1, NEW i \in 1..Len(messages'),
                    messages'[i] = [what |-> "progress", task |-> t]
             PROVE  FALSE
  BY DEF UpdatesBeforeCallback
<1>0. Len(messages) \in Nat
  BY LenProperties DEF Types
<1>1. CASE callbacks[t] = 1
  <2>1. ByWorker(t) /\ \A k \in 1..Len(messages) : messages[k] # [what |-> "progress", task |-> t]
    BY <1>1 DEF IInv, CallbackInv, UpdatesBeforeCallback
  <2>2. CASE UNCHANGED messages
    BY <2>1, <2>2
  <2>3. ASSUME NEW u \in Task, Post("result", u) PROVE FALSE
    <3>1. /\ Len(messages') = Len(messages) + 1
          /\ \A k \in 1..Len(messages) : messages'[k] = messages[k]
          /\ messages'[Len(messages) + 1] = [what |-> "result", task |-> u]
      BY <2>3, PostStep
    <3> QED BY <1>0, <2>1, <3>1
  <2>4. ASSUME NEW u \in Task, Publish(u) PROVE FALSE
    <3>1. u # t /\ Post("progress", u)
      BY <2>1, <2>4 DEF Publish, ByWorker
    <3>2. /\ Len(messages') = Len(messages) + 1
          /\ \A k \in 1..Len(messages) : messages'[k] = messages[k]
          /\ messages'[Len(messages) + 1] = [what |-> "progress", task |-> u]
      BY <2>4, <3>1, PostStep
    <3> QED BY <1>0, <2>1, <3>1, <3>2
  <2>5. CASE messages # << >> /\ messages' = Tail(messages)
    BY <1>0, <2>1, <2>5, HandleStep
  <2> QED BY <2>2, <2>3, <2>4, <2>5, QueueStep
<1>2. CASE callbacks[t] # 1
  <2>1. Finish
    BY <1>2, HistoryStep DEF IInv
  <2>2. t = Head(messages).task /\ ~mCancelled[t]
    BY <1>2, <2>1 DEF Types, Finish, CallsBack
  <2>3. messages # << >> /\ messages' = Tail(messages) /\ Head(messages).what = "result"
    BY <2>1 DEF Finish
  <2>4. /\ Len(messages') = Len(messages) - 1
        /\ messages'[i] = messages[i + 1]
        /\ messages[1] = [what |-> "result", task |-> t]
    BY <2>2, <2>3, HandleStep DEF Message
  <2>5. 1 \in 1..Len(messages) /\ i + 1 \in 1..Len(messages) /\ 1 < i + 1
    BY <1>0, <2>4
  <2> QED BY <2>2, <2>4, <2>5 DEF IInv, ProgressInv
<1> QED BY <1>1, <1>2

-----------------------------------------------------------------------------
(* The theorems.                                                            *)

\* The types and the invariant hold at the start.
LEMMA InitInv == Init => Types /\ IInv
<1> SUFFICES ASSUME Init PROVE Types /\ IInv
  OBVIOUS
<1>1. Types
  BY AsyncTaskAssumption DEF Init, Types
<1>2. PoolInv /\ WorkInv /\ CancelInv /\ CallbackInv /\ ProgressInv /\ UpdatesBeforeCallback
  BY DEF Init, PoolInv, WorkInv, CancelInv, CallbackInv, ProgressInv, UpdatesBeforeCallback, Idle
<1>3. ResultInv
  <2>1. ASSUME NEW t \in Task PROVE Posted(t) = 0
    <3>1. ResultsIn(messages, t) = {}
      BY DEF Init, ResultsIn
    <3>2. ResultsToCome(t) = 0
      BY <3>1, FS_EmptySet DEF ResultsToCome, ResultsIn
    <3> QED BY <2>1, <3>2 DEF Init, Posted
  <2>2. \A t \in Task : ~ByWorker(t)
    BY DEF Init, ByWorker
  <2> QED BY <2>1, <2>2 DEF ResultInv
<1> QED BY <1>1, <1>2, <1>3 DEF IInv

\* Every step keeps the types and the invariant.
LEMMA InvStep == Types /\ IInv /\ [Next]_vars => Types' /\ IInv'
BY TypeStep, PoolStep, WorkStep, CancelStep, ResultStep, CallbackStep, ProgressStep, UpdatesStep
DEF IInv

\* The types and the invariant hold in every reachable state.
LEMMA Invariant == Spec => [](Types /\ IInv)
BY InitInv, InvStep, PTL DEF Spec

\* Every variable of the tasks, the pool and the Handler keeps its type, and no task is
\* finished more than twice, called back more than once or publishes past its bound.
THEOREM TypeCorrect == Spec => []TypeOK
<1>1. Types /\ IInv => TypeOK
  <2> SUFFICES ASSUME Types, IInv PROVE TypeOK
    OBVIOUS
  <2>1. ASSUME NEW t \in Task PROVE results[t] \in 0..2 /\ callbacks[t] \in 0..1
    <3>1. results[t] \in Nat /\ callbacks[t] \in Nat
      BY DEF Types
    <3>2. ResultsToCome(t) \in Nat
      BY ResultsToComeType
    <3>3. results[t] + ResultsToCome(t) <= 2 /\ callbacks[t] <= 1
      BY DEF IInv, ResultInv, CallbackInv, Posted
    <3> QED BY <3>1, <3>2, <3>3
  <2>2. results \in [Task -> 0..2] /\ callbacks \in [Task -> 0..1]
    BY <2>1 DEF Types
  <2> QED BY <2>2 DEF Types, TypeOK
<1> QED BY <1>1, Invariant, PTL

\* The script's callback is called at most once, and with a result that its
\* doInBackground returned, whoever cancels the task and whenever.
THEOREM CalledBackOnce == Spec => []CallbackOnce
<1>1. Types /\ IInv => CallbackOnce
  BY DEF Types, IInv, CallbackInv, CallbackOnce
<1> QED BY <1>1, Invariant, PTL

\* A second result is posted only after a cancel() that came between the commitment of
\* the FutureTask to the call and mTaskInvoked.set(true), and a third one never.
THEOREM TwoResultsOnlyByRace == Spec => []SecondResultNeedsCancel
<1>1. Types /\ IInv => SecondResultNeedsCancel
  <2> SUFFICES ASSUME Types, IInv, NEW t \in Task
               PROVE  Posted(t) <= 2 /\ (Posted(t) = 2 => raced[t])
    BY DEF SecondResultNeedsCancel, Posted
  <2>1. ByWorker(t) => mTaskInvoked[t]
    BY DEF IInv, WorkInv, ByWorker
  <2> QED BY <2>1 DEF IInv, ResultInv, ByCanceller
<1> QED BY <1>1, Invariant, PTL

\* Every update of the progress has been shown before the callback.
THEOREM UpdatesComeFirst == Spec => []UpdatesBeforeCallback
<1>1. IInv => UpdatesBeforeCallback
  BY DEF IInv
<1> QED BY <1>1, Invariant, PTL
=============================================================================
