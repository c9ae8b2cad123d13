---------------------------- MODULE TimerQueue_proof ---------------------------
(***************************************************************************)
(* Theorems about TimerQueue, for any tasks and times: operations take out *)
(* what they should and nothing else, and without a purge the order is     *)
(* kept.                                                                   *)
(***************************************************************************)
EXTENDS TimerQueue, TimerHeap_proof

\* The tasks in the heap are there once, and have a time.
HeapInv ==
  /\ heap \in Seq(Task)
  /\ when \in [Task -> Nat]
  /\ IsInjective(heap)
  /\ \A t \in Elements : when[t] > 0

LEMMA ElementsAre ==
  ASSUME HeapInv
  PROVE  /\ Elements = ToSet(heap)
         /\ \A t \in Elements : t \in Task
         /\ heap # << >> => /\ Head(heap) \in Elements /\ Head(heap) \in Task
                            /\ 1 \in 1 .. Len(heap) /\ heap[1] = Head(heap)
<1>1. heap \in Seq(Task)
  BY DEF HeapInv
<1>2. Elements = ToSet(heap) /\ \A t \in Elements : t \in Task
  BY <1>1, Indices DEF Elements
<1>3. ASSUME heap # << >> PROVE 1 \in 1 .. Len(heap) /\ heap[1] = Head(heap)
  <2>1. Len(heap) \in Nat /\ Len(heap) # 0
    BY <1>1, <1>3
  <2> QED BY <1>1, <1>3, <2>1
<1> QED BY <1>2, <1>3 DEF Elements

LEMMA ElementsAreNext ==
  ASSUME heap' \in Seq(Task)
  PROVE  Elements' = ToSet(heap')
BY Indices DEF Elements

-----------------------------------------------------------------------------
(* The operations                                                           *)

\* A new task is added.
LEMMA ScheduleAdds ==
  ASSUME HeapInv, NEW w \in When, Schedule(w)
  PROVE  /\ HeapInv'
         /\ \E t \in Task : Elements' = Elements \union {t}
         /\ IsHeap(heap, when) => IsHeap(heap', when')
<1>1. PICK t \in Task : /\ when[t] = 0
                        /\ when' = [when EXCEPT ![t] = w]
                        /\ heap' = Insert(heap, when', t)
  BY DEF Schedule
<1>2. heap \in Seq(Task) /\ when \in [Task -> Nat] /\ IsInjective(heap)
  BY DEF HeapInv
<1>3. w \in Nat /\ w > 0
  BY TimerQueueAssumption
<1>4. when' \in [Task -> Nat] /\ when'[t] = w /\ \A u \in Task : u # t => when'[u] = when[u]
  BY <1>1, <1>2, <1>3
<1>5. t \notin ToSet(heap) /\ \A u \in ToSet(heap) : u \in Task /\ u # t
  BY <1>1, ElementsAre DEF HeapInv
<1>6. /\ heap' \in Seq(Task) /\ ToSet(heap') = ToSet(heap) \union {t} /\ IsInjective(heap')
      /\ IsHeap(heap, when') => IsHeap(heap', when')
  <2>1. ASSUME NEW v \in [Task -> Nat]
        PROVE  /\ Insert(heap, v, t) \in Seq(Task)
               /\ ToSet(Insert(heap, v, t)) = ToSet(heap) \union {t}
               /\ IsInjective(Insert(heap, v, t))
               /\ IsHeap(heap, v) => IsHeap(Insert(heap, v, t), v)
    BY ZenonT(60), <1>2, <1>5, InsertIs
  <2> QED BY <1>1, <1>4, <2>1
<1>7. IsHeap(heap, when) => IsHeap(heap, when')
  BY <1>2, <1>4, <1>5, OrderOfElements
<1>8. Elements = ToSet(heap) /\ Elements' = ToSet(heap')
  BY <1>6, ElementsAre, ElementsAreNext
<1>9. \A u \in Elements' : when'[u] > 0
  BY <1>3, <1>4, <1>5, <1>6, <1>8 DEF HeapInv
<1> QED BY <1>4, <1>6, <1>7, <1>8, <1>9 DEF HeapInv

\* The minimum is taken out.
LEMMA HeadTaken ==
  ASSUME HeapInv, heap # << >>
  PROVE  LET rest == Delete(heap, when, 1)
         IN /\ rest \in Seq(Task) /\ IsInjective(rest)
            /\ ToSet(rest) = Elements \ {Head(heap)}
            /\ IsHeap(heap, when) => IsHeap(rest, when)
<1>1. heap \in Seq(Task) /\ when \in [Task -> Nat] /\ IsInjective(heap)
  BY DEF HeapInv
<1>2. 1 \in 1 .. Len(heap) /\ heap[1] = Head(heap) /\ Elements = ToSet(heap)
  BY ElementsAre
<1> QED BY <1>1, <1>2, DeleteIs

LEMMA TakeMinimumTakes ==
  ASSUME HeapInv, TakeMinimum
  PROVE  /\ HeapInv'
         /\ Elements' = Elements \ {Head(heap)}
         /\ IsHeap(heap, when) => IsHeap(heap', when')
<1>1. heap # << >> /\ heap' = Delete(heap, when, 1) /\ when' = when
  BY DEF TakeMinimum
<1>2. /\ heap' \in Seq(Task) /\ IsInjective(heap')
      /\ ToSet(heap') = Elements \ {Head(heap)}
      /\ IsHeap(heap, when) => IsHeap(heap', when)
  BY <1>1, HeadTaken
<1>3. Elements' = ToSet(heap')
  BY <1>2, ElementsAreNext
<1>4. IsHeap(heap', when) => IsHeap(heap', when')
  BY <1>1
<1> QED BY <1>1, <1>2, <1>3, <1>4 DEF HeapInv

\* A recurring task goes back in.
LEMMA RequeueKeeps ==
  ASSUME HeapInv, NEW w \in When, Requeue(w)
  PROVE  /\ HeapInv'
         /\ Elements' = Elements
         /\ IsHeap(heap, when) => IsHeap(heap', when')
<1> DEFINE rest == Delete(heap, when, 1)
<1>1. heap # << >>
  BY DEF Requeue
<1>2. PICK t \in Task : t = Head(heap)
  BY <1>1, ElementsAre
<1>3. when' = [when EXCEPT ![t] = w] /\ heap' = Insert(rest, when', t)
  BY <1>2 DEF Requeue
<1>4. /\ rest \in Seq(Task) /\ IsInjective(rest)
      /\ ToSet(rest) = Elements \ {t}
      /\ IsHeap(heap, when) => IsHeap(rest, when)
  BY <1>1, <1>2, HeadTaken
<1> HIDE DEF rest
<1>5. w \in Nat /\ w > 0
  BY TimerQueueAssumption
<1>6. when' \in [Task -> Nat] /\ when'[t] = w /\ \A u \in Task : u # t => when'[u] = when[u]
  BY <1>3, <1>5 DEF HeapInv
<1>7. \A u \in ToSet(rest) : when[u] = when'[u]
  BY <1>4, <1>6, ElementsAre
<1>8. IsHeap(rest, when) => IsHeap(rest, when')
  BY <1>4, <1>7, OrderOfElements
<1>9. /\ heap' \in Seq(Task) /\ ToSet(heap') = ToSet(rest) \union {t} /\ IsInjective(heap')
      /\ IsHeap(rest, when') => IsHeap(heap', when')
  <2>1. t \notin ToSet(rest)
    BY <1>4
  <2>2. ASSUME NEW v \in [Task -> Nat]
        PROVE  /\ Insert(rest, v, t) \in Seq(Task)
               /\ ToSet(Insert(rest, v, t)) = ToSet(rest) \union {t}
               /\ IsInjective(Insert(rest, v, t))
               /\ IsHeap(rest, v) => IsHeap(Insert(rest, v, t), v)
    BY <1>4, <2>1, InsertIs
  <2> QED BY <1>3, <1>6, <2>2
<1>10. Elements' = Elements
  BY <1>1, <1>2, <1>4, <1>9, ElementsAre, ElementsAreNext
<1>11. \A u \in Elements' : when'[u] > 0
  BY <1>5, <1>6, <1>10, ElementsAre DEF HeapInv
<1> QED BY <1>4, <1>6, <1>8, <1>9, <1>10, <1>11 DEF HeapInv

\* A purge takes out the cancelled tasks.
LEMMA PurgeTakes ==
  ASSUME HeapInv, Purge
  PROVE  HeapInv' /\ Elements' = Elements \ cancelled
<1> DEFINE c == [t \in Task |-> t \in cancelled]
<1>1. heap \in Seq(Task) /\ when \in [Task -> Nat] /\ IsInjective(heap)
  BY DEF HeapInv
<1>2. heap' = DeleteIfCancelled(heap, when, c) /\ when' = when
  BY DEF Purge
<1>3. \A t \in Task : c[t] <=> t \in cancelled
  OBVIOUS
<1> HIDE DEF c
<1>4. /\ heap' \in Seq(Task) /\ IsInjective(heap')
      /\ ToSet(heap') = {t \in ToSet(heap) : ~ c[t]}
  BY <1>1, <1>2, DeleteIfCancelledIs
<1>5. Elements' = Elements \ cancelled
  BY <1>3, <1>4, ElementsAre, ElementsAreNext
<1> QED BY <1>1, <1>2, <1>4, <1>5 DEF HeapInv

-----------------------------------------------------------------------------
(* The theorems                                                             *)

LEMMA HeapInvHolds == Spec => []HeapInv
<1>1. Init => HeapInv
  <2> SUFFICES ASSUME Init PROVE HeapInv
    OBVIOUS
  <2>1. heap \in Seq(Task) /\ Len(heap) = 0 /\ 1 .. 0 = {} /\ when \in [Task -> Nat]
    BY DEF Init
  <2>2. Elements = {} /\ IsInjective(heap)
    BY <2>1, Indices DEF Elements
  <2> QED BY <2>1, <2>2 DEF HeapInv
<1>2. HeapInv /\ [Next]_vars => HeapInv'
  <2> SUFFICES ASSUME HeapInv, [Next]_vars PROVE HeapInv'
    OBVIOUS
  <2>1. CASE \E t \in Task : Cancel(t)
    BY <2>1 DEF Cancel, HeapInv, Elements
  <2>2. CASE UNCHANGED vars
    BY <2>2 DEF vars, HeapInv, Elements
  <2> QED BY <2>1, <2>2, ScheduleAdds, TakeMinimumTakes, RequeueKeeps, PurgeTakes DEF Next
<1> QED BY <1>1, <1>2, PTL DEF Spec

\* An operation takes out the earliest task, or for a purge every cancelled one, and
\* leaves all the others in.
THEOREM NothingElseTaken == Spec => KeepsTheRest
<1>1. HeapInv /\ Next => Elements \ Elements' = gone'
  <2> SUFFICES ASSUME HeapInv, Next PROVE Elements \ Elements' = gone'
    OBVIOUS
  <2>1. ASSUME NEW w \in When, Schedule(w) PROVE Elements \ Elements' = gone'
    BY <2>1, ScheduleAdds DEF Schedule
  <2>2. ASSUME NEW w \in When, Requeue(w) PROVE Elements \ Elements' = gone'
    BY <2>2, RequeueKeeps DEF Requeue
  <2>3. CASE TakeMinimum
    BY <2>3, TakeMinimumTakes, ElementsAre DEF TakeMinimum
  <2>4. CASE \E t \in Task : Cancel(t)
    BY <2>4 DEF Cancel, Elements
  <2>5. CASE Purge
    BY <2>5, PurgeTakes DEF Purge
  <2> QED BY <2>1, <2>2, <2>3, <2>4, <2>5 DEF Next
<1>2. HeapInv /\ [Next]_vars => [Elements \ Elements' = gone']_vars
  BY <1>1
<1> QED BY <1>2, HeapInvHolds, PTL DEF Spec, KeepsTheRest

\* Without a purge the array stays a heap of tasks that have a time, each once.
THEOREM QueueStaysOrdered == Spec /\ [][~Purge]_vars => []IsQueue
<1>1. Init => IsHeap(heap, when)
  <2> SUFFICES ASSUME Init PROVE IsHeap(heap, when)
    OBVIOUS
  <2>1. heap = << >>
    BY DEF Init
  <2> QED BY <2>1 DEF IsHeap
<1>2. HeapInv /\ IsHeap(heap, when) /\ [Next]_vars /\ [~Purge]_vars => IsHeap(heap, when)'
  <2> SUFFICES ASSUME HeapInv, IsHeap(heap, when), [Next]_vars, [~Purge]_vars
               PROVE  IsHeap(heap', when')
    OBVIOUS
  <2>1. CASE \E t \in Task : Cancel(t)
    BY <2>1 DEF Cancel
  <2>2. CASE UNCHANGED vars
    BY <2>2 DEF vars
  <2> QED BY <2>1, <2>2, ScheduleAdds, TakeMinimumTakes, RequeueKeeps DEF Next
<1>3. HeapInv /\ IsHeap(heap, when) => IsQueue
  <2> SUFFICES ASSUME HeapInv, IsHeap(heap, when) PROVE IsQueue
    OBVIOUS
  <2>1. \A i, j \in 1 .. Len(heap) : heap[i] = heap[j] => i = j
    BY Indices DEF HeapInv
  <2>2. \A t \in Elements : t \in Task /\ when[t] > 0
    BY ElementsAre DEF HeapInv
  <2> QED BY <2>1, <2>2 DEF IsQueue
<1> QED BY <1>1, <1>2, <1>3, HeapInvHolds, PTL DEF Spec

\* Without a purge minimum() is the earliest task.
THEOREM MinimumStaysEarliest == Spec /\ [][~Purge]_vars => []MinimumIsEarliest
<1>1. HeapInv /\ IsQueue => MinimumIsEarliest
  BY HeadIsEarliest, ElementsAre DEF HeapInv, IsQueue, MinimumIsEarliest
<1> QED BY <1>1, QueueStaysOrdered, HeapInvHolds, PTL
=============================================================================
