----------------------------- MODULE TimerQueue -----------------------------
(***************************************************************************)
(* The priority queue of a timer as its users see it: tasks are inserted   *)
(* with a time, the earliest is taken, tasks in it are cancelled and purge *)
(* deletes those.  The timer holds its monitor over each operation, so the *)
(* operations come one after another; what is checked is that the array    *)
(* (TimerHeap) stays a queue ordered by time, whatever their order.        *)
(***************************************************************************)
EXTENDS TimerHeap

CONSTANT When      \* the times tasks are scheduled for

ASSUME TimerQueueAssumption == Task \subseteq Nat \ {0} /\ When \subseteq Nat \ {0}

VARIABLES
  heap,        \* TimerHeap.timers, its first size elements
  when,        \* of each task, 0 for one that was never inserted
  cancelled,   \* the cancelled tasks
  gone         \* the tasks the last operation had to take out

vars == <<heap, when, cancelled, gone>>

Elements == {heap[i] : i \in 1..Len(heap)}

Init ==
  /\ heap = << >>
  /\ when = [t \in Task |-> 0]
  /\ cancelled = {}
  /\ gone = {}

\* scheduleImpl makes the entry; tasks are new objects, taken in a fixed order.
Schedule(w) ==
  \E t \in Task :
    /\ when[t] = 0
    /\ \A u \in Task : u < t => when[u] # 0
    /\ when' = [when EXCEPT ![t] = w]
    /\ heap' = Insert(heap, when', t)
    /\ gone' = {}
    /\ UNCHANGED cancelled

\* run() looks at minimum() and launches it, or finds it cancelled: delete(0).
TakeMinimum ==
  /\ heap # << >>
  /\ heap' = Delete(heap, when, 1)
  /\ gone' = {Head(heap)}
  /\ UNCHANGED <<when, cancelled>>

\* run() launches a recurring task: delete(0), then insert with the next time.
Requeue(w) ==
  /\ heap # << >>
  /\ LET t == Head(heap)
     IN /\ w > when[t]
        /\ when' = [when EXCEPT ![t] = w]
        /\ heap' = Insert(Delete(heap, when, 1), when', t)
  /\ gone' = {}
  /\ UNCHANGED cancelled

Cancel(t) ==
  /\ t \in Elements \ cancelled
  /\ cancelled' = cancelled \union {t}
  /\ gone' = {}
  /\ UNCHANGED <<heap, when>>

Purge ==
  /\ heap' = DeleteIfCancelled(heap, when, [t \in Task |-> t \in cancelled])
  /\ gone' = Elements \intersect cancelled
  /\ UNCHANGED <<when, cancelled>>

Next ==
  \/ \E w \in When : Schedule(w) \/ Requeue(w)
  \/ TakeMinimum
  \/ \E t \in Task : Cancel(t)
  \/ Purge

Spec == Init /\ [][Next]_vars

-----------------------------------------------------------------------------
(* Properties                                                               *)

\* The array holds tasks that were inserted, each once, in heap order: a task
\* is never earlier than the one at its parent's index.
IsQueue ==
  /\ Elements \subseteq {t \in Task : when[t] > 0}
  /\ \A i, j \in 1..Len(heap) : heap[i] = heap[j] => i = j
  /\ IsHeap(heap, when)

\* minimum() is the earliest task of the queue: "scheduled events, sorted according
\* to when field" (TimerX.java:180).
MinimumIsEarliest ==
  heap # << >> => \A t \in Elements : when[Head(heap)] <= when[t]

\* Nothing is lost and nothing stays: an operation takes out the earliest task, or
\* for a purge every cancelled one, and leaves all the others in.
KeepsTheRest == [][Elements \ Elements' = gone']_vars
=============================================================================
