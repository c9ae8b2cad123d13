------------------------------ MODULE TimerHeap ------------------------------
(***************************************************************************)
(* TimerX.TimerImpl.TimerHeap: the priority queue of a timer, a binary     *)
(* heap in an array.  Here a heap is the sequence of the array's first     *)
(* size elements, so that position i stands for index i - 1, and w is the  *)
(* field when of the tasks.                                                *)
(***************************************************************************)
EXTENDS Naturals, Sequences, SequencesExt

CONSTANT Task      \* the TimerTaskX objects

Parent(i) == i \div 2

Swap(h, i, j) == [h EXCEPT ![i] = h[j], ![j] = h[i]]

\* The smaller child of i; the left one when they are equal.
MinChild(h, w, i) ==
  IF 2 * i + 1 <= Len(h) /\ w[h[2 * i + 1]] < w[h[2 * i]] THEN 2 * i + 1 ELSE 2 * i

\* Loops are sequences of turns: s is the array and the position after some turns,
\* which a turn does not change once the loop's condition fails.  No loop has more
\* turns than there are elements.

\* One turn of upHeap: the element rises while it is earlier than its parent.
Rise(s, w) ==
  LET h == s.heap  i == s.at
  IN IF i > 1 /\ w[h[i]] < w[h[Parent(i)]]
       THEN [heap |-> Swap(h, i, Parent(i)), at |-> Parent(i)]
       ELSE s

UpHeap(h, w) ==
  LET turn[k \in 0..Len(h)] ==
        IF k = 0 THEN [heap |-> h, at |-> Len(h)] ELSE Rise(turn[k - 1], w)
  IN turn[Len(h)].heap

\* (a mutant of the next definition) It is compared with its left child only.
SinkLeftOnly(s, w) ==
  LET h == s.heap  i == s.at
  IN IF 2 * i > Len(h) \/ w[h[i]] < w[h[2 * i]]
       THEN s
       ELSE [heap |-> Swap(h, i, 2 * i), at |-> 2 * i]

\* One turn of downHeap: the element sinks until it is earlier than its children.
Sink(s, w) ==
  LET h == s.heap  i == s.at  child == MinChild(h, w, i)
  IN IF 2 * i > Len(h) \/ w[h[i]] < w[h[child]]
       THEN s
       ELSE [heap |-> Swap(h, i, child), at |-> child]

DownHeap(h, w, pos) ==
  LET turn[k \in 0..Len(h)] ==
        IF k = 0 THEN [heap |-> h, at |-> pos] ELSE Sink(turn[k - 1], w)
  IN turn[Len(h)].heap

Insert(h, w, t) == UpHeap(Append(h, t), w)

\* delete(pos): the last element takes the place of the deleted one and sinks.
Delete(h, w, pos) ==
  IF pos \in 1..Len(h)
    THEN DownHeap(Front([h EXCEPT ![pos] = Last(h)]), w, pos)
    ELSE h

\* getTask(task), or 0 for none.
GetTask(h, t) == IF \E i \in 1..Len(h) : h[i] = t
                   THEN CHOOSE i \in 1..Len(h) : h[i] = t /\ \A j \in 1..(i - 1) : h[j] # t
                   ELSE 0

\* (a mutant of the next definition) It goes on behind what was deleted.
SweepOnce(s, w, cancelled) ==
  LET h == s.heap  i == s.at
  IN IF i > Len(h) THEN s
     ELSE [heap |-> IF cancelled[h[i]] THEN Delete(h, w, i) ELSE h, at |-> i + 1]

\* One turn of deleteIfCancelled, which looks again where something was deleted.
Sweep(s, w, cancelled) ==
  LET h == s.heap  i == s.at
  IN IF i > Len(h) THEN s
     ELSE IF cancelled[h[i]] THEN [heap |-> Delete(h, w, i), at |-> i]
     ELSE [heap |-> h, at |-> i + 1]

DeleteIfCancelled(h, w, cancelled) ==
  LET turn[k \in 0..Len(h)] ==
        IF k = 0 THEN [heap |-> h, at |-> 1] ELSE Sweep(turn[k - 1], w, cancelled)
  IN turn[Len(h)].heap

\* No task is earlier than its parent: what makes minimum() the earliest.
IsHeap(h, w) == \A i \in 2..Len(h) : w[h[Parent(i)]] <= w[h[i]]

=============================================================================
