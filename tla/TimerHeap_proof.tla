---------------------------- MODULE TimerHeap_proof ----------------------------
(***************************************************************************)
(* Theorems about the heap of a timer: what inserting, deleting and        *)
(* purging do to the tasks in it and to their order, for heaps of any size.*)
(***************************************************************************)
EXTENDS TimerHeap, SequenceTheorems, WellFoundedInduction, TLAPS

-----------------------------------------------------------------------------
(* Loops.                                                                   *)

\* A set of natural numbers has a least one.
LEMMA LeastNumber ==
  ASSUME NEW S \in SUBSET Nat, S # {}
  PROVE  \E n \in S : \A m \in S : n <= m
<1> DEFINE R == {ss \in Nat \X Nat : ss[1] < ss[2]}
<1>1. IsWellFoundedOn(R, Nat)
  BY NatLessThanWellFounded DEF OpToRel
<1>2. PICK n \in S : \A m \in S : ~ (<<m, n>> \in R)
  <2> HIDE DEF R
  <2> QED BY <1>1, WFMin
<1>3. ASSUME NEW m \in S PROVE n <= m
  <2>1. m \in Nat /\ n \in Nat /\ <<m, n>> \in Nat \X Nat
    BY <1>3
  <2>2. ~ (m < n)
    <3>1. ASSUME m < n PROVE <<m, n>> \in R
      BY <2>1, <3>1
    <3> QED BY <1>2, <1>3, <3>1
  <2> QED BY <2>1, <2>2
<1> QED BY <1>3

\* What holds before the first turn and after a turn if before it, holds after n.
LEMMA Induction ==
  ASSUME NEW n \in Nat, NEW P, 0 \in P,
         \A k \in 1 .. n : k - 1 \in P => k \in P
  PROVE  \A k \in 0 .. n : k \in P
<1> DEFINE Bad == {k \in 0 .. n : k \notin P}
<1>1. SUFFICES ASSUME Bad # {} PROVE FALSE
  OBVIOUS
<1>2. PICK k \in Bad : \A m \in Bad : k <= m
  <2>1. Bad \in SUBSET Nat
    OBVIOUS
  <2> HIDE DEF Bad
  <2> QED BY <1>1, <2>1, LeastNumber
<1>3. k \in 0 .. n /\ k \notin P /\ k # 0
  OBVIOUS
<1>4. k \in 1 .. n /\ k - 1 \in 0 .. n /\ ~ (k <= k - 1)
  BY <1>3
<1>5. k - 1 \in P
  BY <1>2, <1>4
<1> QED BY <1>3, <1>4, <1>5

\* f is what a loop of n turns from x in a set S goes through.
IsLoop(f, n, S, x, step) ==
  f \in [0 .. n -> S] /\ f[0] = x /\ \A k \in 1 .. n : f[k] = step[f[k - 1]]

\* A loop whose turns do not leave the set has a course.
LEMMA LoopExists ==
  ASSUME NEW n \in Nat, NEW S, NEW x \in S, NEW step \in [S -> S]
  PROVE  \E f : IsLoop(f, n, S, x, step)
<1> DEFINE P == {m \in 0 .. n : \E f \in [0 .. m -> S] :
                                  f[0] = x /\ \A k \in 1 .. m : f[k] = step[f[k - 1]]}
<1>1. 0 \in P
  <2>1. [k \in 0 .. 0 |-> x] \in [0 .. 0 -> S] /\ [k \in 0 .. 0 |-> x][0] = x
    OBVIOUS
  <2>2. 0 \in 0 .. n /\ 1 .. 0 = {}
    OBVIOUS
  <2>3. \E f \in [0 .. 0 -> S] : f[0] = x /\ \A k \in 1 .. 0 : f[k] = step[f[k - 1]]
    BY <2>1, <2>2
  <2> QED BY <2>2, <2>3
<1>2. ASSUME NEW m \in 1 .. n, m - 1 \in P PROVE m \in P
  <2>1. m \in Nat /\ m # 0 /\ m \in 0 .. n
    OBVIOUS
  <2>2. PICK f \in [0 .. (m - 1) -> S] :
          f[0] = x /\ \A k \in 1 .. (m - 1) : f[k] = step[f[k - 1]]
    BY <1>2
  <2> DEFINE g == [k \in 0 .. m |-> IF k = m THEN step[f[m - 1]] ELSE f[k]]
  <2>3. m - 1 \in 0 .. (m - 1) /\ \A k \in 0 .. m : k # m => k \in 0 .. (m - 1)
    BY <2>1
  <2>4. g \in [0 .. m -> S]
    BY <2>2, <2>3
  <2>5. g[0] = x
    BY <2>1, <2>2
  <2>6. ASSUME NEW k \in 1 .. m PROVE g[k] = step[g[k - 1]]
    <3>1. k \in 0 .. m /\ k - 1 \in 0 .. m /\ k - 1 # m /\ (k # m => k \in 1 .. (m - 1))
      BY <2>1
    <3>2. g[k - 1] = f[k - 1]
      BY <3>1
    <3>3. g[k] = IF k = m THEN step[f[m - 1]] ELSE f[k]
      BY <3>1
    <3> QED BY <2>2, <3>1, <3>2, <3>3
  <2> HIDE DEF g
  <2> QED BY <2>1, <2>4, <2>5, <2>6
<1>3. n \in 0 .. n
  OBVIOUS
<1>4. n \in P
  <2> HIDE DEF P
  <2> QED BY <1>1, <1>2, <1>3, Induction
<1> QED BY <1>4 DEF IsLoop

-----------------------------------------------------------------------------
(* Elements.                                                                *)

\* g has the elements of h, each as often where h has each once.
Same(g, h) ==
  /\ g \in Seq(Task)
  /\ Len(g) = Len(h)
  /\ ToSet(g) = ToSet(h)
  /\ IsInjective(h) => IsInjective(g)

\* ToSet and IsInjective by indices.
LEMMA Indices ==
  ASSUME NEW h \in Seq(Task)
  PROVE  /\ Len(h) \in Nat
         /\ \A i \in 1 .. Len(h) : h[i] \in Task
         /\ ToSet(h) = {h[i] : i \in 1 .. Len(h)}
         /\ IsInjective(h) <=> \A i, j \in 1 .. Len(h) : h[i] = h[j] => i = j
<1>1. DOMAIN h = 1 .. Len(h)
  OBVIOUS
<1> QED BY <1>1 DEF ToSet, IsInjective

\* A sequence is given by its length and elements.
LEMMA IsSeq ==
  ASSUME NEW n \in Nat, NEW f, f \in [1 .. n -> Task]
  PROVE  f \in Seq(Task) /\ Len(f) = n
OBVIOUS

\* Two elements change places.
LEMMA SwapIs ==
  ASSUME NEW h \in Seq(Task), NEW i \in 1 .. Len(h), NEW j \in 1 .. Len(h)
  PROVE  /\ Same(Swap(h, i, j), h)
         /\ \A k \in 1 .. Len(h) :
              Swap(h, i, j)[k] = IF k = j THEN h[i] ELSE IF k = i THEN h[j] ELSE h[k]
<1> DEFINE g == Swap(h, i, j)
    n == Len(h)
<1>1. n \in Nat /\ h \in [1 .. n -> Task]
  OBVIOUS
<1>2. g \in [1 .. n -> Task]
  BY <1>1 DEF Swap
<1>3. \A k \in 1 .. n : g[k] = IF k = j THEN h[i] ELSE IF k = i THEN h[j] ELSE h[k]
  BY <1>1 DEF Swap
<1> HIDE DEF g, n
<1>4. g \in Seq(Task) /\ Len(g) = n
  BY <1>1, <1>2, IsSeq
<1>5. \A k \in 1 .. n : \E m \in 1 .. n : g[k] = h[m]
  BY <1>3 DEF n
<1>6. \A k \in 1 .. n : \E m \in 1 .. n : h[k] = g[m]
  BY <1>3 DEF n
<1>7. ToSet(g) = ToSet(h)
  <2>1. ToSet(g) = {g[k] : k \in 1 .. n} /\ ToSet(h) = {h[k] : k \in 1 .. n}
    BY <1>4, Indices DEF n
  <2> QED BY ZenonT(60), <2>1, <1>5, <1>6
<1>8. ASSUME IsInjective(h) PROVE IsInjective(g)
  <2>1. \A k, m \in 1 .. n : h[k] = h[m] => k = m
    BY <1>8, Indices DEF n
  <2>2. \A k, m \in 1 .. n : g[k] = g[m] => k = m
    BY <2>1, <1>3 DEF n
  <2> QED BY <2>2, <1>4, Indices
<1> QED BY <1>3, <1>4, <1>7, <1>8 DEF g, n, Same

LEMMA SameIsTransitive ==
  ASSUME NEW f, NEW g, NEW h, Same(f, g), Same(g, h)
  PROVE  Same(f, h)
BY DEF Same

LEMMA SameAsItself ==
  ASSUME NEW h \in Seq(Task)
  PROVE  Same(h, h)
BY DEF Same

\* The parent of a position, and its children.
LEMMA ParentIs ==
  ASSUME NEW i \in Nat, i > 1
  PROVE  /\ Parent(i) \in Nat /\ Parent(i) >= 1 /\ Parent(i) < i
         /\ i = 2 * Parent(i) \/ i = 2 * Parent(i) + 1
BY DEF Parent

LEMMA ChildrenAre ==
  ASSUME NEW i \in Nat \ {0}
  PROVE  Parent(2 * i) = i /\ Parent(2 * i + 1) = i
BY DEF Parent

-----------------------------------------------------------------------------
(* upHeap.                                                                  *)

RiseState == {s \in [heap : Seq(Task), at : Nat \ {0}] : s.at <= Len(s.heap)}

\* upHeap has come to its end.
Risen(s, w) == ~ (s.at > 1 /\ w[s.heap[s.at]] < w[s.heap[Parent(s.at)]])

\* The heap is in order but for the element that rises, and its children are not
\* earlier than its parent.
Rising(s, w) ==
  /\ \A i \in 2 .. Len(s.heap) :
       i # s.at => w[s.heap[Parent(i)]] <= w[s.heap[i]]
  /\ s.at > 1 => \A i \in 2 .. Len(s.heap) :
       Parent(i) = s.at => w[s.heap[Parent(s.at)]] <= w[s.heap[i]]

\* One turn of upHeap.
LEMMA RiseIs ==
  ASSUME NEW w \in [Task -> Nat], NEW s \in RiseState
  PROVE  /\ Rise(s, w) \in RiseState
         /\ Same(Rise(s, w).heap, s.heap)
         /\ Rising(s, w) => Rising(Rise(s, w), w)
         /\ Risen(s, w) => Rise(s, w) = s
         /\ ~ Risen(s, w) => Rise(s, w).at < s.at
<1> DEFINE h == s.heap
    i == s.at
    p == Parent(i)
    n == Len(h)
<1>1. h \in Seq(Task) /\ n \in Nat /\ i \in Nat /\ i > 0 /\ i <= n
  BY DEF RiseState
<1>2. CASE Risen(s, w)
  <2>1. Rise(s, w) = s
    BY <1>2 DEF Risen, Rise
  <2> QED BY <1>1, <1>2, <2>1, SameAsItself
<1>3. CASE ~ Risen(s, w)
  <2> DEFINE g == Swap(h, i, p)
  <2>1. i > 1 /\ w[h[i]] < w[h[p]] /\ Rise(s, w) = [heap |-> g, at |-> p]
    BY <1>3 DEF Risen, Rise
  <2>2. p \in Nat /\ p >= 1 /\ p < i
    BY <1>1, <2>1, ParentIs
  <2>3. i \in 1 .. n /\ p \in 1 .. n
    BY <1>1, <2>1, <2>2
  <2>4. Same(g, h) /\ \A k \in 1 .. n : g[k] = IF k = p THEN h[i] ELSE IF k = i THEN h[p] ELSE h[k]
    BY <1>1, <2>3, SwapIs
  <2>5. g \in Seq(Task) /\ Len(g) = n
    BY <2>4 DEF Same
  <2> HIDE DEF g
  <2>6. Rise(s, w) \in RiseState
    BY <1>1, <2>1, <2>2, <2>5 DEF RiseState
  <2>7. ASSUME Rising(s, w) PROVE Rising(Rise(s, w), w)
    <3>1. \A k \in 2 .. n : k # i => w[h[Parent(k)]] <= w[h[k]]
      BY <2>7 DEF Rising
    <3>2. \A k \in 2 .. n : Parent(k) = i => w[h[p]] <= w[h[k]]
      BY <2>7, <2>1 DEF Rising
    <3>3. \A k \in 1 .. n : w[h[k]] \in Nat
      <4> HIDE DEF h, n
      <4> QED BY <1>1, Indices DEF n
    <3>4. \A k \in 2 .. n : k \in 1 .. n /\ Parent(k) \in 1 .. n /\ Parent(k) < k
      <4>1. ASSUME NEW k \in 2 .. n PROVE k \in 1 .. n /\ Parent(k) \in 1 .. n /\ Parent(k) < k
        <5>1. k \in Nat /\ k > 1 /\ k <= n
          BY <1>1
        <5>2. Parent(k) \in Nat /\ Parent(k) >= 1 /\ Parent(k) < k
          BY <5>1, ParentIs
        <5> QED BY <1>1, <5>1, <5>2
      <4> QED BY <4>1
    <3>5. ASSUME NEW k \in 2 .. n, k # p PROVE w[g[Parent(k)]] <= w[g[k]]
      <4> DEFINE q == Parent(k)
      <4>1. k \in 1 .. n /\ q \in 1 .. n /\ q < k
        BY <3>4
      <4>2. w[h[k]] \in Nat /\ w[h[q]] \in Nat /\ w[h[i]] \in Nat /\ w[h[p]] \in Nat
        BY <3>3, <4>1, <2>3
      <4>3. g[k] = (IF k = i THEN h[p] ELSE h[k])
            /\ g[q] = (IF q = p THEN h[i] ELSE IF q = i THEN h[p] ELSE h[q])
        BY <2>4, <4>1, <3>5
      <4>4. CASE k = i
        BY <4>2, <4>3, <4>4, <2>1
      <4>5. CASE k # i /\ q = i
        BY <4>2, <4>3, <4>5, <2>2, <3>2
      <4>6. CASE k # i /\ q # i
        <5>1. w[h[q]] <= w[h[k]]
          BY <4>6, <3>1
        <5>2. g[k] = h[k]
          BY <4>3, <4>6
        <5>3. g[q] = h[i] \/ g[q] = h[q]
          BY <4>3, <4>6
        <5>4. q = p => g[q] = h[i]
          BY <4>3
        <5>5. CASE q = p
          BY <5>1, <5>2, <5>4, <5>5, <4>2, <2>1
        <5>6. CASE q # p
          BY <5>1, <5>2, <5>6, <4>3, <4>6
        <5> QED BY <5>5, <5>6
      <4> QED BY <4>4, <4>5, <4>6
    <3>6. ASSUME p > 1, NEW k \in 2 .. n, Parent(k) = p PROVE w[g[Parent(p)]] <= w[g[k]]
      <4> DEFINE q == Parent(p)
      <4>1. p \in 2 .. n
        BY <1>1, <2>2, <2>3, <3>6
      <4>2. q \in 1 .. n /\ q < p /\ k \in 1 .. n /\ p < k
        BY <4>1, <3>4, <3>6
      <4>3. w[h[k]] \in Nat /\ w[h[q]] \in Nat /\ w[h[i]] \in Nat /\ w[h[p]] \in Nat
        BY <3>3, <4>2, <2>3
      <4>4. w[h[q]] <= w[h[p]]
        BY <4>1, <3>1, <2>2
      <4>5. g[q] = h[q]
        BY <2>4, <4>2, <2>2
      <4>6. g[k] = IF k = i THEN h[p] ELSE h[k]
        BY <2>4, <4>2, <2>2
      <4>7. k # i => w[h[p]] <= w[h[k]]
        BY <3>1, <3>6
      <4> HIDE DEF q
      <4>8. w[h[q]] <= w[g[k]]
        BY <4>3, <4>4, <4>6, <4>7
      <4> QED BY <4>5, <4>8 DEF q
    <3> HIDE DEF p, n
    <3> QED BY <2>1, <2>5, <3>5, <3>6 DEF Rising
  <2> QED BY <1>3, <2>1, <2>2, <2>4, <2>6, <2>7
<1> QED BY <1>2, <1>3

\* The turns of upHeap, from the one that ends with nothing done.
LEMMA UpHeapTurns ==
  ASSUME NEW w \in [Task -> Nat], NEW h \in Seq(Task), h # << >>
  PROVE  \E f : /\ f[0] = [heap |-> h, at |-> Len(h)]
                /\ \A k \in 1 .. Len(h) : f[k] = Rise(f[k - 1], w)
                /\ UpHeap(h, w) = f[Len(h)].heap
<1> DEFINE n == Len(h)
    x == [heap |-> h, at |-> n]
    step == [s \in RiseState |-> Rise(s, w)]
    Loop(f) == f = [k \in 0 .. n |-> IF k = 0 THEN x ELSE Rise(f[k - 1], w)]
<1>1. n \in Nat /\ n # 0
  OBVIOUS
<1>2. x \in RiseState
  BY <1>1 DEF RiseState
<1>3. step \in [RiseState -> RiseState]
  BY RiseIs
<1>4. \E f : Loop(f)
  <2>1. PICK f \in [0 .. n -> RiseState] : f[0] = x /\ \A k \in 1 .. n : f[k] = step[f[k - 1]]
    <3> HIDE DEF n, x, step
    <3>1. \E f : IsLoop(f, n, RiseState, x, step)
      BY <1>1, <1>2, <1>3, LoopExists
    <3> QED BY <3>1 DEF IsLoop
  <2>2. ASSUME NEW k \in 0 .. n, k # 0 PROVE f[k] = Rise(f[k - 1], w)
    <3>1. k \in 1 .. n /\ k - 1 \in 0 .. n
      BY <1>1, <2>2
    <3> QED BY <2>1, <3>1
  <2>3. Loop(f)
    BY <2>1, <2>2
  <2> QED BY <2>3
<1> DEFINE turn == CHOOSE f : Loop(f)
<1>5. Loop(turn)
  <2> HIDE DEF Loop
  <2> QED BY <1>4
<1>6. UpHeap(h, w) = turn[n].heap
  BY DEF UpHeap
<1> HIDE DEF turn
<1>7. turn[0] = x /\ \A k \in 1 .. n : turn[k] = Rise(turn[k - 1], w)
  BY <1>1, <1>5
<1> QED BY <1>6, <1>7

\* upHeap moves the elements about, and sets in order a heap with an element added.
LEMMA UpHeapIs ==
  ASSUME NEW w \in [Task -> Nat], NEW h \in Seq(Task), h # << >>
  PROVE  /\ Same(UpHeap(h, w), h)
         /\ Rising([heap |-> h, at |-> Len(h)], w) => IsHeap(UpHeap(h, w), w)
<1> DEFINE n == Len(h)
    x == [heap |-> h, at |-> n]
<1>1. n \in Nat /\ n # 0 /\ x \in RiseState
  BY DEF RiseState
<1>2. PICK f : /\ f[0] = x
               /\ \A k \in 1 .. n : f[k] = Rise(f[k - 1], w)
               /\ UpHeap(h, w) = f[n].heap
  BY UpHeapTurns
<1> DEFINE Good(k) ==
      /\ f[k] \in RiseState
      /\ Same(f[k].heap, h)
      /\ Rising(x, w) => Rising(f[k], w)
      /\ Risen(f[k], w) \/ f[k].at <= n - k
    P == {k \in 0 .. n : Good(k)}
<1>3. Good(0)
  BY <1>1, <1>2, SameAsItself
<1>4. ASSUME NEW k \in 1 .. n, Good(k - 1) PROVE Good(k)
  <2>1. k \in Nat /\ k - 1 \in Nat
    BY <1>1
  <2> DEFINE s == f[k - 1]
  <2>2. f[k] = Rise(s, w)
    BY <1>2
  <2>3. s \in RiseState /\ Same(s.heap, h) /\ (Rising(x, w) => Rising(s, w))
        /\ (Risen(s, w) \/ s.at <= n - (k - 1))
    BY <1>4
  <2> HIDE DEF s
  <2>4. /\ Rise(s, w) \in RiseState
        /\ Same(Rise(s, w).heap, s.heap)
        /\ Rising(s, w) => Rising(Rise(s, w), w)
        /\ Risen(s, w) => Rise(s, w) = s
        /\ ~ Risen(s, w) => Rise(s, w).at < s.at
    BY <2>3, RiseIs
  <2>5. Same(f[k].heap, h)
    BY <2>2, <2>3, <2>4, SameIsTransitive
  <2>6. Risen(f[k], w) \/ f[k].at <= n - k
    <3>1. s.at \in Nat /\ Rise(s, w).at \in Nat
      BY <2>3, <2>4 DEF RiseState
    <3>2. CASE Risen(s, w)
      BY <2>2, <2>4, <3>2
    <3>3. CASE ~ Risen(s, w)
      BY <2>1, <2>2, <2>3, <2>4, <3>1, <3>3, <1>1
    <3> QED BY <3>2, <3>3
  <2> QED BY <2>2, <2>3, <2>4, <2>5, <2>6
<1>5. Good(n)
  <2>1. 0 \in P /\ \A k \in 1 .. n : k - 1 \in P => k \in P
    <3>1. \A k \in 1 .. n : k \in 0 .. n
      BY <1>1
    <3>2. 0 \in 0 .. n
      BY <1>1
    <3> HIDE DEF Good
    <3> QED BY <1>3, <1>4, <3>1, <3>2
  <2>2. n \in 0 .. n
    BY <1>1
  <2>3. n \in P
    <3> HIDE DEF P, n
    <3> QED BY <1>1, <2>1, <2>2, Induction
  <2> QED BY <2>3
<1> DEFINE e == f[n]
<1>6. Risen(e, w)
  <2>1. e.at \in Nat /\ e.at > 0
    BY <1>5 DEF RiseState
  <2> QED BY <1>1, <1>5, <2>1
<1>7. ASSUME Rising(x, w) PROVE IsHeap(e.heap, w)
  <2>1. Rising(e, w) /\ e \in RiseState
    BY <1>5, <1>7
  <2> HIDE DEF e
  <2>2. ASSUME NEW i \in 2 .. Len(e.heap) PROVE w[e.heap[Parent(i)]] <= w[e.heap[i]]
    <3>1. CASE i # e.at
      BY <2>1, <3>1 DEF Rising
    <3>2. CASE i = e.at
      <4> DEFINE g == e.heap
      <4>1. g \in Seq(Task) /\ i \in Nat /\ i > 1 /\ i \in 1 .. Len(g) /\ Len(g) \in Nat
        BY <2>1 DEF RiseState
      <4>2. Parent(i) \in 1 .. Len(g)
        BY <4>1, ParentIs
      <4> HIDE DEF g
      <4>3. w[g[i]] \in Nat /\ w[g[Parent(i)]] \in Nat
        BY <4>1, <4>2, Indices
      <4>4. ~ (w[g[i]] < w[g[Parent(i)]])
        BY <1>6, <3>2, <4>1 DEF Risen, g
      <4> QED BY <4>3, <4>4 DEF g
    <3> QED BY <3>1, <3>2
  <2> QED BY <2>2 DEF IsHeap
<1> QED BY <1>2, <1>5, <1>7

-----------------------------------------------------------------------------
(* downHeap.                                                                *)

SinkState == [heap : Seq(Task), at : Nat \ {0}]

\* downHeap has come to its end.
Sunk(s, w) ==
  2 * s.at > Len(s.heap) \/ w[s.heap[s.at]] < w[s.heap[MinChild(s.heap, w, s.at)]]

\* The heap is in order but for the element that sinks, whose children are not
\* earlier than its parent.
Sinking(s, w) ==
  /\ \A i \in 2 .. Len(s.heap) :
       Parent(i) # s.at => w[s.heap[Parent(i)]] <= w[s.heap[i]]
  /\ s.at > 1 => \A i \in 2 .. Len(s.heap) :
       Parent(i) = s.at => w[s.heap[Parent(s.at)]] <= w[s.heap[i]]

\* MinChild is a child, and no child is earlier.
LEMMA MinChildIs ==
  ASSUME NEW w \in [Task -> Nat], NEW h \in Seq(Task), NEW i \in Nat \ {0}, 2 * i <= Len(h)
  PROVE  /\ MinChild(h, w, i) \in 2 .. Len(h)
         /\ MinChild(h, w, i) > i
         /\ Parent(MinChild(h, w, i)) = i
         /\ \A k \in 2 .. Len(h) : Parent(k) = i => w[h[MinChild(h, w, i)]] <= w[h[k]]
<1> DEFINE c == MinChild(h, w, i)
    n == Len(h)
<1>1. n \in Nat /\ \A k \in 1 .. n : w[h[k]] \in Nat
  <2> HIDE DEF n
  <2> QED BY Indices DEF n
<1>2. c = IF 2 * i + 1 <= n /\ w[h[2 * i + 1]] < w[h[2 * i]] THEN 2 * i + 1 ELSE 2 * i
  BY DEF MinChild
<1> HIDE DEF c
<1>3. c \in 2 .. n /\ c > i
  BY <1>1, <1>2
<1>4. Parent(c) = i
  BY <1>2, ChildrenAre
<1>5. ASSUME NEW k \in 2 .. n, Parent(k) = i PROVE w[h[c]] <= w[h[k]]
  <2>1. k = 2 * i \/ k = 2 * i + 1
    <3>1. k \in Nat /\ k > 1
      BY <1>1
    <3> QED BY <3>1, <1>5, ParentIs
  <2>2. w[h[2 * i]] \in Nat /\ (2 * i + 1 <= n => w[h[2 * i + 1]] \in Nat)
    <3>1. 2 * i \in 1 .. n /\ (2 * i + 1 <= n => 2 * i + 1 \in 1 .. n)
      BY <1>1
    <3> QED BY <1>1, <3>1
  <2> QED BY <1>1, <1>2, <2>1, <2>2
<1> QED BY <1>3, <1>4, <1>5 DEF c

\* One turn of downHeap.
LEMMA SinkIs ==
  ASSUME NEW w \in [Task -> Nat], NEW s \in SinkState
  PROVE  /\ Sink(s, w) \in SinkState
         /\ Same(Sink(s, w).heap, s.heap)
         /\ \A k \in 1 .. Len(s.heap) : k < s.at => Sink(s, w).heap[k] = s.heap[k]
         /\ Sinking(s, w) => Sinking(Sink(s, w), w)
         /\ Sunk(s, w) => Sink(s, w) = s
         /\ ~ Sunk(s, w) => Sink(s, w).at > s.at
<1> DEFINE h == s.heap
    i == s.at
    c == MinChild(h, w, i)
    n == Len(h)
<1>1. h \in Seq(Task) /\ n \in Nat /\ i \in Nat /\ i > 0
  BY DEF SinkState
<1>2. CASE Sunk(s, w)
  <2>1. Sink(s, w) = s
    BY <1>2 DEF Sunk, Sink
  <2> QED BY <1>1, <1>2, <2>1, SameAsItself
<1>3. CASE ~ Sunk(s, w)
  <2> DEFINE g == Swap(h, i, c)
  <2>1. 2 * i <= n /\ ~ (w[h[i]] < w[h[c]]) /\ Sink(s, w) = [heap |-> g, at |-> c]
    BY <1>1, <1>3 DEF Sunk, Sink
  <2>2. /\ c \in 2 .. n /\ c > i /\ Parent(c) = i
        /\ \A k \in 2 .. n : Parent(k) = i => w[h[c]] <= w[h[k]]
    <3> HIDE DEF h, i, c, n
    <3> QED BY SMTT(60), <1>1, <2>1, MinChildIs DEF c, n
  <2> HIDE DEF c
  <2>3. i \in 1 .. n /\ c \in 1 .. n /\ c \in Nat
    BY <1>1, <2>1, <2>2
  <2>4. Same(g, h) /\ \A k \in 1 .. n : g[k] = IF k = c THEN h[i] ELSE IF k = i THEN h[c] ELSE h[k]
    BY SMTT(60), <1>1, <2>3, SwapIs
  <2>5. g \in Seq(Task) /\ Len(g) = n
    BY <2>4 DEF Same
  <2> HIDE DEF g
  <2>6. Sink(s, w) \in SinkState
    BY <2>1, <2>3, <2>2, <2>5 DEF SinkState
  <2>7. ASSUME NEW k \in 1 .. n, k < i PROVE g[k] = h[k]
    BY <2>2, <2>3, <2>4, <2>7
  <2>8. ASSUME Sinking(s, w) PROVE Sinking(Sink(s, w), w)
    <3>1. \A k \in 2 .. n : Parent(k) # i => w[h[Parent(k)]] <= w[h[k]]
      BY <2>8 DEF Sinking
    <3>2. i > 1 => w[h[Parent(i)]] <= w[h[c]]
      BY <2>8, <2>2 DEF Sinking
    <3>3. \A k \in 1 .. n : w[h[k]] \in Nat
      <4> HIDE DEF h, n
      <4> QED BY <1>1, Indices DEF n
    <3>4. ASSUME NEW k \in 2 .. n
          PROVE  k \in 1 .. n /\ Parent(k) \in 1 .. n /\ Parent(k) < k /\ Parent(k) \in Nat /\ k \in Nat
      <4>1. k \in Nat /\ k > 1 /\ k <= n
        BY <1>1
      <4>2. Parent(k) \in Nat /\ Parent(k) >= 1 /\ Parent(k) < k
        BY <4>1, ParentIs
      <4> QED BY <1>1, <4>1, <4>2
    <3>5. ASSUME NEW k \in 2 .. n, Parent(k) # c PROVE w[g[Parent(k)]] <= w[g[k]]
      <4> DEFINE q == Parent(k)
      <4>1. k \in 1 .. n /\ q \in 1 .. n /\ q < k /\ q # c
        BY <3>4, <3>5
      <4>2. w[h[k]] \in Nat /\ w[h[q]] \in Nat /\ w[h[i]] \in Nat /\ w[h[c]] \in Nat
        BY <3>3, <4>1, <2>3
      <4>3. g[k] = (IF k = c THEN h[i] ELSE IF k = i THEN h[c] ELSE h[k])
        BY <2>4, <4>1
      <4>4. g[q] = (IF q = i THEN h[c] ELSE h[q])
        BY <2>4, <4>1
      <4>5. CASE q = i
        <5>1. k # i /\ w[h[c]] <= w[h[k]]
          BY <2>2, <4>1, <4>5, <2>3
        <5> HIDE DEF q
        <5>2. w[g[q]] = w[h[c]] /\ (g[k] = h[i] \/ g[k] = h[k])
          BY <4>3, <4>4, <4>5, <5>1
        <5>3. w[g[q]] <= w[g[k]]
          BY SMTT(60), <5>1, <5>2, <2>1, <4>2
        <5> QED BY <5>3 DEF q
      <4>6. CASE k = i
        <5>1. i > 1 /\ w[h[q]] <= w[h[c]] /\ k # c /\ q # i
          BY <1>1, <2>2, <2>3, <3>2, <4>6, <3>4
        <5> HIDE DEF q
        <5>2. g[k] = h[c] /\ g[q] = h[q]
          BY <4>3, <4>4, <4>6, <5>1
        <5> QED BY <5>1, <5>2 DEF q
      <4>7. CASE k # i /\ q # i
        <5>1. k # c /\ w[h[q]] <= w[h[k]]
          BY <2>2, <3>1, <4>7
        <5> HIDE DEF q
        <5>2. g[k] = h[k] /\ g[q] = h[q]
          BY <4>3, <4>4, <4>7, <5>1
        <5> QED BY <5>1, <5>2 DEF q
      <4> QED BY <4>5, <4>6, <4>7
    <3>6. ASSUME NEW k \in 2 .. n, Parent(k) = c PROVE w[g[Parent(c)]] <= w[g[k]]
      <4>1. k \in 1 .. n /\ c < k
        BY <3>4, <3>6
      <4>2. g[i] = h[c] /\ g[k] = h[k]
        BY <2>2, <2>3, <2>4, <4>1
      <4>3. w[h[c]] <= w[h[k]]
        BY <3>1, <3>6, <2>2, <2>3
      <4> QED BY <2>2, <4>2, <4>3
    <3> HIDE DEF n
    <3> QED BY <2>1, <2>5, <3>5, <3>6 DEF Sinking
  <2> QED BY <1>3, <2>1, <2>2, <2>4, <2>6, <2>7, <2>8
<1> QED BY <1>2, <1>3

\* The turns of downHeap.
LEMMA DownHeapTurns ==
  ASSUME NEW w \in [Task -> Nat], NEW h \in Seq(Task), NEW pos \in Nat \ {0}
  PROVE  \E f : /\ f[0] = [heap |-> h, at |-> pos]
                /\ \A k \in 1 .. Len(h) : f[k] = Sink(f[k - 1], w)
                /\ DownHeap(h, w, pos) = f[Len(h)].heap
<1> DEFINE n == Len(h)
    x == [heap |-> h, at |-> pos]
    step == [s \in SinkState |-> Sink(s, w)]
    Loop(f) == f = [k \in 0 .. n |-> IF k = 0 THEN x ELSE Sink(f[k - 1], w)]
<1>1. n \in Nat
  OBVIOUS
<1>2. x \in SinkState
  BY <1>1 DEF SinkState
<1>3. step \in [SinkState -> SinkState]
  BY SinkIs
<1>4. \E f : Loop(f)
  <2>1. PICK f \in [0 .. n -> SinkState] : f[0] = x /\ \A k \in 1 .. n : f[k] = step[f[k - 1]]
    <3> HIDE DEF n, x, step
    <3>1. \E f : IsLoop(f, n, SinkState, x, step)
      BY <1>1, <1>2, <1>3, LoopExists
    <3> QED BY <3>1 DEF IsLoop
  <2>2. ASSUME NEW k \in 0 .. n, k # 0 PROVE f[k] = Sink(f[k - 1], w)
    <3>1. k \in 1 .. n /\ k - 1 \in 0 .. n
      BY <1>1, <2>2
    <3> QED BY <2>1, <3>1
  <2>3. Loop(f)
    BY <2>1, <2>2
  <2> QED BY <2>3
<1> DEFINE turn == CHOOSE f : Loop(f)
<1>5. Loop(turn)
  <2> HIDE DEF Loop
  <2> QED BY <1>4
<1>6. DownHeap(h, w, pos) = turn[n].heap
  BY DEF DownHeap
<1> HIDE DEF turn
<1>7. turn[0] = x /\ \A k \in 1 .. n : turn[k] = Sink(turn[k - 1], w)
  <2>1. \A k \in 1 .. n : k \in 0 .. n /\ k # 0
    BY <1>1
  <2>2. 0 \in 0 .. n
    BY <1>1
  <2> HIDE DEF x
  <2> QED BY <1>5, <2>1, <2>2
<1> QED BY <1>6, <1>7

\* downHeap moves the elements from its position on about, and sets in order a heap
\* with the element there replaced.
LEMMA DownHeapIs ==
  ASSUME NEW w \in [Task -> Nat], NEW h \in Seq(Task), NEW pos \in Nat \ {0}
  PROVE  /\ Same(DownHeap(h, w, pos), h)
         /\ \A j \in 1 .. Len(h) : j < pos => DownHeap(h, w, pos)[j] = h[j]
         /\ Sinking([heap |-> h, at |-> pos], w) => IsHeap(DownHeap(h, w, pos), w)
<1> DEFINE n == Len(h)
    x == [heap |-> h, at |-> pos]
<1>1. n \in Nat /\ x \in SinkState
  BY DEF SinkState
<1>2. PICK f : /\ f[0] = x
               /\ \A k \in 1 .. n : f[k] = Sink(f[k - 1], w)
               /\ DownHeap(h, w, pos) = f[n].heap
  BY DownHeapTurns
<1> DEFINE Good(k) ==
      /\ f[k] \in SinkState
      /\ Same(f[k].heap, h)
      /\ f[k].at >= pos
      /\ \A j \in 1 .. n : j < pos => f[k].heap[j] = h[j]
      /\ Sinking(x, w) => Sinking(f[k], w)
      /\ Sunk(f[k], w) \/ f[k].at >= pos + k
    P == {k \in 0 .. n : Good(k)}
<1>3. Good(0)
  BY <1>1, <1>2, SameAsItself
<1>4. ASSUME NEW k \in 1 .. n, Good(k - 1) PROVE Good(k)
  <2>1. k \in Nat /\ k - 1 \in Nat
    BY <1>1
  <2> DEFINE s == f[k - 1]
  <2>2. f[k] = Sink(s, w)
    BY <1>2
  <2>3. s \in SinkState /\ Same(s.heap, h) /\ (Sinking(x, w) => Sinking(s, w))
        /\ (Sunk(s, w) \/ s.at >= pos + (k - 1)) /\ s.at >= pos
    BY <1>4
  <2>4. \A j \in 1 .. n : j < pos => s.heap[j] = h[j]
    BY <1>4
  <2> HIDE DEF s
  <2>5. /\ Sink(s, w) \in SinkState
        /\ Same(Sink(s, w).heap, s.heap)
        /\ \A j \in 1 .. Len(s.heap) : j < s.at => Sink(s, w).heap[j] = s.heap[j]
        /\ Sinking(s, w) => Sinking(Sink(s, w), w)
        /\ Sunk(s, w) => Sink(s, w) = s
        /\ ~ Sunk(s, w) => Sink(s, w).at > s.at
    BY <2>3, SinkIs
  <2>6. Same(f[k].heap, h)
    BY <2>2, <2>3, <2>5, SameIsTransitive
  <2>7. s.at \in Nat /\ Sink(s, w).at \in Nat
    BY <2>3, <2>5 DEF SinkState
  <2>8. f[k].at >= pos /\ (Sunk(f[k], w) \/ f[k].at >= pos + k)
    <3>1. CASE Sunk(s, w)
      BY <2>2, <2>3, <2>5, <3>1
    <3>2. CASE ~ Sunk(s, w)
      BY <2>1, <2>2, <2>3, <2>5, <2>7, <3>2
    <3> QED BY <3>1, <3>2
  <2>9. ASSUME NEW j \in 1 .. n, j < pos PROVE f[k].heap[j] = h[j]
    <3>1. j < s.at /\ Len(s.heap) = n
      BY <1>1, <2>3, <2>7, <2>9 DEF Same
    <3> QED BY <2>2, <2>4, <2>5, <2>9, <3>1
  <2> QED BY <2>2, <2>3, <2>5, <2>6, <2>8, <2>9
<1>5. Good(n)
  <2>1. 0 \in P /\ \A k \in 1 .. n : k - 1 \in P => k \in P
    <3>1. \A k \in 1 .. n : k \in 0 .. n
      BY <1>1
    <3>2. 0 \in 0 .. n
      BY <1>1
    <3> HIDE DEF Good
    <3> QED BY <1>3, <1>4, <3>1, <3>2
  <2>2. n \in 0 .. n
    BY <1>1
  <2>3. n \in P
    <3> HIDE DEF P, n
    <3> QED BY <1>1, <2>1, <2>2, Induction
  <2> QED BY <2>3
<1> DEFINE e == f[n]
<1>6. Sunk(e, w)
  <2>1. e.at \in Nat /\ Len(e.heap) = n
    BY <1>5 DEF SinkState, Same
  <2>2. CASE e.at >= pos + n
    <3>1. 2 * e.at > n
      BY <1>1, <2>1, <2>2
    <3> QED BY <2>1, <3>1 DEF Sunk
  <2> QED BY <1>5, <2>2
<1>7. ASSUME Sinking(x, w) PROVE IsHeap(e.heap, w)
  <2>1. Sinking(e, w) /\ e \in SinkState
    BY <1>5, <1>7
  <2> HIDE DEF e
  <2>2. ASSUME NEW i \in 2 .. Len(e.heap) PROVE w[e.heap[Parent(i)]] <= w[e.heap[i]]
    <3>1. CASE Parent(i) # e.at
      BY <2>1, <3>1 DEF Sinking
    <3>2. CASE Parent(i) = e.at
      <4> DEFINE g == e.heap
          c == MinChild(g, w, e.at)
      <4>1. g \in Seq(Task) /\ i \in Nat /\ i > 1 /\ i \in 1 .. Len(g) /\ Len(g) \in Nat
            /\ e.at \in Nat \ {0}
        BY <2>1 DEF SinkState
      <4>2. 2 * e.at <= Len(g)
        <5>1. i = 2 * Parent(i) \/ i = 2 * Parent(i) + 1
          BY <4>1, ParentIs
        <5> HIDE DEF g
        <5> QED BY <3>2, <4>1, <5>1
      <4> HIDE DEF g
      <4>3. c \in 2 .. Len(g) /\ w[g[c]] <= w[g[i]]
        BY <3>2, <4>1, <4>2, MinChildIs DEF g
      <4> HIDE DEF c
      <4>4. w[g[e.at]] < w[g[c]]
        BY <1>6, <4>1, <4>2 DEF Sunk, g, c
      <4>5. c \in 1 .. Len(g) /\ e.at \in 1 .. Len(g)
        <5>1. PICK a \in Nat \ {0} : a = e.at
          BY <4>1
        <5>2. a \in 1 .. Len(g)
          BY SMTT(60), <4>1, <4>2, <5>1
        <5>3. c \in 1 .. Len(g)
          BY <4>1, <4>3
        <5> QED BY <5>1, <5>2, <5>3
      <4>6. w[g[i]] \in Nat /\ w[g[e.at]] \in Nat /\ w[g[c]] \in Nat
        BY <4>1, <4>5, Indices
      <4>7. w[g[e.at]] <= w[g[i]]
        BY <4>3, <4>4, <4>6
      <4> QED BY <3>2, <4>7 DEF g
    <3> QED BY <3>1, <3>2
  <2> QED BY <2>2 DEF IsHeap
<1> QED BY <1>2, <1>5, <1>7

-----------------------------------------------------------------------------
(* The operations of the heap.                                              *)

\* insert adds a task, and keeps the order.
THEOREM InsertIs ==
  ASSUME NEW w \in [Task -> Nat], NEW h \in Seq(Task), NEW t \in Task
  PROVE  /\ Insert(h, w, t) \in Seq(Task)
         /\ ToSet(Insert(h, w, t)) = ToSet(h) \union {t}
         /\ IsInjective(h) /\ t \notin ToSet(h) => IsInjective(Insert(h, w, t))
         /\ IsHeap(h, w) => IsHeap(Insert(h, w, t), w)
<1> DEFINE g == Append(h, t)
    n == Len(h)
    x == [heap |-> g, at |-> Len(g)]
<1>1. n \in Nat /\ \A i \in 1 .. n : h[i] \in Task
  OBVIOUS
<1>2. /\ g \in Seq(Task) /\ g # << >> /\ Len(g) = n + 1
      /\ \A i \in 1 .. n : g[i] = h[i]
      /\ g[n + 1] = t
  OBVIOUS
<1> HIDE DEF g, n
<1>3. Same(UpHeap(g, w), g) /\ (Rising(x, w) => IsHeap(UpHeap(g, w), w))
  BY <1>2, UpHeapIs
<1>4. \A i \in 1 .. (n + 1) : i \in 1 .. n \/ i = n + 1
  BY <1>1
<1>5. \A i \in 1 .. n : i \in 1 .. (n + 1)
  BY <1>1
<1>6. n + 1 \in 1 .. (n + 1) /\ n + 1 \notin 1 .. n
  BY <1>1
<1>7. ToSet(g) = ToSet(h) \union {t}
  <2>1. ToSet(g) = {g[i] : i \in 1 .. (n + 1)}
    BY <1>2, Indices
  <2>2. ToSet(h) = {h[i] : i \in 1 .. n}
    BY Indices DEF n
  <2> QED BY <2>1, <2>2, <1>2, <1>4, <1>5, <1>6
<1>8. ASSUME IsInjective(h), t \notin ToSet(h) PROVE IsInjective(g)
  <2>1. \A i, j \in 1 .. n : h[i] = h[j] => i = j
    BY <1>8, Indices DEF n
  <2>2. \A i \in 1 .. n : h[i] # t
    <3>1. ToSet(h) = {h[i] : i \in 1 .. n}
      BY Indices DEF n
    <3> QED BY <3>1, <1>8
  <2>3. \A i, j \in 1 .. (n + 1) : g[i] = g[j] => i = j
    BY <2>1, <2>2, <1>2, <1>4
  <2> QED BY <2>3, <1>2, Indices
<1>9. ASSUME IsHeap(h, w) PROVE Rising(x, w)
  <2>1. ASSUME NEW i \in 2 .. (n + 1)
        PROVE  Parent(i) \in 1 .. n /\ (i # n + 1 => i \in 1 .. n /\ i \in 2 .. n)
    <3>1. i \in Nat /\ i > 1 /\ i <= n + 1
      BY <1>1
    <3>2. Parent(i) \in Nat /\ Parent(i) >= 1 /\ Parent(i) < i
      BY <3>1, ParentIs
    <3> QED BY <1>1, <3>1, <3>2
  <2>2. \A i \in 2 .. n : w[h[Parent(i)]] <= w[h[i]]
    BY <1>9 DEF IsHeap, n
  <2>3. ASSUME NEW i \in 2 .. (n + 1), i # n + 1 PROVE w[g[Parent(i)]] <= w[g[i]]
    BY <2>1, <2>2, <2>3, <1>2
  <2>4. \A i \in 2 .. (n + 1) : Parent(i) # n + 1
    BY <2>1, <1>6
  <2> QED BY <1>2, <2>3, <2>4 DEF Rising
<1> QED BY <1>3, <1>7, <1>8, <1>9 DEF Insert, Same, g

\* What delete makes of the array before it sinks the element it has moved.
LEMMA MovedIs ==
  ASSUME NEW h \in Seq(Task), NEW pos \in 1 .. Len(h)
  PROVE  LET g == Front([h EXCEPT ![pos] = Last(h)])
         IN /\ g \in Seq(Task) /\ Len(g) = Len(h) - 1
            /\ \A k \in 1 .. (Len(h) - 1) : g[k] = IF k = pos THEN h[Len(h)] ELSE h[k]
<1> DEFINE n == Len(h)
    e == [h EXCEPT ![pos] = Last(h)]
    g == Front(e)
<1>1. n \in Nat /\ n >= 1 /\ h \in [1 .. n -> Task] /\ h[n] \in Task
  OBVIOUS
<1>2. e = [h EXCEPT ![pos] = h[n]]
  BY DEF Last
<1> HIDE DEF e
<1>3. e \in [1 .. n -> Task] /\ \A k \in 1 .. n : e[k] = IF k = pos THEN h[n] ELSE h[k]
  BY <1>1, <1>2
<1> HIDE DEF n
<1>4. e \in Seq(Task) /\ Len(e) = n
  BY <1>1, <1>3, IsSeq
<1>5. g = SubSeq(e, 1, n - 1)
  BY <1>4 DEF Front
<1>6. 1 \in 1 .. (n + 1) /\ n - 1 \in 0 .. n
  BY <1>1
<1>7. g \in Seq(Task) /\ Len(g) = n - 1 /\ \A k \in 1 .. (n - 1) : g[k] = e[k]
  BY <1>1, <1>4, <1>5
<1>8. \A k \in 1 .. (n - 1) : k \in 1 .. n
  BY <1>1
<1> QED BY <1>3, <1>7, <1>8 DEF n, e

\* delete takes out the task at its position; what is before it stays, and the order
\* is kept when it is the first.
THEOREM DeleteIs ==
  ASSUME NEW w \in [Task -> Nat], NEW h \in Seq(Task), IsInjective(h), NEW pos \in 1 .. Len(h)
  PROVE  /\ Delete(h, w, pos) \in Seq(Task)
         /\ Len(Delete(h, w, pos)) = Len(h) - 1
         /\ IsInjective(Delete(h, w, pos))
         /\ ToSet(Delete(h, w, pos)) = ToSet(h) \ {h[pos]}
         /\ \A j \in 1 .. (Len(h) - 1) : j < pos => Delete(h, w, pos)[j] = h[j]
         /\ IsHeap(h, w) /\ pos = 1 => IsHeap(Delete(h, w, pos), w)
<1> DEFINE n == Len(h)
    g == Front([h EXCEPT ![pos] = Last(h)])
    d == Delete(h, w, pos)
<1>1. n \in Nat /\ n >= 1 /\ pos \in Nat \ {0} /\ pos <= n
  OBVIOUS
<1>2. /\ g \in Seq(Task) /\ Len(g) = n - 1
      /\ \A k \in 1 .. (n - 1) : g[k] = IF k = pos THEN h[n] ELSE h[k]
  BY MovedIs
<1>3. d = DownHeap(g, w, pos)
  BY DEF Delete
<1> HIDE DEF g, d
<1>4. /\ Same(d, g)
      /\ \A j \in 1 .. (n - 1) : j < pos => d[j] = g[j]
      /\ Sinking([heap |-> g, at |-> pos], w) => IsHeap(d, w)
  BY <1>1, <1>2, <1>3, DownHeapIs
<1>5. \A i, j \in 1 .. n : h[i] = h[j] => i = j
  BY Indices
<1> HIDE DEF n
<1>6. /\ \A k \in 1 .. (n - 1) : k \in 1 .. n /\ k # n
      /\ \A k \in 1 .. n : k # n => k \in 1 .. (n - 1)
      /\ n \in 1 .. n /\ pos \in 1 .. n
  BY <1>1
<1>7. IsInjective(g)
  <2>1. \A i, j \in 1 .. (n - 1) : g[i] = g[j] => i = j
    BY <1>2, <1>5, <1>6
  <2> QED BY <2>1, <1>2, Indices
<1>8. ToSet(g) = ToSet(h) \ {h[pos]}
  <2>1. ToSet(g) = {g[k] : k \in 1 .. (n - 1)} /\ ToSet(h) = {h[k] : k \in 1 .. n}
    BY <1>2, Indices DEF n
  <2>2. \A k \in 1 .. (n - 1) : \E m \in 1 .. n : m # pos /\ g[k] = h[m]
    BY <1>2, <1>6
  <2>3. \A m \in 1 .. n : m # pos => \E k \in 1 .. (n - 1) : h[m] = g[k]
    <3>1. ASSUME NEW m \in 1 .. n, m # pos PROVE \E k \in 1 .. (n - 1) : h[m] = g[k]
      <4>1. CASE m = n
        <5>1. pos \in 1 .. (n - 1) /\ g[pos] = h[n]
          BY <1>2, <1>6, <3>1, <4>1
        <5> QED BY <4>1, <5>1
      <4>2. CASE m # n
        BY <1>2, <1>6, <3>1, <4>2
      <4> QED BY <4>1, <4>2
    <3> QED BY <3>1
  <2>4. \A m \in 1 .. n : m # pos => h[m] # h[pos]
    BY <1>5, <1>6
  <2>5. ASSUME NEW t \in ToSet(g) PROVE t \in ToSet(h) \ {h[pos]}
    BY <2>1, <2>2, <2>4
  <2>6. ASSUME NEW t \in ToSet(h) \ {h[pos]} PROVE t \in ToSet(g)
    <3>1. PICK m \in 1 .. n : t = h[m]
      BY <2>1
    <3>2. m # pos
      BY <3>1, <2>6
    <3> QED BY <2>1, <2>3, <3>1, <3>2
  <2> QED BY <2>5, <2>6
<1>9. ASSUME IsHeap(h, w), pos = 1 PROVE Sinking([heap |-> g, at |-> pos], w)
  <2>1. ASSUME NEW i \in 2 .. (n - 1), Parent(i) # 1 PROVE w[g[Parent(i)]] <= w[g[i]]
    <3>1. i \in Nat /\ i > 1 /\ i <= n - 1
      BY <1>1
    <3>2. Parent(i) \in Nat /\ Parent(i) >= 1 /\ Parent(i) < i
      BY <3>1, ParentIs
    <3>3. i \in 1 .. (n - 1) /\ Parent(i) \in 1 .. (n - 1) /\ i # pos /\ Parent(i) # pos
          /\ i \in 2 .. n
      BY <1>1, <1>9, <2>1, <3>1, <3>2
    <3>4. g[i] = h[i] /\ g[Parent(i)] = h[Parent(i)]
      BY <1>2, <3>3
    <3> QED BY <1>9, <3>3, <3>4 DEF IsHeap, n
  <2> QED BY <1>2, <1>9, <2>1 DEF Sinking
<1>10. \A j \in 1 .. (n - 1) : j < pos => d[j] = h[j]
  BY <1>1, <1>2, <1>4
<1>11. d \in Seq(Task) /\ Len(d) = n - 1 /\ IsInjective(d) /\ ToSet(d) = ToSet(h) \ {h[pos]}
  BY <1>2, <1>4, <1>7, <1>8 DEF Same
<1> QED BY <1>4, <1>9, <1>10, <1>11 DEF d, n

\* getTask finds a task where it is.
LEMMA GetTaskIs ==
  ASSUME NEW h \in Seq(Task), IsInjective(h), NEW i \in 1 .. Len(h)
  PROVE  GetTask(h, h[i]) = i
<1> DEFINE First(k) == k \in 1 .. Len(h) /\ h[k] = h[i] /\ \A j \in 1 .. (k - 1) : h[j] # h[i]
<1>1. \A j, k \in 1 .. Len(h) : h[j] = h[k] => j = k
  BY Indices
<1>2. First(i)
  <2>1. ASSUME NEW j \in 1 .. (i - 1) PROVE h[j] # h[i]
    <3>1. j \in 1 .. Len(h) /\ j # i
      OBVIOUS
    <3> QED BY <1>1, <3>1
  <2> QED BY <2>1
<1>3. GetTask(h, h[i]) = CHOOSE k \in 1 .. Len(h) : h[k] = h[i] /\ \A j \in 1 .. (k - 1) : h[j] # h[i]
  BY DEF GetTask
<1>4. \A k : First(k) => k = i
  BY <1>1
<1> QED BY <1>2, <1>3, <1>4

\* The head of a heap is as early as any task in it.
THEOREM HeadIsEarliest ==
  ASSUME NEW w \in [Task -> Nat], NEW h \in Seq(Task), IsHeap(h, w)
  PROVE  \A t \in ToSet(h) : w[Head(h)] <= w[t]
<1> DEFINE n == Len(h)
    P == {k \in Nat : \A i \in 1 .. n : i <= k => w[h[1]] <= w[h[i]]}
<1>1. n \in Nat /\ \A i \in 1 .. n : w[h[i]] \in Nat
  <2> HIDE DEF n
  <2> QED BY Indices DEF n
<1>2. 0 \in P
  BY <1>1
<1>3. ASSUME NEW k \in 1 .. n, k - 1 \in P PROVE k \in P
  <2>1. SUFFICES ASSUME NEW i \in 1 .. n, i <= k PROVE w[h[1]] <= w[h[i]]
    BY <1>1
  <2>2. i \in Nat /\ i >= 1 /\ k \in Nat /\ n >= 1 /\ 1 \in 1 .. n
    BY <1>1
  <2>3. CASE i = 1
    BY <1>1, <2>2, <2>3
  <2>4. CASE i # 1
    <3>1. Parent(i) \in Nat /\ Parent(i) >= 1 /\ Parent(i) < i
      BY <2>2, <2>4, ParentIs
    <3>2. i \in 2 .. n /\ Parent(i) \in 1 .. n /\ Parent(i) <= k - 1
      BY <1>1, <2>1, <2>2, <2>4, <3>1
    <3>3. w[h[Parent(i)]] <= w[h[i]]
      BY <3>2 DEF IsHeap
    <3>4. w[h[1]] <= w[h[Parent(i)]]
      BY <1>3, <3>2
    <3>5. w[h[1]] \in Nat /\ w[h[i]] \in Nat /\ w[h[Parent(i)]] \in Nat
      BY <1>1, <2>2, <3>2
    <3> QED BY <3>3, <3>4, <3>5
  <2> QED BY <2>3, <2>4
<1>4. n \in P
  <2>1. n \in 0 .. n
    BY <1>1
  <2> HIDE DEF P, n
  <2> QED BY <1>1, <1>2, <1>3, <2>1, Induction
<1>5. ASSUME NEW t \in ToSet(h) PROVE w[Head(h)] <= w[t]
  <2>1. PICK i \in 1 .. n : t = h[i]
    BY Indices
  <2>2. i <= n /\ h # << >>
    BY <1>1
  <2>3. Head(h) = h[1]
    BY <2>2
  <2> QED BY <1>4, <2>1, <2>2, <2>3
<1> QED BY <1>5

\* The order does not depend on the times of tasks that are not in the heap.
LEMMA OrderOfElements ==
  ASSUME NEW h \in Seq(Task), NEW v, NEW w, \A t \in ToSet(h) : v[t] = w[t], IsHeap(h, v)
  PROVE  IsHeap(h, w)
<1> DEFINE n == Len(h)
<1>1. n \in Nat /\ ToSet(h) = {h[i] : i \in 1 .. n}
  BY Indices
<1>2. ASSUME NEW i \in 2 .. n PROVE w[h[Parent(i)]] <= w[h[i]]
  <2>1. i \in Nat /\ i > 1 /\ i <= n
    BY <1>1
  <2>2. Parent(i) \in Nat /\ Parent(i) >= 1 /\ Parent(i) < i
    BY <2>1, ParentIs
  <2>3. i \in 1 .. n /\ Parent(i) \in 1 .. n
    BY <1>1, <2>1, <2>2
  <2>4. w[h[i]] = v[h[i]] /\ w[h[Parent(i)]] = v[h[Parent(i)]]
    BY <1>1, <2>3
  <2> QED BY <2>4 DEF IsHeap
<1> QED BY <1>2 DEF IsHeap

-----------------------------------------------------------------------------
(* deleteIfCancelled.                                                       *)

SweepState == {s \in [heap : Seq(Task), at : Nat \ {0}] : IsInjective(s.heap)}

\* No task before the position is cancelled.
Swept(s, c) == \A j \in 1 .. Len(s.heap) : j < s.at => ~ c[s.heap[j]]

\* One turn of deleteIfCancelled: what is still to come gets shorter by one.
LEMMA SweepIs ==
  ASSUME NEW w \in [Task -> Nat], NEW c, NEW s \in SweepState
  PROVE  /\ Sweep(s, w, c) \in SweepState
         /\ ToSet(Sweep(s, w, c).heap) \subseteq ToSet(s.heap)
         /\ \A t \in ToSet(s.heap) : ~ c[t] => t \in ToSet(Sweep(s, w, c).heap)
         /\ Swept(s, c) => Swept(Sweep(s, w, c), c)
         /\ s.at > Len(s.heap) => Sweep(s, w, c) = s
         /\ s.at <= Len(s.heap) =>
              Len(Sweep(s, w, c).heap) - Sweep(s, w, c).at = Len(s.heap) - s.at - 1
<1> DEFINE h == s.heap
    i == s.at
    n == Len(h)
    d == Delete(h, w, i)
<1>1. h \in Seq(Task) /\ n \in Nat /\ i \in Nat /\ i > 0 /\ IsInjective(h)
      /\ s = [heap |-> h, at |-> i]
  BY DEF SweepState
<1>2. CASE i > n
  <2>1. Sweep(s, w, c) = s /\ ~ (s.at <= Len(s.heap))
    BY <1>1, <1>2 DEF Sweep
  <2> QED BY <2>1
<1>3. CASE i <= n /\ c[h[i]]
  <2>1. Sweep(s, w, c) = [heap |-> d, at |-> i] /\ i \in 1 .. n
    BY <1>1, <1>3 DEF Sweep
  <2>2. /\ d \in Seq(Task) /\ Len(d) = n - 1 /\ IsInjective(d)
        /\ ToSet(d) = ToSet(h) \ {h[i]}
        /\ \A j \in 1 .. (n - 1) : j < i => d[j] = h[j]
    <3> HIDE DEF h, i
    <3> QED BY <1>1, <2>1, DeleteIs
  <2> HIDE DEF d
  <2>3. Sweep(s, w, c) \in SweepState
    BY <1>1, <2>1, <2>2 DEF SweepState
  <2>4. Swept(s, c) => Swept(Sweep(s, w, c), c)
    <3>1. SUFFICES ASSUME Swept(s, c), NEW j \in 1 .. (n - 1), j < i PROVE ~ c[d[j]]
      BY <2>1, <2>2 DEF Swept
    <3>2. j \in 1 .. n
      BY <1>1
    <3> QED BY <2>2, <3>1, <3>2 DEF Swept
  <2>5. Len(d) - i = n - i - 1
    BY <1>1, <2>2
  <2> QED BY SMTT(60), <1>3, <2>1, <2>2, <2>3, <2>4, <2>5
<1>4. CASE i <= n /\ ~ c[h[i]]
  <2>1. Sweep(s, w, c) = [heap |-> h, at |-> i + 1]
    BY <1>1, <1>4 DEF Sweep
  <2>2. Sweep(s, w, c) \in SweepState
    BY <1>1, <2>1 DEF SweepState
  <2>3. Swept(s, c) => Swept(Sweep(s, w, c), c)
    <3>1. \A j \in 1 .. n : j < i + 1 => j < i \/ j = i
      BY <1>1
    <3> QED BY <1>4, <2>1, <3>1 DEF Swept
  <2>4. n - (i + 1) = n - i - 1
    BY <1>1
  <2> HIDE DEF n
  <2> QED BY <1>1, <1>4, <2>1, <2>2, <2>3, <2>4 DEF n
<1> QED BY <1>1, <1>2, <1>3, <1>4

\* The turns of deleteIfCancelled.
LEMMA SweepTurns ==
  ASSUME NEW w \in [Task -> Nat], NEW c, NEW h \in Seq(Task), IsInjective(h)
  PROVE  \E f : /\ f[0] = [heap |-> h, at |-> 1]
                /\ \A k \in 1 .. Len(h) : f[k] = Sweep(f[k - 1], w, c)
                /\ DeleteIfCancelled(h, w, c) = f[Len(h)].heap
<1> DEFINE n == Len(h)
    x == [heap |-> h, at |-> 1]
    step == [s \in SweepState |-> Sweep(s, w, c)]
    Loop(f) == f = [k \in 0 .. n |-> IF k = 0 THEN x ELSE Sweep(f[k - 1], w, c)]
<1>1. n \in Nat
  OBVIOUS
<1>2. x \in SweepState
  BY <1>1 DEF SweepState
<1>3. step \in [SweepState -> SweepState]
  BY SweepIs
<1>4. \E f : Loop(f)
  <2>1. PICK f \in [0 .. n -> SweepState] : f[0] = x /\ \A k \in 1 .. n : f[k] = step[f[k - 1]]
    <3> HIDE DEF n, x, step
    <3>1. \E f : IsLoop(f, n, SweepState, x, step)
      BY <1>1, <1>2, <1>3, LoopExists
    <3> QED BY <3>1 DEF IsLoop
  <2>2. ASSUME NEW k \in 0 .. n, k # 0 PROVE f[k] = Sweep(f[k - 1], w, c)
    <3>1. k \in 1 .. n /\ k - 1 \in 0 .. n
      BY <1>1, <2>2
    <3> QED BY <2>1, <3>1
  <2>3. Loop(f)
    BY <2>1, <2>2
  <2> QED BY <2>3
<1> DEFINE turn == CHOOSE f : Loop(f)
<1>5. Loop(turn)
  <2> HIDE DEF Loop
  <2> QED BY <1>4
<1>6. DeleteIfCancelled(h, w, c) = turn[n].heap
  BY DEF DeleteIfCancelled
<1> HIDE DEF turn
<1>7. turn[0] = x /\ \A k \in 1 .. n : turn[k] = Sweep(turn[k - 1], w, c)
  <2>1. \A k \in 1 .. n : k \in 0 .. n /\ k # 0
    BY <1>1
  <2>2. 0 \in 0 .. n
    BY <1>1
  <2> HIDE DEF x
  <2> QED BY <1>5, <2>1, <2>2
<1> QED BY <1>6, <1>7

\* deleteIfCancelled takes out the cancelled tasks, all of them and no other.
THEOREM DeleteIfCancelledIs ==
  ASSUME NEW w \in [Task -> Nat], NEW c, NEW h \in Seq(Task), IsInjective(h)
  PROVE  /\ DeleteIfCancelled(h, w, c) \in Seq(Task)
         /\ IsInjective(DeleteIfCancelled(h, w, c))
         /\ ToSet(DeleteIfCancelled(h, w, c)) = {t \in ToSet(h) : ~ c[t]}
<1> DEFINE n == Len(h)
<1>1. n \in Nat
  OBVIOUS
<1>2. PICK f : /\ f[0] = [heap |-> h, at |-> 1]
               /\ \A k \in 1 .. n : f[k] = Sweep(f[k - 1], w, c)
               /\ DeleteIfCancelled(h, w, c) = f[n].heap
  BY ZenonT(60), SweepTurns
<1> DEFINE Good(k) ==
      /\ f[k] \in SweepState
      /\ ToSet(f[k].heap) \subseteq ToSet(h)
      /\ \A t \in ToSet(h) : ~ c[t] => t \in ToSet(f[k].heap)
      /\ Swept(f[k], c)
      /\ f[k].at > Len(f[k].heap) \/ Len(f[k].heap) - f[k].at <= n - 1 - k
    P == {k \in 0 .. n : Good(k)}
<1>3. Good(0)
  BY <1>1, <1>2 DEF SweepState, Swept
<1>4. ASSUME NEW k \in 1 .. n, Good(k - 1) PROVE Good(k)
  <2>1. k \in Nat /\ k - 1 \in Nat
    BY <1>1
  <2> DEFINE s == f[k - 1]
  <2>2. f[k] = Sweep(s, w, c)
    BY <1>2
  <2>3. /\ s \in SweepState /\ ToSet(s.heap) \subseteq ToSet(h)
        /\ \A t \in ToSet(h) : ~ c[t] => t \in ToSet(s.heap)
        /\ Swept(s, c)
        /\ s.at > Len(s.heap) \/ Len(s.heap) - s.at <= n - 1 - (k - 1)
    BY <1>4
  <2> HIDE DEF s
  <2>4. /\ Sweep(s, w, c) \in SweepState
        /\ ToSet(Sweep(s, w, c).heap) \subseteq ToSet(s.heap)
        /\ \A t \in ToSet(s.heap) : ~ c[t] => t \in ToSet(Sweep(s, w, c).heap)
        /\ Swept(s, c) => Swept(Sweep(s, w, c), c)
        /\ s.at > Len(s.heap) => Sweep(s, w, c) = s
        /\ s.at <= Len(s.heap) =>
             Len(Sweep(s, w, c).heap) - Sweep(s, w, c).at = Len(s.heap) - s.at - 1
    BY <2>3, SweepIs
  <2>5. s.at \in Nat /\ Len(s.heap) \in Nat
    BY <2>3 DEF SweepState
  <2>6. f[k].at > Len(f[k].heap) \/ Len(f[k].heap) - f[k].at <= n - 1 - k
    <3>1. CASE s.at > Len(s.heap)
      BY <2>2, <2>4, <3>1
    <3>2. CASE s.at <= Len(s.heap)
      <4>1. Len(s.heap) - s.at - 1 <= n - 1 - k
        BY <1>1, <2>1, <2>3, <2>5, <3>2
      <4> QED BY <2>2, <2>4, <3>2, <4>1
    <3> QED BY <2>5, <3>1, <3>2
  <2> QED BY <2>2, <2>3, <2>4, <2>6
<1>5. Good(n)
  <2>1. 0 \in P /\ \A k \in 1 .. n : k - 1 \in P => k \in P
    <3>1. \A k \in 1 .. n : k \in 0 .. n
      BY <1>1
    <3>2. 0 \in 0 .. n
      BY <1>1
    <3> HIDE DEF Good
    <3> QED BY <1>3, <1>4, <3>1, <3>2
  <2>2. n \in 0 .. n
    BY <1>1
  <2>3. n \in P
    <3> HIDE DEF P, n
    <3> QED BY <1>1, <2>1, <2>2, Induction
  <2> QED BY <2>3
<1> DEFINE e == f[n]
<1>6. e \in SweepState /\ e.at \in Nat /\ Len(e.heap) \in Nat
  BY <1>5 DEF SweepState
<1>7. e.at > Len(e.heap)
  BY <1>1, <1>5, <1>6
<1>8. \A t \in ToSet(e.heap) : ~ c[t]
  <2>1. \A j \in 1 .. Len(e.heap) : ~ c[e.heap[j]]
    BY <1>5, <1>6, <1>7 DEF Swept
  <2> HIDE DEF e
  <2>2. e.heap \in Seq(Task)
    BY <1>6 DEF SweepState
  <2> QED BY SMTT(60), <2>1, <2>2, Indices
<1>9. ToSet(e.heap) \subseteq ToSet(h) /\ \A t \in ToSet(h) : ~ c[t] => t \in ToSet(e.heap)
  BY <1>5
<1> HIDE DEF e
<1>10. ToSet(e.heap) = {t \in ToSet(h) : ~ c[t]}
  BY <1>8, <1>9
<1>11. e.heap \in Seq(Task) /\ IsInjective(e.heap)
  BY <1>6 DEF SweepState
<1> QED BY <1>2, <1>10, <1>11 DEF e
=============================================================================
