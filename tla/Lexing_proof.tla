----------------------------- MODULE Lexing_proof -----------------------------
(***************************************************************************)
(* Theorems about Spans, for any list of spans: what an insertion and the  *)
(* deletion of one character do to them; and about Lexing, for any edits,  *)
(* any length of the text and any number of workers.                       *)
(***************************************************************************)
EXTENDS Lexing, SequenceTheorems, WellFoundedInduction, TLAPS

-----------------------------------------------------------------------------
(* Sums of spans.                                                           *)

\* A set of natural numbers has a least one.
LEMMA LeastNumber ==
  ASSUME NEW S \in SUBSET Nat, S # {}
  PROVE  \E n \in S : \A m \in S : n <= m
<1> DEFINE R == {ss \in Nat \X Nat : ss[1] < ss[2]}
<1>1. IsWellFoundedOn(R, Nat)
  BY NatLessThanWellFounded DEF OpToRel
<1>2. PICK n \in S : \A m \in S : ~ (<<m, n>> \in R)
  <2> HIDE DEF R
  <2> QED BY <1>1, WFMin
<1>3. ASSUME NEW m \in S PROVE n <= m
  <2>1. m \in Nat /\ n \in Nat /\ <<m, n>> \in Nat \X Nat
    BY <1>3
  <2>2. ~ (m < n)
    <3>1. ASSUME m < n PROVE <<m, n>> \in R
      BY <2>1, <3>1
    <3> QED BY <1>2, <1>3, <3>1
  <2> QED BY <2>1, <2>2
<1> QED BY <1>3

\* f[i] is the sum of the first i elements of s.
Sums(f, s) ==
  f = [i \in 0 .. Len(s) |-> IF i = 0 THEN 0 ELSE f[i - 1] + s[i]]

\* Every list of numbers has its sums: a shortest list without would have them, by
\* those of the list without its last element.
LEMMA SumsExist ==
  ASSUME NEW s \in Seq(Nat)
  PROVE  \E f \in [0 .. Len(s) -> Nat] : Sums(f, s)
<1> DEFINE F(n, f) ==
      f \in [0 .. n -> Nat] /\ f[0] = 0 /\ \A i \in 1 .. n : f[i] = f[i - 1] + s[i]
    Bad == {n \in 0 .. Len(s) : ~ \E f : F(n, f)}
<1>1. Bad = {}
  <2>1. SUFFICES ASSUME Bad # {} PROVE FALSE
    OBVIOUS
  <2>2. PICK n \in Bad : \A m \in Bad : n <= m
    <3>1. Bad \in SUBSET Nat
      OBVIOUS
    <3> HIDE DEF Bad
    <3> QED BY <2>1, <3>1, LeastNumber
  <2>3. CASE n = 0
    <3>1. F(0, [i \in 0 .. 0 |-> 0])
      OBVIOUS
    <3> QED BY <2>2, <2>3, <3>1
  <2>4. CASE n # 0
    <3>1. n - 1 \in 0 .. Len(s) /\ n - 1 \notin Bad /\ n \in 1 .. Len(s)
      <4>1. n \in 0 .. Len(s) /\ Len(s) \in Nat
        BY <2>2
      <4>2. n - 1 < n /\ n - 1 \in 0 .. Len(s) /\ n \in 1 .. Len(s)
        BY <2>4, <4>1
      <4> HIDE DEF Bad
      <4> QED BY <2>2, <4>1, <4>2
    <3>2. PICK f : F(n - 1, f)
      BY <3>1
    <3>3. s[n] \in Nat
      BY <3>1, ElementOfSeq
    <3> DEFINE g == [i \in 0 .. n |-> IF i = n THEN f[n - 1] + s[n] ELSE f[i]]
    <3>4. g \in [0 .. n -> Nat]
      BY <3>1, <3>2, <3>3
    <3>5. g[0] = 0
      BY <3>1, <3>2
    <3>6. \A i \in 1 .. n : g[i] = g[i - 1] + s[i]
      <4> SUFFICES ASSUME NEW i \in 1 .. n PROVE g[i] = g[i - 1] + s[i]
        OBVIOUS
      <4>1. CASE i = n
        BY <3>1, <4>1
      <4>2. CASE i # n
        <5>1. i \in 1 .. n - 1
          BY <3>1, <4>2
        <5> QED BY <3>1, <3>2, <5>1
      <4> QED BY <4>1, <4>2
    <3> QED BY <2>2, <3>4, <3>5, <3>6
  <2> QED BY <2>3, <2>4
<1>2. PICK f : F(Len(s), f)
  <2>1. Len(s) \in 0 .. Len(s)
    OBVIOUS
  <2> QED BY <1>1, <2>1
<1>3. Sums(f, s)
  BY <1>2 DEF Sums
<1> QED BY <1>2, <1>3

\* They are what the definition says, element by element.
LEMMA SumsAre ==
  ASSUME NEW s \in Seq(Nat), NEW f, Sums(f, s)
  PROVE  /\ f[0] = 0
         /\ \A i \in 1 .. Len(s) : f[i] = f[i - 1] + s[i]
         /\ DOMAIN f = 0 .. Len(s)
<1> DEFINE g == [i \in 0 .. Len(s) |-> IF i = 0 THEN 0 ELSE f[i - 1] + s[i]]
<1>1. f = g
  BY DEF Sums
<1>2. g[0] = 0 /\ DOMAIN g = 0 .. Len(s)
  OBVIOUS
<1>3. \A i \in 1 .. Len(s) : g[i] = f[i - 1] + s[i]
  OBVIOUS
<1> QED BY <1>1, <1>2, <1>3

\* ... and there is only one such function, as far as two lists agree.
LEMMA SumsAgree ==
  ASSUME NEW s \in Seq(Nat), NEW r \in Seq(Nat), Len(s) <= Len(r),
         \A i \in 1 .. Len(s) : r[i] = s[i],
         NEW f, Sums(f, s), NEW g, Sums(g, r)
  PROVE  \A n \in 0 .. Len(s) : f[n] = g[n]
<1> DEFINE Bad == {n \in 0 .. Len(s) : f[n] # g[n]}
<1>1. SUFFICES ASSUME Bad # {} PROVE FALSE
  OBVIOUS
<1>2. PICK n \in Bad : \A m \in Bad : n <= m
  <2>1. Bad \in SUBSET Nat
    OBVIOUS
  <2> HIDE DEF Bad
  <2> QED BY <1>1, <2>1, LeastNumber
<1>3. n # 0
  BY <1>2, SumsAre
<1>4. n \in 1 .. Len(s) /\ n \in 1 .. Len(r) /\ n - 1 \notin Bad /\ n - 1 \in 0 .. Len(s)
  BY <1>2, <1>3
<1>5. f[n - 1] = g[n - 1]
  BY <1>4
<1>6. f[n] = f[n - 1] + s[n] /\ g[n] = g[n - 1] + r[n]
  BY <1>4, SumsAre
<1> QED BY <1>2, <1>4, <1>5, <1>6

\* Total(s) is the last of the sums of s.
LEMMA TotalIsSum ==
  ASSUME NEW s \in Seq(Nat)
  PROVE  \E f \in [0 .. Len(s) -> Nat] : Sums(f, s) /\ Total(s) = f[Len(s)]
<1> DEFINE f == CHOOSE g : Sums(g, s)
<1>1. Sums(f, s)
  BY SumsExist
<1>2. Total(s) = f[Len(s)]
  BY DEF Total, Sums
<1>3. PICK g \in [0 .. Len(s) -> Nat] : Sums(g, s)
  BY SumsExist
<1>4. \A n \in 0 .. Len(s) : f[n] = g[n]
  BY <1>1, <1>3, SumsAgree
<1>5. Len(s) \in 0 .. Len(s)
  OBVIOUS
<1> HIDE DEF f
<1> QED BY <1>2, <1>3, <1>4, <1>5

-----------------------------------------------------------------------------
(* Totals.                                                                  *)

\* The total of a list of numbers is a number.
LEMMA TotalType == \A s \in Seq(Nat) : Total(s) \in Nat
<1> SUFFICES ASSUME NEW s \in Seq(Nat) PROVE Total(s) \in Nat
  OBVIOUS
<1>1. Len(s) \in 0 .. Len(s)
  OBVIOUS
<1> QED BY <1>1, TotalIsSum

\* An empty list has the total 0.
LEMMA TotalEmpty == Total(<< >>) = 0
<1>1. << >> \in Seq(Nat) /\ Len(<< >>) = 0
  OBVIOUS
<1> QED BY <1>1, TotalIsSum, SumsAre

\* One more element adds to the total.
LEMMA TotalAppend ==
  ASSUME NEW s \in Seq(Nat), NEW n \in Nat
  PROVE  Total(Append(s, n)) = Total(s) + n
<1> DEFINE r == Append(s, n)
<1>1. /\ r \in Seq(Nat) /\ Len(r) = Len(s) + 1 /\ Len(s) \in Nat
      /\ \A i \in 1 .. Len(s) : r[i] = s[i]
      /\ r[Len(r)] = n
  BY AppendProperties
<1> HIDE DEF r
<1>2. PICK f \in [0 .. Len(s) -> Nat] : Sums(f, s) /\ Total(s) = f[Len(s)]
  BY TotalIsSum
<1>3. PICK g \in [0 .. Len(r) -> Nat] : Sums(g, r) /\ Total(r) = g[Len(r)]
  BY <1>1, TotalIsSum
<1>4. \A k \in 0 .. Len(s) : f[k] = g[k]
  BY <1>1, <1>2, <1>3, SumsAgree
<1>5. g[Len(r)] = g[Len(r) - 1] + r[Len(r)]
  <2>1. Len(r) \in 1 .. Len(r)
    BY <1>1
  <2> QED BY <1>1, <1>3, <2>1, SumsAre
<1>6. f[Len(s)] = g[Len(s)]
  BY <1>1, <1>4
<1>7. Total(r) = Total(s) + n
  BY <1>1, <1>2, <1>3, <1>5, <1>6
<1> QED BY <1>7 DEF r

\* The total of one span.
LEMMA TotalOne == \A n \in Nat : Total(<< n >>) = n
<1> SUFFICES ASSUME NEW n \in Nat PROVE Total(<< n >>) = n
  OBVIOUS
<1>1. << n >> \in Seq(Nat) /\ Len(<< n >>) = 1 /\ << n >>[1] = n
  OBVIOUS
<1>2. PICK f \in [0 .. 1 -> Nat] : Sums(f, << n >>) /\ Total(<< n >>) = f[1]
  BY <1>1, TotalIsSum
<1>3. f[0] = 0 /\ f[1] = f[0] + << n >>[1]
  BY <1>1, <1>2, SumsAre
<1> QED BY <1>1, <1>2, <1>3

\* A list of several spans is a shorter one and its last.
LEMMA LastOff ==
  ASSUME NEW S, NEW s \in Seq(S), NEW n \in 1 .. Len(s)
  PROVE  /\ SubSeq(s, 1, n) = Append(SubSeq(s, 1, n - 1), s[n])
         /\ SubSeq(s, 1, n - 1) \in Seq(S) /\ SubSeq(s, 1, n) \in Seq(S)
         /\ s[n] \in S /\ Len(SubSeq(s, 1, n)) = n
<1>1. /\ SubSeq(s, 1, n) \in Seq(S) /\ Len(SubSeq(s, 1, n)) = n
      /\ \A i \in 1 .. n : SubSeq(s, 1, n)[i] = s[i]
  BY SubSeqProperties
<1>2. /\ SubSeq(s, 1, n - 1) \in Seq(S) /\ Len(SubSeq(s, 1, n - 1)) = n - 1
      /\ \A i \in 1 .. n - 1 : SubSeq(s, 1, n - 1)[i] = s[i]
  BY SubSeqProperties
<1>3. s[n] \in S
  BY ElementOfSeq
<1> DEFINE a == SubSeq(s, 1, n - 1)
           b == SubSeq(s, 1, n)
           c == Append(a, s[n])
<1>4. c \in Seq(S) /\ Len(c) = n /\ c[n] = s[n] /\ \A i \in 1 .. n - 1 : c[i] = a[i]
  <2> HIDE DEF a
  <2> QED BY <1>2, <1>3, AppendProperties DEF a
<1>5. b = c
  <2>1. \A i \in 1 .. n : b[i] = c[i]
    <3> SUFFICES ASSUME NEW i \in 1 .. n PROVE b[i] = c[i]
      OBVIOUS
    <3>1. CASE i = n
      BY <1>1, <1>4, <3>1
    <3>2. CASE i # n
      <4>1. i \in 1 .. n - 1
        BY <3>2
      <4> QED BY <1>1, <1>2, <1>4, <4>1
    <3> QED BY <3>1, <3>2
  <2> HIDE DEF a, b, c
  <2> QED BY <1>1, <1>4, <2>1, SeqEqual DEF b
<1> QED BY <1>1, <1>2, <1>3, <1>5

\* One more span adds to the total, also behind others.
LEMMA TotalMore ==
  ASSUME NEW s \in Seq(Nat), NEW r \in Seq(Nat), NEW n \in Nat
  PROVE  Total(s \o Append(r, n)) = Total(s \o r) + n
<1>1. << n >> \in Seq(Nat) /\ s \o r \in Seq(Nat)
  BY ConcatProperties
<1>2. Append(r, n) = r \o << n >> /\ Append(s \o r, n) = (s \o r) \o << n >>
  BY <1>1, AppendIsConcat
<1>3. s \o (r \o << n >>) = (s \o r) \o << n >>
  BY <1>1, ConcatAssociative
<1>4. Total(Append(s \o r, n)) = Total(s \o r) + n
  BY <1>1, TotalAppend
<1> QED BY <1>2, <1>3, <1>4

\* The total of two lists, one after the other, is the sum of theirs.
LEMMA TotalConcat ==
  ASSUME NEW s \in Seq(Nat), NEW r \in Seq(Nat)
  PROVE  Total(s \o r) = Total(s) + Total(r)
<1> DEFINE Start(n) == SubSeq(r, 1, n)
    Bad == {n \in 0 .. Len(r) : Total(s \o Start(n)) # Total(s) + Total(Start(n))}
<1>1. Bad = {}
  <2>1. SUFFICES ASSUME Bad # {} PROVE FALSE
    OBVIOUS
  <2>2. PICK n \in Bad : \A m \in Bad : n <= m
    <3>1. Bad \in SUBSET Nat
      OBVIOUS
    <3> HIDE DEF Bad
    <3> QED BY <2>1, <3>1, LeastNumber
  <2>3. CASE n = 0
    <3>1. Start(0) = << >> /\ s \o << >> = s
      BY SubSeqEmpty, ConcatEmptySeq
    <3>2. Total(s \o << >>) = Total(s) + Total(<< >>)
      <4>1. Total(s) \in Nat
        BY TotalType
      <4> QED BY <3>1, <4>1, TotalEmpty
    <3> QED BY <2>2, <2>3, <3>1, <3>2
  <2>4. CASE n # 0
    <3>1. n - 1 \in 0 .. Len(r) /\ n - 1 \notin Bad /\ n \in 1 .. Len(r)
      <4>1. n \in 0 .. Len(r) /\ Len(r) \in Nat
        BY <2>2
      <4>2. n - 1 < n /\ n - 1 \in 0 .. Len(r) /\ n \in 1 .. Len(r)
        BY <2>4, <4>1
      <4> HIDE DEF Bad
      <4> QED BY <2>2, <4>1, <4>2
    <3>2. Total(s \o Start(n - 1)) = Total(s) + Total(Start(n - 1))
      BY <3>1
    <3>3. PICK a \in Seq(Nat) : a = Start(n - 1)
      BY <3>1, LastOff
    <3>4. Start(n) = Append(a, r[n]) /\ r[n] \in Nat
      BY <3>1, <3>3, LastOff
    <3>5. Total(s \o a) = Total(s) + Total(a)
      BY <3>2, <3>3
    <3>6. /\ Total(s \o Append(a, r[n])) = Total(s \o a) + r[n]
          /\ Total(Append(a, r[n])) = Total(a) + r[n]
          /\ Total(s) \in Nat /\ Total(a) \in Nat
      BY <3>4, TotalMore, TotalAppend, TotalType
    <3>7. Total(s \o Append(a, r[n])) = Total(s) + Total(Append(a, r[n]))
      BY <3>4, <3>5, <3>6
    <3> QED BY <2>2, <3>4, <3>7
  <2> QED BY <2>3, <2>4
<1>2. Len(r) \in 0 .. Len(r) /\ Start(Len(r)) = r
  BY SubSeqFull
<1> QED BY <1>1, <1>2

-----------------------------------------------------------------------------
(* One span of a list.                                                      *)

\* What a part of a list is.
LEMMA PartOf ==
  ASSUME NEW S, NEW s \in Seq(S), NEW m \in 1 .. Len(s) + 1, NEW n \in m - 1 .. Len(s)
  PROVE  /\ SubSeq(s, m, n) \in Seq(S)
         /\ Len(SubSeq(s, m, n)) = n - m + 1
         /\ \A k \in 1 .. n - m + 1 : SubSeq(s, m, n)[k] = s[m + k - 1]
<1>1. m \in Int /\ n \in Int /\ Len(s) \in Nat /\ n >= m - 1
  OBVIOUS
<1>2. \A i \in m .. n : s[i] \in S
  BY <1>1, ElementOfSeq
<1> QED BY <1>1, <1>2, SubSeqProperties

\* What lies before an element, and behind.
LEMMA PartBefore ==
  ASSUME NEW S, NEW s \in Seq(S), NEW i \in 1 .. Len(s)
  PROVE  /\ SubSeq(s, 1, i - 1) \in Seq(S)
         /\ Len(SubSeq(s, 1, i - 1)) = i - 1
         /\ \A k \in 1 .. i - 1 : SubSeq(s, 1, i - 1)[k] = s[k]
<1>1. 1 \in 1 .. Len(s) + 1 /\ i - 1 \in 1 - 1 .. Len(s)
  OBVIOUS
<1>2. /\ SubSeq(s, 1, i - 1) \in Seq(S)
      /\ Len(SubSeq(s, 1, i - 1)) = (i - 1) - 1 + 1
      /\ \A k \in 1 .. (i - 1) - 1 + 1 : SubSeq(s, 1, i - 1)[k] = s[1 + k - 1]
  BY <1>1, PartOf
<1> QED BY <1>2

LEMMA PartBehind ==
  ASSUME NEW S, NEW s \in Seq(S), NEW i \in 1 .. Len(s)
  PROVE  /\ SubSeq(s, i + 1, Len(s)) \in Seq(S)
         /\ Len(SubSeq(s, i + 1, Len(s))) = Len(s) - i
         /\ \A k \in 1 .. Len(s) - i : SubSeq(s, i + 1, Len(s))[k] = s[i + k]
<1>1. i + 1 \in 1 .. Len(s) + 1 /\ Len(s) \in (i + 1) - 1 .. Len(s)
  OBVIOUS
<1>2. /\ SubSeq(s, i + 1, Len(s)) \in Seq(S)
      /\ Len(SubSeq(s, i + 1, Len(s))) = Len(s) - (i + 1) + 1
      /\ \A k \in 1 .. Len(s) - (i + 1) + 1 : SubSeq(s, i + 1, Len(s))[k] = s[(i + 1) + k - 1]
  BY <1>1, PartOf
<1> QED BY <1>2

\* The sum up to a span is the sum up to the one before and that span.
LEMMA UpToStep ==
  ASSUME NEW s \in Seq(Nat), NEW i \in 1 .. Len(s)
  PROVE  /\ UpTo(s, i) = UpTo(s, i - 1) + s[i]
         /\ UpTo(s, i - 1) \in Nat /\ UpTo(s, i) \in Nat /\ s[i] \in Nat
<1>1. PICK a \in Seq(Nat) : a = SubSeq(s, 1, i - 1)
  BY LastOff
<1>2. s[i] \in Nat /\ SubSeq(s, 1, i) = Append(a, s[i])
  BY <1>1, LastOff
<1>3. Total(Append(a, s[i])) = Total(a) + s[i] /\ Total(a) \in Nat
  BY <1>2, TotalAppend, TotalType
<1>4. UpTo(s, i) = Total(Append(a, s[i])) /\ UpTo(s, i - 1) = Total(a)
  BY <1>1, <1>2 DEF UpTo
<1> QED BY <1>2, <1>3, <1>4

\* There is nothing before the first span, and the last one ends the whole.
LEMMA UpToEnds == \A s \in Seq(Nat) : UpTo(s, 0) = 0 /\ UpTo(s, Len(s)) = Total(s)
<1> SUFFICES ASSUME NEW s \in Seq(Nat)
             PROVE  UpTo(s, 0) = 0 /\ UpTo(s, Len(s)) = Total(s)
  OBVIOUS
<1>1. SubSeq(s, 1, 0) = << >> /\ SubSeq(s, 1, Len(s)) = s
  BY SubSeqEmpty, SubSeqFull
<1> QED BY <1>1, TotalEmpty DEF UpTo

\* The total is what lies before a span, that span, and what lies behind.
LEMMA TotalSplit ==
  ASSUME NEW s \in Seq(Nat), NEW i \in 1 .. Len(s)
  PROVE  LET behind == SubSeq(s, i + 1, Len(s))
         IN  /\ behind \in Seq(Nat) /\ Total(behind) \in Nat
             /\ Total(s) = UpTo(s, i - 1) + s[i] + Total(behind)
<1>1. PICK a \in Seq(Nat) : a = SubSeq(s, 1, i)
  BY LastOff
<1>2. PICK b \in Seq(Nat) : b = SubSeq(s, i + 1, Len(s))
  BY PartBehind
<1>3. s = a \o b
  <2>1. SubSeq(s, 1, Len(s)) = s
    BY SubSeqFull
  <2>2. 1 \in 1 .. Len(s) + 1 /\ i \in 1 - 1 .. Len(s) /\ Len(s) \in i .. Len(s)
    OBVIOUS
  <2>3. SubSeq(s, 1, i) \o SubSeq(s, i + 1, Len(s)) = SubSeq(s, 1, Len(s))
    BY <2>2, ConcatAdjacentSubSeq
  <2> QED BY <1>1, <1>2, <2>1, <2>3
<1>4. Total(s) = Total(a) + Total(b) /\ Total(b) \in Nat
  BY <1>3, TotalConcat, TotalType
<1> QED BY <1>1, <1>2, <1>4, UpToStep DEF UpTo

\* Spans that are the same up to one of them have the same sums up to there.
LEMMA UpToSame ==
  ASSUME NEW s \in Seq(Nat), NEW r \in Seq(Nat), NEW n \in 0 .. Len(s), n <= Len(r),
         \A k \in 1 .. n : r[k] = s[k]
  PROVE  UpTo(r, n) = UpTo(s, n)
<1>1. /\ SubSeq(s, 1, n) \in Seq(Nat) /\ Len(SubSeq(s, 1, n)) = n
      /\ \A k \in 1 .. n : SubSeq(s, 1, n)[k] = s[k]
  BY SubSeqProperties
<1>2. /\ SubSeq(r, 1, n) \in Seq(Nat) /\ Len(SubSeq(r, 1, n)) = n
      /\ \A k \in 1 .. n : SubSeq(r, 1, n)[k] = r[k]
  BY SubSeqProperties
<1>3. SubSeq(r, 1, n) = SubSeq(s, 1, n)
  BY <1>1, <1>2, SeqEqual
<1> QED BY <1>3 DEF UpTo

\* A span that changes changes the total by as much.
LEMMA TotalExcept ==
  ASSUME NEW s \in Seq(Nat), NEW i \in 1 .. Len(s), NEW n \in Nat
  PROVE  /\ [s EXCEPT ![i] = n] \in Seq(Nat)
         /\ Len([s EXCEPT ![i] = n]) = Len(s)
         /\ Total([s EXCEPT ![i] = n]) = Total(s) - s[i] + n
<1>1. PICK r \in Seq(Nat) : r = [s EXCEPT ![i] = n]
  BY ExceptSeq
<1>2. Len(r) = Len(s) /\ r[i] = n /\ \A k \in 1 .. Len(s) : k # i => r[k] = s[k]
  BY <1>1, ExceptSeq
<1>3. UpTo(r, i - 1) = UpTo(s, i - 1)
  <2>1. i - 1 \in 0 .. Len(s) /\ i - 1 <= Len(r) /\ \A k \in 1 .. i - 1 : r[k] = s[k]
    BY <1>2
  <2> QED BY <2>1, UpToSame
<1>4. SubSeq(r, i + 1, Len(r)) = SubSeq(s, i + 1, Len(s))
  <2> DEFINE m == Len(s) - i
  <2>1. /\ SubSeq(s, i + 1, Len(s)) \in Seq(Nat) /\ Len(SubSeq(s, i + 1, Len(s))) = m
        /\ \A k \in 1 .. m : SubSeq(s, i + 1, Len(s))[k] = s[i + k]
    BY PartBehind
  <2>2. /\ SubSeq(r, i + 1, Len(s)) \in Seq(Nat) /\ Len(SubSeq(r, i + 1, Len(s))) = m
        /\ \A k \in 1 .. m : SubSeq(r, i + 1, Len(s))[k] = r[i + k]
    <3>1. i \in 1 .. Len(r)
      BY <1>2
    <3>2. /\ SubSeq(r, i + 1, Len(r)) \in Seq(Nat)
          /\ Len(SubSeq(r, i + 1, Len(r))) = Len(r) - i
          /\ \A k \in 1 .. Len(r) - i : SubSeq(r, i + 1, Len(r))[k] = r[i + k]
      BY <3>1, PartBehind
    <3> QED BY <1>2, <3>2
  <2>3. \A k \in 1 .. m : r[i + k] = s[i + k]
    BY <1>2
  <2> QED BY <1>2, <2>1, <2>2, <2>3, SeqEqual
<1>5. i \in 1 .. Len(r)
  BY <1>2
<1>6. Total(r) = UpTo(r, i - 1) + r[i] + Total(SubSeq(r, i + 1, Len(r)))
  BY <1>5, TotalSplit
<1>7. Total(s) = UpTo(s, i - 1) + s[i] + Total(SubSeq(s, i + 1, Len(s)))
  BY TotalSplit
<1>8. PICK u \in Nat : u = UpTo(s, i - 1)
  BY UpToStep
<1>9. PICK v \in Nat : v = Total(SubSeq(s, i + 1, Len(s)))
  BY TotalSplit
<1>10. Total(r) = u + n + v /\ Total(s) = u + s[i] + v
  BY <1>2, <1>3, <1>4, <1>6, <1>7, <1>8, <1>9
<1>11. Total(r) = Total(s) - s[i] + n
  BY SMTT(60), <1>10, UpToStep
<1> QED BY <1>1, <1>2, <1>11

\* A span that is removed takes what it has.
LEMMA TotalDropped ==
  ASSUME NEW s \in Seq(Nat), NEW i \in 1 .. Len(s)
  PROVE  /\ Dropped(s, i) \in Seq(Nat)
         /\ Len(Dropped(s, i)) = Len(s) - 1
         /\ Total(Dropped(s, i)) = Total(s) - s[i]
<1>1. PICK a \in Seq(Nat) : a = SubSeq(s, 1, i - 1) /\ Len(a) = i - 1
  BY PartBefore
<1>2. PICK b \in Seq(Nat) : b = SubSeq(s, i + 1, Len(s)) /\ Len(b) = Len(s) - i
  BY PartBehind
<1>3. Dropped(s, i) = a \o b
  BY <1>1, <1>2 DEF Dropped, RemoveAt
<1>4. Total(a \o b) = Total(a) + Total(b) /\ Total(a) \in Nat /\ Total(b) \in Nat
  BY TotalConcat, TotalType
<1>5. Total(a) = UpTo(s, i - 1) /\ s[i] \in Nat
  BY <1>1, UpToStep DEF UpTo
<1>6. Total(s) = UpTo(s, i - 1) + s[i] + Total(b)
  BY <1>2, TotalSplit
<1>7. PICK c \in Seq(Nat) : c = a \o b /\ Len(c) = Len(a) + Len(b)
  BY ConcatProperties
<1>8. Total(c) = Total(s) - s[i]
  BY <1>4, <1>5, <1>6, <1>7
<1>9. Len(c) = Len(s) - 1
  <2>1. Len(c) = (i - 1) + (Len(s) - i)
    BY <1>1, <1>2, <1>7
  <2>2. Len(s) \in Nat /\ i \in Nat
    OBVIOUS
  <2> QED BY <2>1, <2>2
<1> QED BY <1>3, <1>7, <1>8, <1>9

-----------------------------------------------------------------------------
(* The searches.                                                            *)

\* findSpan finds a span of the list.
LEMMA FindSpanType ==
  ASSUME NEW s \in Seq(Nat), s # << >>, NEW offset \in Nat
  PROVE  findSpan(s, offset).index \in 1 .. Len(s)
<1> DEFINE found == {i \in DOMAIN s : UpTo(s, i) >= offset}
           f == IF found = {} THEN [index |-> 1, start |-> 0]
                ELSE [index |-> Least(found), start |-> UpTo(s, Least(found) - 1)]
<1>1. findSpan(s, offset) = f
  BY DEF findSpan, FirstWith
<1>2. DOMAIN s = 1 .. Len(s) /\ 1 \in 1 .. Len(s)
  BY EmptySeq
<1>3. ASSUME found # {} PROVE Least(found) \in found
  <2>1. found \in SUBSET Nat
    BY <1>2
  <2> HIDE DEF found
  <2> QED BY <1>3, <2>1, LeastNumber DEF Least
<1>4. f.index \in 1 .. Len(s)
  BY <1>2, <1>3
<1> QED BY <1>1, <1>4

\* findSpan2 finds the span an offset lies in, and where it starts; an offset that
\* is not in the list finds the first one.
LEMMA FindSpan2Is ==
  ASSUME NEW s \in Seq(Nat), s # << >>, NEW offset \in Nat,
         NEW f, f = findSpan2(s, offset)
  PROVE  /\ f.index \in 1 .. Len(s)
         /\ f.start = UpTo(s, f.index - 1) /\ f.start <= offset
         /\ IF offset < Total(s) THEN offset < f.start + s[f.index]
            ELSE f.index = 1
<1> DEFINE found == {i \in DOMAIN s : UpTo(s, i) > offset}
           g == IF found = {} THEN [index |-> 1, start |-> 0]
                ELSE [index |-> Least(found), start |-> UpTo(s, Least(found) - 1)]
<1>1. f = g
  BY DEF findSpan2, FirstWith
<1>2. DOMAIN s = 1 .. Len(s) /\ 1 \in 1 .. Len(s) /\ Len(s) \in 1 .. Len(s)
  BY EmptySeq
<1>3. CASE found = {}
  <2>1. f.index = 1 /\ f.start = 0
    BY <1>1, <1>3
  <2>2. ~ (UpTo(s, Len(s)) > offset)
    BY <1>2, <1>3
  <2>3. ~ (offset < Total(s))
    BY <2>2, UpToEnds, TotalType
  <2>4. UpTo(s, f.index - 1) = 0
    BY <2>1, UpToEnds
  <2> QED BY <1>2, <2>1, <2>3, <2>4
<1>4. CASE found # {}
  <2>1. found \in SUBSET Nat
    BY <1>2
  <2>2. PICK i \in Nat : i = Least(found) /\ i \in found /\ \A j \in found : i <= j
    <3> HIDE DEF found
    <3> QED BY <1>4, <2>1, LeastNumber DEF Least
  <2>3. f.index = i /\ f.start = UpTo(s, i - 1)
    <3> HIDE DEF found
    <3> QED BY <1>1, <1>4, <2>2
  <2>4. i \in 1 .. Len(s) /\ UpTo(s, i) > offset
    BY <1>2, <2>2
  <2>5. UpTo(s, i) = UpTo(s, i - 1) + s[i] /\ UpTo(s, i - 1) \in Nat /\ s[i] \in Nat
    BY <2>4, UpToStep
  <2>6. UpTo(s, i - 1) <= offset
    <3>1. CASE i = 1
      BY <3>1, UpToEnds
    <3>2. CASE i # 1
      <4>1. i - 1 \in DOMAIN s /\ i - 1 < i
        BY <1>2, <2>4, <3>2
      <4>2. i - 1 \notin found
        <5> HIDE DEF found
        <5> QED BY <2>2, <4>1
      <4> QED BY <2>5, <4>1, <4>2
    <3> QED BY <3>1, <3>2
  <2>7. offset < Total(s)
    <3>1. Total(s) = UpTo(s, i - 1) + s[i] + Total(SubSeq(s, i + 1, Len(s)))
      BY <2>4, TotalSplit
    <3>2. Total(SubSeq(s, i + 1, Len(s))) \in Nat
      BY <2>4, TotalSplit
    <3> QED BY <2>4, <2>5, <3>1, <3>2
  <2> QED BY <2>3, <2>4, <2>5, <2>6, <2>7
<1> QED BY <1>3, <1>4

-----------------------------------------------------------------------------
(* The edits.                                                               *)

\* No list of numbers is what an edit that throws leaves.
LEMMA NotBroken == \A s \in Seq(Nat) : s # Broken
<1> SUFFICES ASSUME NEW s \in Seq(Nat), s = Broken PROVE FALSE
  OBVIOUS
<1>1. Len(s) = 2 /\ s[1] = -1
  BY DEF Broken
<1>2. s[1] \in Nat
  BY SMTT(60), <1>1, ElementOfSeq
<1> QED BY <1>1, <1>2

\* onAdd adds what is inserted to the total, and takes nothing from any span.
THEOREM onAddIs ==
  ASSUME NEW s \in Seq(Nat), s # << >>, NEW offset \in Nat, NEW n \in Nat
  PROVE  /\ onAdd(s, offset, n) \in Seq(Nat)
         /\ Len(onAdd(s, offset, n)) = Len(s)
         /\ Total(onAdd(s, offset, n)) = Total(s) + n
         /\ \A k \in 1 .. Len(s) : onAdd(s, offset, n)[k] \in {s[k], s[k] + n}
<1>1. PICK i \in 1 .. Len(s) : i = findSpan(s, offset).index
  BY FindSpanType
<1>2. s[i] \in Nat /\ s[i] + n \in Nat
  BY ElementOfSeq
<1>3. PICK r : r = onAdd(s, offset, n)
  OBVIOUS
<1>4. r = [s EXCEPT ![i] = s[i] + n]
  BY <1>1, <1>3 DEF onAdd
<1>5. r \in Seq(Nat) /\ Len(r) = Len(s) /\ Total(r) = Total(s) - s[i] + (s[i] + n)
  BY <1>2, <1>4, TotalExcept
<1>6. \A k \in 1 .. Len(s) : r[k] = IF k = i THEN s[i] + n ELSE s[k]
  BY <1>2, <1>4, ExceptSeq
<1>7. Total(r) = Total(s) + n
  BY <1>2, <1>5, TotalType
<1> QED BY <1>3, <1>5, <1>6, <1>7

\* TakeOne takes one character out of a span that has one.
THEOREM TakeOneIs ==
  ASSUME NEW s \in Seq(Nat), NEW i \in 1 .. Len(s)
  PROVE  /\ TakeOne(s, i) \in Seq(Nat)
         /\ s[i] > 0 => Total(TakeOne(s, i)) = Total(s) - 1
<1>1. s[i] \in Nat /\ Total(s) \in Nat
  BY ElementOfSeq, TotalType
<1>2. PICK r : r = TakeOne(s, i)
  OBVIOUS
<1>3. CASE s[i] > 1
  <2>1. r = [s EXCEPT ![i] = s[i] - 1] /\ s[i] - 1 \in Nat
    BY <1>1, <1>2, <1>3 DEF TakeOne
  <2>2. r \in Seq(Nat) /\ Total(r) = Total(s) - s[i] + (s[i] - 1)
    BY <2>1, TotalExcept
  <2> QED BY <1>1, <1>2, <2>2
<1>4. CASE ~ (s[i] > 1)
  <2>1. r = Dropped(s, i)
    BY <1>2, <1>4 DEF TakeOne
  <2>2. r \in Seq(Nat) /\ Total(r) = Total(s) - s[i]
    BY <2>1, TotalDropped
  <2> QED BY <1>1, <1>2, <1>4, <2>2
<1> QED BY <1>3, <1>4

\* The total is what lies before a part, that part, and what lies behind it.
LEMMA TotalParts ==
  ASSUME NEW s \in Seq(Nat), NEW i \in 1 .. Len(s), NEW k \in 1 .. i
  PROVE  /\ Total(s) = Total(SubSeq(s, 1, k - 1)) + Total(SubSeq(s, k, i))
                         + Total(SubSeq(s, i + 1, Len(s)))
         /\ SubSeq(s, 1, k - 1) \in Seq(Nat) /\ SubSeq(s, k, i) \in Seq(Nat)
         /\ SubSeq(s, i + 1, Len(s)) \in Seq(Nat)
<1>1. /\ 1 \in 1 .. Len(s) + 1 /\ k - 1 \in 1 - 1 .. Len(s) /\ i \in k - 1 .. Len(s)
      /\ k \in 1 .. Len(s) /\ k \in 1 .. Len(s) + 1 /\ (k - 1) + 1 = k
  OBVIOUS
<1>2. PICK a \in Seq(Nat) : a = SubSeq(s, 1, k - 1)
  BY <1>1, PartBefore
<1>3. PICK b \in Seq(Nat) : b = SubSeq(s, k, i)
  BY <1>1, PartOf
<1>4. PICK c \in Seq(Nat) : c = SubSeq(s, i + 1, Len(s))
  BY PartBehind
<1>5. SubSeq(s, 1, i) = a \o b
  <2>1. SubSeq(s, 1, k - 1) \o SubSeq(s, (k - 1) + 1, i) = SubSeq(s, 1, i)
    BY <1>1, ConcatAdjacentSubSeq
  <2> QED BY <1>1, <1>2, <1>3, <2>1
<1>6. Total(s) = UpTo(s, i) + Total(c)
  BY <1>4, TotalSplit, UpToStep
<1>7. UpTo(s, i) = Total(a) + Total(b)
  BY <1>5, TotalConcat DEF UpTo
<1> QED BY <1>2, <1>3, <1>4, <1>6, <1>7

\* However many characters go, what is left is a list of numbers; it has lost that
\* many if there were as many up to the span.
LEMMA TakeBackwardsIs ==
  ASSUME NEW s \in Seq(Nat), NEW i \in 1 .. Len(s), NEW rest \in Nat
  PROVE  /\ TakeBackwards(s, i, rest) \in Seq(Nat)
         /\ rest <= UpTo(s, i) => Total(TakeBackwards(s, i, rest)) = Total(s) - rest
<1> DEFINE from == {k \in 1 .. i : Total(SubSeq(s, k, i)) >= rest}
           k == CHOOSE k \in from : \A j \in from : j <= k
<1>1. SubSeq(s, i + 1, Len(s)) \in Seq(Nat)
  BY PartBehind
<1>2. CASE from = {}
  <2>1. TakeBackwards(s, i, rest) = SubSeq(s, i + 1, Len(s))
    BY <1>2 DEF TakeBackwards
  <2>2. ~ (Total(SubSeq(s, 1, i)) >= rest) /\ Total(SubSeq(s, 1, i)) = UpTo(s, i)
    BY <1>2 DEF UpTo
  <2>3. UpTo(s, i) \in Nat
    BY UpToStep
  <2>4. ~ (rest <= UpTo(s, i))
    BY <2>2, <2>3
  <2> QED BY <1>1, <2>1, <2>4
<1>3. CASE from # {}
  <2>1. k \in from
    <3> DEFINE less == {i - j : j \in from}
    <3>1. less \in SUBSET Nat /\ less # {}
      BY <1>3
    <3>2. PICK m \in less : \A n \in less : m <= n
      <4> HIDE DEF less
      <4> QED BY <3>1, LeastNumber
    <3>3. PICK j \in from : m = i - j
      BY <3>2
    <3>4. \A h \in from : h <= j
      <4> SUFFICES ASSUME NEW h \in from PROVE h <= j
        OBVIOUS
      <4>1. i - h \in less /\ h \in Int /\ j \in Int /\ i \in Int
        BY <3>3
      <4>2. i - j <= i - h
        BY <3>2, <3>3, <4>1
      <4> QED BY <4>1, <4>2
    <3> HIDE DEF from
    <3> QED BY <3>3, <3>4
  <2>2. k \in 1 .. i /\ Total(SubSeq(s, k, i)) >= rest
    BY <2>1
  <2> HIDE DEF k
  <2>3. PICK a \in Seq(Nat), b \in Seq(Nat), c \in Seq(Nat) :
          /\ a = SubSeq(s, 1, k - 1) /\ b = SubSeq(s, k, i) /\ c = SubSeq(s, i + 1, Len(s))
          /\ Total(s) = Total(a) + Total(b) + Total(c)
    BY <2>2, TotalParts
  <2>4. PICK d \in Nat : d = Total(b) - rest
    <3>1. Total(b) \in Nat /\ Total(b) >= rest
      BY <2>2, <2>3, TotalType
    <3> QED BY <3>1
  <2>5. << d >> \in Seq(Nat) /\ Total(<< d >>) = d
    BY TotalOne
  <2>6. TakeBackwards(s, i, rest) = a \o << d >> \o c
    BY <1>3, <2>3, <2>4 DEF TakeBackwards, k
  <2>7. a \o << d >> \in Seq(Nat) /\ Total(a \o << d >>) = Total(a) + d
    BY <2>5, ConcatProperties, TotalConcat
  <2>8. /\ (a \o << d >>) \o c \in Seq(Nat)
        /\ Total((a \o << d >>) \o c) = Total(a \o << d >>) + Total(c)
    BY <2>7, ConcatProperties, TotalConcat
  <2>9. PICK q \in Seq(Nat) : /\ q = (a \o << d >>) \o c
                              /\ Total(q) = (Total(a) + (Total(b) - rest)) + Total(c)
    BY <2>4, <2>7, <2>8
  <2>10. Total(a) \in Nat /\ Total(b) \in Nat /\ Total(c) \in Nat
    BY TotalType
  <2>11. Total(q) = Total(s) - rest
    BY <2>3, <2>9, <2>10
  <2> QED BY <2>6, <2>9, <2>11
<1> QED BY <1>2, <1>3

LEMMA onDelType ==
  ASSUME NEW s \in Seq(Nat), NEW offset \in Nat, NEW n \in Nat, NEW size \in Nat
  PROVE  onDel(s, offset, n, size) \in Seq(Nat) \union {Broken}
<1>1. Cleared(0) \in Seq(Nat)
  BY DEF Cleared
<1>2. CASE size = 0 \/ s = << >>
  BY <1>1, <1>2 DEF onDel
<1>3. CASE size # 0 /\ s # << >>
  <2>1. PICK f : f = findSpan2(s, offset)
    OBVIOUS
  <2>2. f.index \in 1 .. Len(s) /\ f.start \in Nat /\ f.start <= offset
    <3>1. f.index \in 1 .. Len(s) /\ f.start = UpTo(s, f.index - 1) /\ f.start <= offset
      BY <1>3, <2>1, FindSpan2Is
    <3> QED BY <3>1, UpToStep
  <2>3. CASE n = 1
    <3>1. onDel(s, offset, n, size) = TakeOne(s, f.index)
      BY <1>3, <2>1, <2>3 DEF onDel
    <3> QED BY <2>2, <3>1, TakeOneIs
  <2>4. CASE n # 1
    <3>1. onDel(s, offset, n, size) = TakeMany(s, f, offset, n)
      BY <1>3, <2>1, <2>4 DEF onDel
    <3>2. PICK l \in Nat : l = offset - f.start
      BY <2>2
    <3> DEFINE cut == IF s[f.index] > l THEN [s EXCEPT ![f.index] = @ - l]
                      ELSE RemoveAt(s, f.index)
    <3>3. cut \in Seq(Nat)
      <4>1. CASE s[f.index] > l
        <5>1. s[f.index] - l \in Nat
          BY <2>2, <3>2, <4>1, ElementOfSeq
        <5> QED BY <2>2, <4>1, <5>1, ExceptSeq
      <4>2. CASE ~ (s[f.index] > l)
        BY <2>2, <4>2, TotalDropped DEF Dropped
      <4> QED BY <4>1, <4>2
    <3>4. TakeMany(s, f, offset, n) =
            IF n <= l THEN cut
            ELSE IF f.index > Len(cut) THEN Broken
            ELSE TakeBackwards(cut, f.index, n - l)
      BY <3>2 DEF TakeMany
    <3> HIDE DEF cut
    <3>5. CASE n <= l
      BY <3>1, <3>3, <3>4, <3>5
    <3>6. CASE ~ (n <= l) /\ f.index > Len(cut)
      BY <3>1, <3>4, <3>6
    <3>7. CASE ~ (n <= l) /\ ~ (f.index > Len(cut))
      <4>1. n - l \in Nat /\ f.index \in 1 .. Len(cut)
        <5>1. Len(cut) \in Nat /\ f.index \in Nat \ {0} /\ l \in Nat
          BY <2>2, <3>2, <3>3
        <5> QED BY <3>7, <5>1
      <4>2. TakeBackwards(cut, f.index, n - l) \in Seq(Nat)
        BY <3>3, <4>1, TakeBackwardsIs
      <4> QED BY <3>1, <3>4, <3>7, <4>2
    <3> QED BY <3>5, <3>6, <3>7
  <2> QED BY <2>3, <2>4
<1> QED BY <1>2, <1>3

\* One character that the spans have is always taken in full.
THEOREM OneIsTaken ==
  ASSUME NEW s \in Seq(Nat), s # << >>, NEW offset \in Nat, offset < Total(s)
  PROVE  TakesAll(s, offset, 1)
<1>1. PICK f : f = findSpan2(s, offset)
  OBVIOUS
<1>2. f.index \in 1 .. Len(s) /\ f.start = UpTo(s, f.index - 1) /\ f.start <= offset
      /\ offset < f.start + s[f.index]
  BY <1>1, FindSpan2Is
<1>3. f.start \in Nat /\ s[f.index] \in Nat
  BY <1>2, UpToStep
<1>4. s[f.index] > 0
  BY <1>2, <1>3
<1> QED BY <1>1, <1>4 DEF TakesAll

\* onDel takes the right number of characters when TakesAll says so, also when it takes
\* them before the offset and out of several spans.
THEOREM onDelTakes ==
  ASSUME NEW s \in Seq(Nat), s # << >>, NEW offset \in Nat, NEW n \in Nat \ {0},
         NEW size \in Nat \ {0}, TakesAll(s, offset, n)
  PROVE  /\ onDel(s, offset, n, size) \in Seq(Nat)
         /\ Total(onDel(s, offset, n, size)) = Total(s) - n
<1>1. PICK f : f = findSpan2(s, offset)
  OBVIOUS
<1>2. PICK i \in 1 .. Len(s) : i = f.index
  BY <1>1, FindSpan2Is
<1>3. PICK u \in Nat : u = UpTo(s, i - 1)
  BY UpToStep
<1>4. /\ f.start = u /\ u <= offset /\ (offset < Total(s) => offset < u + s[i])
      /\ s[i] \in Nat /\ UpTo(s, i) = u + s[i] /\ Total(s) \in Nat
  <2>1. /\ f.start = UpTo(s, f.index - 1) /\ f.start <= offset
        /\ offset < Total(s) => offset < f.start + s[f.index]
    BY <1>1, FindSpan2Is
  <2>2. s[i] \in Nat /\ UpTo(s, i) = u + s[i]
    BY <1>3, UpToStep
  <2> QED BY <1>2, <1>3, <2>1, <2>2, TotalType
<1>5. \/ n = 1 /\ s[i] > 0
      \/ offset < Total(s) /\ offset - u <= n /\ n <= UpTo(s, i)
  BY <1>1, <1>2, <1>4 DEF TakesAll
<1>6. CASE n = 1
  <2>1. onDel(s, offset, n, size) = TakeOne(s, i)
    BY <1>1, <1>2, <1>6 DEF onDel
  <2>2. s[i] > 0
    BY <1>4, <1>5
  <2> QED BY <1>6, <2>1, <2>2, TakeOneIs
<1>7. CASE n # 1
  <2>1. onDel(s, offset, n, size) = TakeMany(s, f, offset, n)
    BY <1>1, <1>7 DEF onDel
  <2>2. PICK l \in Nat : l = offset - f.start
    BY <1>4
  <2>3. l <= n /\ n <= u + s[i] /\ s[i] > l /\ s[i] - l \in Nat
    BY <1>4, <1>5, <1>7, <2>2
  <2>4. PICK cut : cut = [s EXCEPT ![i] = s[i] - l]
    OBVIOUS
  <2>5. cut \in Seq(Nat) /\ Len(cut) = Len(s) /\ Total(cut) = Total(s) - s[i] + (s[i] - l)
    BY <2>3, <2>4, TotalExcept
  <2>6. \A k \in 1 .. Len(s) : cut[k] = IF k = i THEN s[i] - l ELSE s[k]
    BY <2>3, <2>4, ExceptSeq
  <2>7. UpTo(cut, i) = u + (s[i] - l)
    <3>1. i - 1 \in 0 .. Len(s) /\ i - 1 <= Len(cut) /\ \A k \in 1 .. i - 1 : cut[k] = s[k]
      BY <2>5, <2>6
    <3>2. UpTo(cut, i - 1) = u
      BY <1>3, <2>5, <3>1, UpToSame
    <3>3. i \in 1 .. Len(cut) /\ cut[i] = s[i] - l
      BY <2>5, <2>6
    <3> QED BY <2>5, <3>2, <3>3, UpToStep
  <2>8. TakeMany(s, f, offset, n) =
          IF n <= l THEN cut
          ELSE IF i > Len(cut) THEN Broken
          ELSE TakeBackwards(cut, i, n - l)
    BY <1>2, <2>2, <2>3, <2>4 DEF TakeMany
  <2>9. CASE n <= l
    BY <1>4, <2>1, <2>3, <2>5, <2>8, <2>9
  <2>10. CASE ~ (n <= l)
    <3>1. PICK rest \in Nat : rest = n - l
      BY <2>3
    <3>2. i \in 1 .. Len(cut) /\ ~ (i > Len(cut)) /\ rest <= UpTo(cut, i)
      <4>1. i \in 1 .. Len(cut) /\ ~ (i > Len(cut))
        BY <2>5
      <4>2. rest <= u + (s[i] - l)
        BY <1>4, <2>3, <3>1
      <4> QED BY <2>7, <4>1, <4>2
    <3>3. /\ TakeBackwards(cut, i, rest) \in Seq(Nat)
          /\ Total(TakeBackwards(cut, i, rest)) = Total(cut) - rest
      BY <2>5, <3>2, TakeBackwardsIs
    <3>4. Total(cut) - rest = Total(s) - n
      <4>1. PICK v \in Nat : v = Total(s)
        BY <1>4
      <4>2. Total(cut) = v - l
        BY <1>4, <2>3, <2>5, <4>1
      <4> QED BY <3>1, <4>1, <4>2
    <3>5. onDel(s, offset, n, size) = TakeBackwards(cut, i, rest)
      BY <2>1, <2>8, <2>10, <3>1, <3>2
    <3> QED BY <3>3, <3>4, <3>5
  <2> QED BY <2>9, <2>10
<1> QED BY <1>6, <1>7

-----------------------------------------------------------------------------
(* The inductive invariant, part by part.                                   *)

\* A text is read, and given to a worker, by one call of tokenize(); a closed field
\* calls it no more.
CallsInv ==
  /\ version <= IF ui \in {"idle", "start"} THEN calls ELSE calls + 1
  /\ ui \in {"tokenize", "abort", "create"} /\ ~closed => calls < MaxCalls
  /\ ui \in {"idle", "start"} => calls > 0
  /\ ui \in {"idle", "tokenize", "create", "start"} => ~closed
  /\ ui \in {"close", "closed"} => closed

\* A scan sees no text before it began and none after the one there is.
ReadInv ==
  /\ \A t \in LexThread : pc[t] \in {"scanning", "posting"} =>
       /\ read[t].from \in 1 .. version /\ read[t].to \in read[t].from .. version
  /\ \A i \in 1 .. Len(posted) :
       /\ posted[i].from \in 1 .. version /\ posted[i].to \in posted[i].from .. version

\* _workerThread is the latest thread or null; it is null when tokenize() makes one.
FieldInv ==
  /\ _workerThread \in {calls, None}
  /\ ui = "create" => _workerThread = None
  /\ ui = "start" => pc[calls] = "none"
  /\ \A t \in LexThread : _abort[t] => t <= calls /\ (t = calls => ui \in {"create", "closed", "crashed"})

\* Undisturbed, the latest thread alone may post a result, ...
LatestInv ==
  Undisturbed =>
    /\ InTokenize => Ending = {}
    /\ Ending \subseteq {calls}
    /\ ui = "start" => _workerThread = calls
    /\ \A t \in LexThread : pc[t] \in {"started", "scanning"} /\ ~_abort[t] =>
         _workerThread = t /\ Ending = {}

\* ... so the results come in the order of their threads, ...
OrderInv ==
  /\ \A i \in 1 .. Len(posted) : pc[posted[i].by] \in {"posted", "done"}
  /\ shown.by \in LexThread => pc[shown.by] \in {"posted", "done"}
  /\ Undisturbed =>
       /\ \A i \in 1 .. Len(posted) : posted[i].by > shown.by
       /\ \A i, j \in 1 .. Len(posted) : i < j => posted[i].by < posted[j].by

\* ... and between two edits the latest thread reads the text as it is.
FreshInv ==
  Undisturbed /\ ui = "idle" =>
    /\ pc[calls] # "none"
    /\ pc[calls] \in {"scanning", "posting"} => read[calls].from = version
    /\ pc[calls] \in {"posted", "done"} =>
         IF posted = << >> THEN shown = [by |-> calls, from |-> version]
         ELSE posted[Len(posted)].by = calls /\ posted[Len(posted)].from = version

HandOverInv == CallsInv /\ ReadInv /\ FieldInv /\ LatestInv /\ OrderInv /\ FreshInv
IInv == TypeOK /\ HandOverInv /\ SpansCoverText

-----------------------------------------------------------------------------
(* What an edit does.                                                       *)

\* The text has a length.
LEMMA LengthType ==
  ASSUME TypeOK
  PROVE  length \in 0 .. MaxLength /\ version \in Nat \ {0} /\ MaxLength \in Nat
<1>1. MaxLength \in Nat /\ MaxCalls \in Nat
  BY LexingAssumption
<1>2. lengths \in Seq(0 .. MaxLength) /\ version = Len(lengths) /\ version \in 1 .. MaxCalls
  BY DEF TypeOK, version
<1>3. version \in 1 .. Len(lengths) /\ version \in Nat \ {0}
  BY <1>1, <1>2
<1>4. lengths[version] \in 0 .. MaxLength
  BY <1>2, <1>3, ElementOfSeq
<1> QED BY <1>1, <1>3, <1>4 DEF length

\* A new text leaves the older ones as they were.
LEMMA NewText ==
  ASSUME TypeOK, NEW l \in 0 .. MaxLength, lengths' = Append(lengths, l)
  PROVE  /\ lengths' \in Seq(0 .. MaxLength)
         /\ version' = version + 1 /\ length' = l
<1>1. /\ Append(lengths, l) \in Seq(0 .. MaxLength)
      /\ Len(Append(lengths, l)) = Len(lengths) + 1
      /\ Append(lengths, l)[Len(lengths) + 1] = l
  BY AppendProperties DEF TypeOK
<1> QED BY <1>1 DEF version, length

\* Whatever the edit, there is a new text, with spans made of numbers, and the call
\* of tokenize() is next.
LEMMA EditEffect ==
  ASSUME TypeOK, Edit
  PROVE  /\ ui = "idle" /\ calls < MaxCalls
         /\ \E l \in 0 .. MaxLength : lengths' = Append(lengths, l)
         /\ ui' \in {"tokenize", "crashed"}
         /\ spans' \in Seq(Nat)
         /\ exact' \in BOOLEAN
         /\ UNCHANGED <<calls, lexVars, posted, shown, seen, closed>>
<1>1. PICK e \in Edits : \/ e[1] = "insert" /\ Insert(e[2], e[3])
                         \/ e[1] = "delete" /\ Delete(e[2], e[3])
                         \/ e[1] = "shift back" /\ ShiftGapBack(e[2], e[3])
  BY DEF Edit
<1>2. e[2] \in Nat /\ e[3] \in Nat \ {0}
  BY LexingAssumption
<1>3. spans \in Seq(Nat) /\ exact \in BOOLEAN
  BY DEF TypeOK, HandOverTypeOK
<1>4. ASSUME NEW l \in 0 .. MaxLength, NEW after \in Seq(Nat) \union {Broken},
             CanEdit, Edited(l, after), exact' \in BOOLEAN
      PROVE  /\ ui = "idle" /\ calls < MaxCalls
             /\ \E m \in 0 .. MaxLength : lengths' = Append(lengths, m)
             /\ ui' \in {"tokenize", "crashed"}
             /\ spans' \in Seq(Nat)
             /\ exact' \in BOOLEAN
             /\ UNCHANGED <<calls, lexVars, posted, shown, seen, closed>>
  BY <1>3, <1>4 DEF CanEdit, Edited
<1>5. CASE Insert(e[2], e[3])
  <2>1. length + e[3] \in 0 .. MaxLength
    BY <1>2, <1>5, LengthType DEF Insert
  <2>2. onAdd(spans, e[2], e[3]) \in Seq(Nat)
    <3>1. CASE spans = << >>
      BY <1>3, <3>1 DEF onAdd
    <3>2. CASE spans # << >>
      BY <1>2, <1>3, <3>2, onAddIs
    <3> QED BY <3>1, <3>2
  <2>3. CanEdit /\ Edited(length + e[3], onAdd(spans, e[2], e[3])) /\ exact' \in BOOLEAN
    BY <1>3, <1>5 DEF Insert
  <2> QED BY <1>4, <2>1, <2>2, <2>3
<1>6. CASE Delete(e[2], e[3])
  <2>1. length - e[3] \in 0 .. MaxLength /\ length - e[3] \in Nat
    BY <1>2, <1>6, LengthType DEF Delete
  <2>2. onDel(spans, e[2], e[3], length - e[3]) \in Seq(Nat) \union {Broken}
    BY <1>2, <1>3, <2>1, onDelType
  <2>3. /\ CanEdit /\ Edited(length - e[3], onDel(spans, e[2], e[3], length - e[3]))
        /\ exact' \in BOOLEAN
    BY <1>6 DEF Delete
  <2> QED BY <1>4, <2>1, <2>2, <2>3
<1>7. CASE ShiftGapBack(e[2], e[3])
  <2>1. length - e[3] \in 0 .. MaxLength /\ length \in Nat
    BY <1>2, <1>7, LengthType DEF ShiftGapBack
  <2>2. onDel(spans, e[2], e[3], length) \in Seq(Nat) \union {Broken}
    BY <1>2, <1>3, <2>1, onDelType
  <2>3. /\ CanEdit /\ Edited(length - e[3], onDel(spans, e[2], e[3], length))
        /\ exact' \in BOOLEAN
    BY <1>7 DEF ShiftGapBack
  <2> QED BY <1>4, <2>1, <2>2, <2>3
<1> QED BY <1>1, <1>5, <1>6, <1>7

\* The spans are kept in step with the text by the edits that are said to do so.
LEMMA EditKeepsSpans ==
  ASSUME TypeOK, SpansCoverText, Edit
  PROVE  SpansCoverText'
<1>1. PICK e \in Edits : \/ e[1] = "insert" /\ Insert(e[2], e[3])
                         \/ e[1] = "delete" /\ Delete(e[2], e[3])
                         \/ e[1] = "shift back" /\ ShiftGapBack(e[2], e[3])
  BY DEF Edit
<1>2. PICK o \in Nat, n \in Nat \ {0} : o = e[2] /\ n = e[3]
  BY LexingAssumption
<1>3. spans \in Seq(Nat) /\ exact \in BOOLEAN /\ length \in 0 .. MaxLength /\ MaxLength \in Nat
  BY LengthType DEF TypeOK, HandOverTypeOK
<1>4. exact => Total(spans) = length /\ spans # << >>
  BY DEF SpansCoverText
\* What is to be shown of the spans an edit leaves.
<1> DEFINE Good(r, l) == r \in Seq(Nat) /\ Total(r) = l /\ r # << >>
<1>5. ASSUME NEW l \in 0 .. MaxLength, NEW r, Edited(l, r), exact' => Good(r, l)
      PROVE  SpansCoverText'
  <2>1. lengths' = Append(lengths, l)
    BY <1>5 DEF Edited
  <2>2. length' = l
    BY <1>5, <2>1, NewText
  <2>3. exact' => spans' = r
    BY <1>5, NotBroken DEF Edited
  <2> QED BY <1>5, <2>2, <2>3 DEF SpansCoverText
<1>6. CASE Insert(o, n)
  <2>1. PICK r : r = onAdd(spans, o, n)
    OBVIOUS
  <2>2. length + n \in 0 .. MaxLength /\ Edited(length + n, r) /\ exact' = exact
    BY <1>3, <1>6, <2>1 DEF Insert
  <2>3. ASSUME exact PROVE Good(r, length + n)
    <3>1. r \in Seq(Nat) /\ Len(r) = Len(spans) /\ Total(r) = Total(spans) + n
      BY <1>3, <1>4, <2>1, <2>3, onAddIs
    <3>2. r # << >>
      BY <1>3, <1>4, <2>3, <3>1, EmptySeq
    <3> QED BY <1>4, <2>3, <3>1, <3>2
  <2> QED BY <1>5, <2>2, <2>3
\* Some of several characters are taken.
<1>7. ASSUME NEW size \in Nat \ {0}, exact, n < length, TakesAll(spans, o, n),
             NEW r, r = onDel(spans, o, n, size)
      PROVE  Good(r, length - n)
  <2>1. r \in Seq(Nat) /\ Total(r) = length - n
    BY <1>3, <1>4, <1>7, onDelTakes
  <2>2. r # << >>
    BY <1>3, <1>7, <2>1, TotalEmpty
  <2> QED BY <2>1, <2>2
\* All of them are taken.
<1>8. Good(Cleared(0), 0)
  BY TotalOne DEF Cleared
<1>9. CASE Delete(o, n)
  <2>1. PICK r : r = onDel(spans, o, n, length - n)
    OBVIOUS
  <2>2. /\ o + n <= length /\ Edited(length - n, r)
        /\ exact' => length = n \/ (exact /\ TakesAll(spans, o, n))
    BY <1>9, <2>1, Zenon DEF Delete
  <2>3. length - n \in 0 .. MaxLength
    BY <1>3, <2>2
  <2>4. CASE length = n
    <3>1. r = Cleared(0) /\ length - n = 0
      BY <1>3, <2>1, <2>4 DEF onDel
    <3> QED BY <1>5, <1>8, <2>2, <2>3, <3>1
  <2>5. CASE length # n
    <3>1. ASSUME exact' PROVE Good(r, length - n)
      <4>1. exact /\ TakesAll(spans, o, n) /\ n < length /\ length - n \in Nat \ {0}
        BY <1>3, <2>2, <2>5, <3>1
      <4> HIDE DEF Good
      <4> QED BY <1>7, <2>1, <4>1
    <3> QED BY <1>5, <2>2, <2>3, <3>1
  <2> QED BY <2>4, <2>5
<1>10. CASE ShiftGapBack(o, n)
  <2>1. PICK r : r = onDel(spans, o, n, length)
    OBVIOUS
  <2>2. /\ n <= o /\ o <= length /\ Edited(length - n, r)
        /\ exact' => exact /\ n < length /\ TakesAll(spans, o, n)
    BY <1>10, <2>1, Zenon DEF ShiftGapBack
  <2>3. length - n \in 0 .. MaxLength
    BY <1>3, <2>2
  <2>4. ASSUME exact' PROVE Good(r, length - n)
    <3>1. exact /\ TakesAll(spans, o, n) /\ n < length /\ length \in Nat \ {0}
      BY <1>3, <2>2, <2>4
    <3> HIDE DEF Good
    <3> QED BY <1>7, <2>1, <3>1
  <2> QED BY <1>5, <2>2, <2>3, <2>4
<1> QED BY <1>1, <1>2, <1>6, <1>9, <1>10

-----------------------------------------------------------------------------
(* Types.                                                                   *)

\* A finding is a list of spans, empty only where the scan threw.
LEMMA FoundType ==
  ASSUME TypeOK, NEW scan, scan.from \in 1 .. version, scan.to \in 1 .. version,
         NEW r \in Found(scan)
  PROVE  /\ r \in Seq(Nat)
         /\ ~ scan.threw => r # << >>
<1>1. lengths[scan.from] \in Nat /\ lengths[scan.to] \in Nat
  <2>1. version = Len(lengths) /\ lengths \in Seq(0 .. MaxLength)
    BY DEF TypeOK, version
  <2>2. lengths[scan.from] \in 0 .. MaxLength /\ lengths[scan.to] \in 0 .. MaxLength
    BY <2>1, ElementOfSeq
  <2>3. MaxLength \in Nat
    BY LexingAssumption
  <2> QED BY <2>2, <2>3
<1>2. ASSUME NEW l \in Nat
      PROVE  LET t == Tokenized(l)
             IN  t \in Seq(Nat) /\ t # << >>
  BY <1>2 DEF Tokenized
<1>3. CASE scan.threw
  BY <1>3 DEF Found
<1>4. CASE ~ scan.threw
  <2>1. \/ \E l \in Nat : r = Tokenized(l)
        \/ r = << 1 >>
    BY <1>1, <1>4 DEF Found
  <2>2. CASE r = << 1 >>
    BY <2>2
  <2>3. CASE \E l \in Nat : r = Tokenized(l)
    BY <1>2, <2>3
  <2> QED BY <2>1, <2>2, <2>3
<1> QED BY <1>3, <1>4

\* A result that is delivered is of texts there were, and its spans are numbers.
LEMMA DeliverEffect ==
  ASSUME IInv, Deliver
  PROVE  /\ Head(posted) \in [by : LexThread, from : Texts, to : Texts, threw : BOOLEAN]
         /\ Head(posted) = posted[1]
         /\ posted' \in Seq([by : LexThread, from : Texts, to : Texts, threw : BOOLEAN])
         /\ Len(posted) \in Nat \ {0} /\ Len(posted') = Len(posted) - 1
         /\ \A i \in 1 .. Len(posted') : posted'[i] = posted[i + 1]
         /\ spans' \in Seq(Nat)
         /\ SpansCoverText'
<1> DEFINE ResultType == [by : LexThread, from : Texts, to : Texts, threw : BOOLEAN]
           r == Head(posted)
<1>1. posted \in Seq(ResultType) /\ posted # << >> /\ posted' = Tail(posted)
  BY DEF IInv, TypeOK, HandOverTypeOK, Deliver
<1>2. /\ Tail(posted) \in Seq(ResultType) /\ Len(Tail(posted)) = Len(posted) - 1
      /\ \A i \in 1 .. Len(Tail(posted)) : Tail(posted)[i] = posted[i + 1]
      /\ r \in ResultType /\ r = posted[1] /\ Len(posted) \in Nat \ {0}
  <2> HIDE DEF ResultType
  <2> QED BY <1>1, HeadTailProperties, EmptySeq
<1>3. r.from \in 1 .. version /\ r.to \in 1 .. version
  <2>1. posted[1].from \in 1 .. version /\ posted[1].to \in posted[1].from .. version
    BY <1>2 DEF IInv, HandOverInv, ReadInv
  <2>2. version \in Nat
    BY LengthType DEF IInv
  <2> QED BY <1>2, <2>1, <2>2
<1>4. spans' \in Found(r) /\ lengths' = lengths
  BY DEF Deliver
<1>5. TypeOK
  BY DEF IInv
<1>6. spans' \in Seq(Nat)
  BY <1>3, <1>4, <1>5, FoundType
<1>7. exact' => ~ r.threw /\ Total(spans') = length
  BY Zenon DEF Deliver
<1>8. exact' => spans' # << >>
  BY <1>3, <1>4, <1>5, <1>7, FoundType
<1>9. length' = length
  BY <1>4 DEF length, version
<1>10. SpansCoverText'
  BY <1>7, <1>8, <1>9 DEF SpansCoverText
<1> QED BY <1>1, <1>2, <1>6, <1>10

\* Every step keeps the texts and their spans what they are.
LEMMA TextStep ==
  ASSUME IInv, Step
  PROVE  /\ lengths' \in Seq(0 .. MaxLength) /\ version' \in Nat
         /\ spans' \in Seq(Nat)
         /\ SpansCoverText'
         /\ version' = IF Edit THEN version + 1 ELSE version
<1>1. TypeOK /\ SpansCoverText /\ lengths \in Seq(0 .. MaxLength) /\ spans \in Seq(Nat)
  BY DEF IInv, TypeOK
<1>2. version \in Nat
  BY <1>1, LengthType
<1>3. CASE Edit
  <2>1. PICK l \in 0 .. MaxLength : lengths' = Append(lengths, l)
    BY <1>1, <1>3, EditEffect
  <2>2. lengths' \in Seq(0 .. MaxLength) /\ version' = version + 1
    BY <1>1, <2>1, NewText
  <2> QED BY <1>1, <1>2, <1>3, <2>2, EditEffect, EditKeepsSpans
<1>4. CASE ~ Edit /\ Deliver
  <2>1. lengths' = lengths
    BY <1>4 DEF Deliver
  <2> QED BY <1>1, <1>2, <1>4, <2>1, DeliverEffect DEF version
<1>5. CASE ~ Edit /\ Paint
  <2>1. lengths' = lengths /\ exact' = exact /\ spans = << >> /\ spans' = << 0 >>
    BY <1>5 DEF Paint, historyVars
  <2>2. ~ exact'
    BY <1>1, <2>1 DEF SpansCoverText
  <2> QED BY <1>1, <1>2, <1>5, <2>1, <2>2 DEF version, SpansCoverText
<1>6. CASE ~ Edit /\ UNCHANGED <<lengths, spans, exact>>
  BY <1>1, <1>2, <1>6 DEF version, length, SpansCoverText
<1>7. ASSUME respan \/ cancelSpanning \/ Tokenize
      PROVE  UNCHANGED <<lengths, spans, exact>>
  BY <1>7 DEF respan, cancelSpanning, Tokenize, FindWorker, AbortWorker, CreateWorker,
     StartWorker, textVars, historyVars
<1>8. ASSUME NEW t \in LexThread, Work(t)
      PROVE  UNCHANGED <<lengths, spans, exact>>
  BY <1>8 DEF Work, Begin, Scan, PostResult, ForgetWorker, textVars, historyVars
<1> QED BY <1>3, <1>4, <1>5, <1>6, <1>7, <1>8 DEF Step

\* Every step of the program keeps the types of the hand-over.
LEMMA HandOverTypeStep ==
  ASSUME IInv, Next
  PROVE  HandOverTypeOK'
<1> DEFINE Pc == {"none", "started", "scanning", "posting", "posted", "done"}
           Read == [from : Texts, to : Texts, threw : BOOLEAN]
           ResultType == [by : LexThread, from : Texts, to : Texts, threw : BOOLEAN]
<1>1. /\ TypeOK
      /\ HandOverTypeOK
      /\ calls \in 0 .. MaxCalls /\ _workerThread \in (1 .. calls) \union {None}
      /\ pc \in [LexThread -> Pc] /\ \A t \in LexThread : t > calls => pc[t] = "none"
      /\ _abort \in [LexThread -> BOOLEAN] /\ read \in [LexThread -> Read]
      /\ posted \in Seq(ResultType)
      /\ shown \in [by : Texts, from : Texts] /\ seen \in Texts
      /\ exact \in BOOLEAN /\ closed \in BOOLEAN /\ disturbed \in BOOLEAN
  BY DEF IInv, TypeOK, HandOverTypeOK
<1>2. MaxCalls \in Nat /\ version \in Texts /\ LexThread \subseteq Texts
  <2>1. MaxCalls \in Nat
    BY LexingAssumption
  <2>2. version \in 1 .. MaxCalls
    BY <1>1 DEF TypeOK
  <2> QED BY <2>1, <2>2 DEF Texts, LexThread
<1>3. disturbed' \in BOOLEAN
  BY Zenon DEF Next
<1>4. NoScan \in Read
  BY <1>2 DEF NoScan, Texts
<1> HIDE DEF ResultType
<1>5. CASE Edit
  BY <1>1, <1>3, <1>5, EditEffect DEF HandOverTypeOK, lexVars
<1>6. CASE respan
  BY <1>1, <1>3, <1>6 DEF HandOverTypeOK, respan, textVars, lexVars, historyVars
<1>7. CASE cancelSpanning
  BY <1>1, <1>3, <1>7 DEF HandOverTypeOK, cancelSpanning, textVars, lexVars
<1>8. CASE FindWorker
  BY <1>1, <1>3, <1>8 DEF HandOverTypeOK, FindWorker, AfterCancel, textVars, lexVars, historyVars
<1>9. CASE AbortWorker
  BY <1>1, <1>3, <1>9 DEF HandOverTypeOK, AbortWorker, AfterCancel, textVars, historyVars
<1>10. CASE CreateWorker
  <2>1. calls < MaxCalls
    BY <1>10 DEF CreateWorker, IInv, HandOverInv, CallsInv
  <2>2. calls' = calls + 1 /\ calls' \in 0 .. MaxCalls /\ _workerThread' \in 1 .. calls'
    BY <1>1, <1>2, <1>10, <2>1 DEF CreateWorker
  <2>3. \A t \in LexThread : t > calls' => pc'[t] = "none"
    BY <1>1, <1>10, <2>2 DEF CreateWorker, LexThread
  <2>4. /\ UNCHANGED <<pc, _abort, read, posted, shown, seen, exact, closed>>
        /\ ui' = "start"
    BY <1>10 DEF CreateWorker, historyVars
  <2> QED BY <1>1, <1>3, <2>2, <2>3, <2>4 DEF HandOverTypeOK
<1>11. CASE StartWorker
  <2>1. /\ UNCHANGED <<calls, _workerThread, _abort, read, posted, shown, seen, exact, closed>>
        /\ ui' = "idle"
    BY <1>11 DEF StartWorker, historyVars
  <2>2. pc' \in [LexThread -> Pc] /\ \A t \in LexThread : t > calls => pc'[t] = "none"
    <3>1. CASE _workerThread = None
      BY <1>1, <1>11, <3>1 DEF StartWorker
    <3>2. CASE _workerThread # None
      <4>1. _workerThread \in 1 .. calls
        BY <1>1, <3>2
      <4>2. pc' = [pc EXCEPT ![_workerThread] = "started"]
        BY <1>11, <3>2 DEF StartWorker
      <4>3. _workerThread \in LexThread
        BY <1>1, <1>2, <4>1 DEF LexThread
      <4>4. \A t \in LexThread : pc'[t] = IF t = _workerThread THEN "started" ELSE pc[t]
        BY <1>1, <4>2
      <4>5. pc' \in [LexThread -> Pc]
        BY <1>1, <4>2
      <4>6. ~ (_workerThread > calls)
        BY <1>1, <4>1
      <4> QED BY <1>1, <4>4, <4>5, <4>6
    <3> QED BY <3>1, <3>2
  <2> QED BY <1>1, <1>3, <2>1, <2>2 DEF HandOverTypeOK
<1>12. CASE Deliver
  <2>1. /\ Head(posted).by \in LexThread /\ Head(posted).from \in Texts
        /\ posted' \in Seq(ResultType)
    BY <1>12, DeliverEffect DEF ResultType
  <2>2. /\ shown' = [by |-> Head(posted).by, from |-> Head(posted).from]
        /\ seen' \in {seen, Head(posted).from}
        /\ UNCHANGED <<ui, calls, _workerThread, pc, _abort, read, closed>>
    BY <1>12 DEF Deliver, lexVars
  <2>3. exact' \in BOOLEAN
    BY <1>12, Zenon DEF Deliver
  <2>4. shown' \in [by : Texts, from : Texts] /\ seen' \in Texts
    BY <1>1, <1>2, <2>1, <2>2
  <2> QED BY <1>1, <1>3, <2>1, <2>2, <2>3, <2>4 DEF HandOverTypeOK, ResultType
<1>13. CASE Paint
  BY <1>1, <1>3, <1>13 DEF HandOverTypeOK, Paint, lexVars, historyVars
<1>14. ASSUME NEW t \in LexThread, Work(t) PROVE HandOverTypeOK'
  <2>1. UNCHANGED <<ui, calls, shown, seen, exact, closed>>
    BY <1>14 DEF Work, Begin, Scan, PostResult, ForgetWorker, historyVars
  <2>2. _workerThread' \in (1 .. calls) \union {None}
    BY <1>1, <1>14 DEF Work, Begin, Scan, PostResult, ForgetWorker
  <2>3. pc[t] # "none" /\ pc' \in [LexThread -> Pc] /\ \A u \in LexThread : u # t => pc'[u] = pc[u]
    <3>1. /\ pc[t] # "none"
          /\ \E p \in Pc : pc' = [pc EXCEPT ![t] = p]
      BY <1>14 DEF Work, Begin, Scan, PostResult, ForgetWorker
    <3> QED BY <1>1, <3>1
  <2>4. _abort' \in [LexThread -> BOOLEAN]
    BY <1>1, <1>14 DEF Work, Begin, Scan, PostResult, ForgetWorker
  <2>5. read' \in [LexThread -> Read]
    <3>1. CASE Begin(t)
      <4>1. read' = [read EXCEPT ![t] = [from |-> version, to |-> version, threw |-> FALSE]]
        BY <3>1 DEF Begin
      <4> QED BY <1>1, <1>2, <4>1
    <3>2. CASE Scan(t)
      <4>1. \/ read' = [read EXCEPT ![t] = NoScan]
            \/ \E threw \in BOOLEAN :
                 read' = [read EXCEPT ![t] = [from |-> @.from, to |-> version, threw |-> threw]]
        BY <3>2 DEF Scan, MayThrow
      <4>2. read[t].from \in Texts
        BY <1>1, <1>14
      <4> QED BY <1>1, <1>2, <1>4, <4>1, <4>2
    <3>3. CASE PostResult(t)
      BY <1>1, <1>4, <3>3 DEF PostResult
    <3>4. CASE ForgetWorker(t)
      BY <1>1, <3>4 DEF ForgetWorker
    <3> QED BY <1>14, <3>1, <3>2, <3>3, <3>4 DEF Work
  <2>6. posted' \in Seq(ResultType)
    <3>1. CASE PostResult(t)
      <4>1. Result(t) \in ResultType
        BY <1>1, <1>14 DEF ResultType, Result
      <4>2. posted' = Append(posted, Result(t))
        BY <3>1 DEF PostResult
      <4> QED BY <1>1, <4>1, <4>2, AppendProperties
    <3>2. CASE ~ PostResult(t)
      BY <1>1, <1>14, <3>2 DEF Work, Begin, Scan, ForgetWorker
    <3> QED BY <3>1, <3>2
  <2>7. \A u \in LexThread : u > calls' => pc'[u] = "none"
    BY <1>1, <1>14, <2>1, <2>3
  <2> QED BY <1>1, <1>3, <2>1, <2>2, <2>3, <2>4, <2>5, <2>6, <2>7 DEF HandOverTypeOK, ResultType
<1> QED
  BY <1>5, <1>6, <1>7, <1>8, <1>9, <1>10, <1>11, <1>12, <1>13, <1>14 DEF Next, Step, Tokenize

-----------------------------------------------------------------------------
(* The hand-over.                                                           *)

\* What a worker does to its own and to the shared state.
LEMMA WorkEffect ==
  ASSUME IInv, NEW t \in LexThread, Work(t)
  PROVE  /\ UNCHANGED <<textVars, ui, calls, historyVars>> /\ ui # "crashed"
         /\ \A u \in LexThread : u # t =>
              pc'[u] = pc[u] /\ _abort'[u] = _abort[u] /\ read'[u] = read[u]
         /\ \/ Begin(t) /\ pc[t] = "started" /\ pc'[t] = "scanning" /\ ~ _abort'[t]
               /\ read'[t].from = version /\ read'[t].to = version
               /\ UNCHANGED <<_workerThread, posted>>
            \/ pc[t] = "scanning" /\ _abort[t] /\ pc'[t] = "done" /\ _abort' = _abort
               /\ UNCHANGED <<_workerThread, posted>>
            \/ pc[t] = "scanning" /\ ~ _abort[t] /\ pc'[t] = "posting" /\ _abort' = _abort
               /\ read'[t].from = read[t].from /\ read'[t].to = version
               /\ UNCHANGED <<_workerThread, posted>>
            \/ pc[t] = "posting" /\ pc'[t] = "posted" /\ posted' = Append(posted, Result(t))
               /\ UNCHANGED <<_workerThread, _abort>>
            \/ pc[t] = "posted" /\ pc'[t] = "done" /\ _workerThread' = None
               /\ UNCHANGED <<_abort, posted>>
<1>1. /\ pc \in [LexThread -> {"none", "started", "scanning", "posting", "posted", "done"}]
      /\ _abort \in [LexThread -> BOOLEAN]
      /\ read \in [LexThread -> [from : Texts, to : Texts, threw : BOOLEAN]]
  BY DEF IInv, TypeOK, HandOverTypeOK
<1>2. CASE Begin(t)
  BY <1>1, <1>2 DEF Work, Begin
<1>3. CASE Scan(t) /\ _abort[t]
  BY <1>1, <1>3 DEF Work, Scan
<1>4. CASE Scan(t) /\ ~ _abort[t]
  <2>1. PICK threw : read' = [read EXCEPT ![t] = [from |-> @.from, to |-> version, threw |-> threw]]
    BY <1>4 DEF Scan
  <2>2. read'[t].from = read[t].from /\ read'[t].to = version
    BY <1>1, <2>1
  <2>3. \A u \in LexThread : u # t => read'[u] = read[u]
    BY <1>1, <2>1
  <2> QED BY <1>1, <1>4, <2>2, <2>3 DEF Work, Scan
<1>5. CASE PostResult(t)
  BY <1>1, <1>5 DEF Work, PostResult
<1>6. CASE ForgetWorker(t)
  BY <1>1, <1>6 DEF Work, ForgetWorker
<1> QED BY <1>2, <1>3, <1>4, <1>5, <1>6 DEF Work

\* What an edit or respan() does to the hand-over.
LEMMA NewTurn ==
  ASSUME IInv, Edit \/ respan
  PROVE  /\ ui = "idle" /\ calls < MaxCalls /\ ui' \in {"tokenize", "crashed"}
         /\ UNCHANGED <<calls, lexVars, posted, shown, closed>>
<1>1. CASE Edit
  BY <1>1, EditEffect DEF IInv
<1>2. CASE respan
  BY <1>2 DEF respan, CanEdit, historyVars
<1> QED BY <1>1, <1>2

\* The calls of tokenize() keep up with the texts.
LEMMA CallsStep ==
  ASSUME IInv, Step
  PROVE  CallsInv'
<1>1. CallsInv /\ calls \in Nat /\ MaxCalls \in Nat /\ version \in Nat
  <2>1. calls \in 0 .. MaxCalls /\ MaxCalls \in Nat
    BY LexingAssumption DEF IInv, TypeOK, HandOverTypeOK
  <2> QED BY <2>1, LengthType DEF IInv, HandOverInv
<1>2. version' = IF Edit THEN version + 1 ELSE version
  BY TextStep
<1>3. CASE Edit \/ respan
  <2>1. /\ ui = "idle" /\ calls < MaxCalls /\ ui' \in {"tokenize", "crashed"}
        /\ calls' = calls /\ closed' = closed
    BY <1>3, NewTurn
  <2>2. version' \in Nat /\ version' <= version + 1
    BY <1>1, <1>2
  <2> QED BY <1>1, <2>1, <2>2 DEF CallsInv
<1>4. CASE ~ (Edit \/ respan)
  <2>1. version' = version
    BY <1>2, <1>4
  <2>2. CASE cancelSpanning
    BY <1>1, <2>1, <2>2 DEF CallsInv, cancelSpanning
  <2>3. CASE FindWorker
    BY <1>1, <2>1, <2>3 DEF CallsInv, FindWorker, AfterCancel, historyVars
  <2>4. CASE AbortWorker
    BY <1>1, <2>1, <2>4 DEF CallsInv, AbortWorker, AfterCancel, historyVars
  <2>5. CASE CreateWorker
    BY <1>1, <2>1, <2>5 DEF CallsInv, CreateWorker, historyVars
  <2>6. CASE StartWorker
    BY <1>1, <2>1, <2>6 DEF CallsInv, StartWorker, historyVars
  <2>7. CASE Deliver \/ Paint
    BY <1>1, <2>1, <2>7 DEF CallsInv, Deliver, Paint, historyVars
  <2>8. ASSUME NEW t \in LexThread, Work(t) PROVE CallsInv'
    BY <1>1, <2>1, <2>8, WorkEffect DEF CallsInv, historyVars
  <2> QED
    BY <1>4, <2>2, <2>3, <2>4, <2>5, <2>6, <2>7, <2>8 DEF Step, Tokenize
<1> QED BY <1>3, <1>4

\* The texts of a scan stay between the first one there was and the one there is.
LEMMA ReadStep ==
  ASSUME IInv, Step
  PROVE  ReadInv'
<1>1. /\ ReadInv /\ version \in Nat \ {0} /\ version' \in Nat /\ version' >= version
      /\ posted \in Seq([by : LexThread, from : Texts, to : Texts, threw : BOOLEAN])
  <2>1. version \in Nat \ {0} /\ version' = IF Edit THEN version + 1 ELSE version
    BY LengthType, TextStep DEF IInv
  <2> QED BY <2>1 DEF IInv, TypeOK, HandOverTypeOK, HandOverInv
<1>2. CASE UNCHANGED <<pc, read, posted>>
  BY <1>1, <1>2 DEF ReadInv
<1>3. ASSUME Edit \/ respan \/ cancelSpanning \/ FindWorker \/ AbortWorker \/ CreateWorker \/ Paint
      PROVE  UNCHANGED <<pc, read, posted>>
  BY <1>3, NewTurn DEF lexVars, cancelSpanning, FindWorker, AbortWorker, CreateWorker, Paint
<1>4. CASE StartWorker
  <2>1. read' = read /\ posted' = posted
    BY <1>4 DEF StartWorker
  <2>2. \A t \in LexThread : pc'[t] \in {"scanning", "posting"} => pc'[t] = pc[t]
    BY <1>4 DEF StartWorker, IInv, TypeOK, HandOverTypeOK
  <2> QED BY <1>1, <2>1, <2>2 DEF ReadInv
<1>5. CASE Deliver
  <2>1. pc' = pc /\ read' = read
    BY <1>5 DEF Deliver, lexVars
  <2>2. /\ Len(posted') = Len(posted) - 1 /\ Len(posted) \in Nat
        /\ \A i \in 1 .. Len(posted') : posted'[i] = posted[i + 1]
    BY <1>5, DeliverEffect
  <2>3. \A i \in 1 .. Len(posted') : i + 1 \in 1 .. Len(posted)
    BY <2>2
  <2> QED BY SMTT(60), <1>1, <2>1, <2>2, <2>3 DEF ReadInv
<1>6. ASSUME NEW t \in LexThread, Work(t) PROVE ReadInv'
  <2>1. /\ \A u \in LexThread : u # t => pc'[u] = pc[u] /\ read'[u] = read[u]
        /\ pc'[t] \in {"scanning", "posting"} =>
             /\ \/ read'[t].from = version
                \/ pc[t] = "scanning" /\ read'[t].from = read[t].from
             /\ read'[t].to = version
        /\ \/ posted' = posted
           \/ pc[t] = "posting" /\ posted' = Append(posted, Result(t))
    BY <1>6, WorkEffect
  <2>2. version' = version
    BY <1>6, WorkEffect DEF textVars, version
  <2>3. ASSUME NEW u \in LexThread, pc'[u] \in {"scanning", "posting"}
        PROVE  read'[u].from \in 1 .. version' /\ read'[u].to \in read'[u].from .. version'
    BY <1>1, <2>1, <2>2, <2>3 DEF ReadInv
  <2>4. ASSUME NEW i \in 1 .. Len(posted')
        PROVE  posted'[i].from \in 1 .. version' /\ posted'[i].to \in posted'[i].from .. version'
    <3>1. CASE posted' = posted
      BY <1>1, <2>2, <2>4, <3>1 DEF ReadInv
    <3>2. CASE pc[t] = "posting" /\ posted' = Append(posted, Result(t))
      <4>1. /\ Len(posted') = Len(posted) + 1 /\ Len(posted) \in Nat
            /\ \A k \in 1 .. Len(posted) : posted'[k] = posted[k]
            /\ posted'[Len(posted) + 1] = Result(t)
        BY <1>1, <3>2, AppendProperties
      <4>2. CASE i \in 1 .. Len(posted)
        BY <1>1, <2>2, <4>1, <4>2 DEF ReadInv
      <4>3. CASE i = Len(posted) + 1
        <5>1. posted'[i].from = read[t].from /\ posted'[i].to = read[t].to
          BY <4>1, <4>3 DEF Result
        <5> QED BY <1>1, <1>6, <2>2, <3>2, <5>1 DEF ReadInv
      <4> QED BY <2>4, <4>1, <4>2, <4>3
    <3> QED BY <2>1, <3>1, <3>2
  <2> QED BY <2>3, <2>4 DEF ReadInv
<1> QED BY <1>2, <1>3, <1>4, <1>5, <1>6 DEF Step, Tokenize

\* The field names the latest thread, and an abort hits no other.
LEMMA FieldStep ==
  ASSUME IInv, Step
  PROVE  FieldInv'
<1>1. /\ FieldInv /\ calls \in 0 .. MaxCalls /\ MaxCalls \in Nat /\ None \notin 0 .. MaxCalls
      /\ _abort \in [LexThread -> BOOLEAN]
      /\ pc \in [LexThread -> {"none", "started", "scanning", "posting", "posted", "done"}]
      /\ \A t \in LexThread : t > calls => pc[t] = "none"
  BY LexingAssumption DEF IInv, TypeOK, HandOverTypeOK, HandOverInv
<1>2. CASE Edit \/ respan
  <2>1. ui' \in {"tokenize", "crashed"} /\ ui = "idle" /\ UNCHANGED <<calls, lexVars>>
    BY <1>2, NewTurn
  <2> QED BY <1>1, <2>1 DEF FieldInv, lexVars
<1>3. CASE cancelSpanning
  BY <1>1, <1>3 DEF FieldInv, cancelSpanning, lexVars
<1>4. CASE FindWorker
  BY <1>1, <1>4 DEF FieldInv, FindWorker, AfterCancel, lexVars
<1>5. CASE AbortWorker
  <2>1. CASE _workerThread = None
    BY <1>1, <1>5, <2>1 DEF FieldInv, AbortWorker
  <2>2. CASE _workerThread # None
    <3>1. /\ _workerThread = calls /\ _workerThread' = None /\ ui' \in {"create", "closed"}
          /\ _abort' = [_abort EXCEPT ![calls] = TRUE]
          /\ calls' = calls
      BY <1>1, <1>5, <2>2 DEF FieldInv, AbortWorker, AfterCancel
    <3>2. \A t \in LexThread : _abort'[t] => t <= calls
      BY <1>1, <3>1 DEF FieldInv, LexThread
    <3> QED BY <3>1, <3>2 DEF FieldInv
  <2> QED BY <2>1, <2>2
<1>6. CASE CreateWorker
  <2>1. /\ ui = "create" /\ ui' = "start" /\ calls' = calls + 1 /\ _workerThread' = calls'
        /\ pc' = pc /\ _abort' = _abort
    BY <1>6 DEF CreateWorker
  <2>2. calls < MaxCalls
    BY <2>1 DEF IInv, HandOverInv, CallsInv
  <2>3. pc[calls'] = "none"
    BY <1>1, <2>1, <2>2 DEF LexThread
  <2>4. \A t \in LexThread : _abort[t] => t < calls'
    BY <1>1, <2>1 DEF FieldInv, LexThread
  <2>5. \A t \in LexThread : _abort'[t] => t <= calls' /\ t # calls'
    BY <1>1, <2>1, <2>4 DEF LexThread
  <2> QED BY <2>1, <2>3, <2>5 DEF FieldInv
<1>7. CASE StartWorker
  <2>1. /\ ui = "start" /\ ui' = "idle" /\ UNCHANGED <<calls, _workerThread, _abort>>
    BY <1>7 DEF StartWorker
  <2> QED BY <1>1, <2>1 DEF FieldInv
<1>8. CASE Deliver \/ Paint
  BY <1>1, <1>8 DEF FieldInv, Deliver, Paint, lexVars
<1>9. ASSUME NEW t \in LexThread, Work(t) PROVE FieldInv'
  <2>1. /\ ui' = ui /\ calls' = calls
        /\ _workerThread' \in {_workerThread, None}
        /\ pc[t] # "none" /\ \A u \in LexThread : u # t => pc'[u] = pc[u]
    BY <1>9, WorkEffect
  <2>2. \A u \in LexThread : _abort'[u] => _abort[u]
    <3>1. \A u \in LexThread : u # t => _abort'[u] = _abort[u]
      BY <1>9, WorkEffect
    <3>2. _abort'[t] => _abort[t]
      BY <1>9, WorkEffect
    <3> QED BY <3>1, <3>2
  <2>3. ui' = "start" => pc'[calls'] = "none"
    <3>1. ui = "start" => calls \in LexThread
      BY <1>1 DEF IInv, HandOverInv, CallsInv, LexThread
    <3> QED BY <1>1, <2>1, <3>1 DEF FieldInv
  <2> QED BY <1>1, <2>1, <2>2, <2>3 DEF FieldInv
<1> QED BY <1>2, <1>3, <1>4, <1>5, <1>6, <1>7, <1>8, <1>9 DEF Step, Tokenize

\* A step that leaves the hand-over undisturbed.
LEMMA UndisturbedStep ==
  ASSUME Next, Undisturbed'
  PROVE  /\ Undisturbed
         /\ InTokenize' => Ending' = {}
         /\ \A t \in LexThread : Begin(t) => ~ _abort[t]
BY Zenon DEF Next, Undisturbed, Disturbance

\* The latest thread stays the only one that may post.
LEMMA LatestStep ==
  ASSUME IInv, Next
  PROVE  LatestInv'
<1> SUFFICES ASSUME Undisturbed'
             PROVE  /\ InTokenize' => Ending' = {}
                    /\ Ending' \subseteq {calls'}
                    /\ ui' = "start" => _workerThread' = calls'
                    /\ \A t \in LexThread : pc'[t] \in {"started", "scanning"} /\ ~_abort'[t] =>
                         _workerThread' = t /\ Ending' = {}
  BY DEF LatestInv
<1>1. /\ InTokenize' => Ending' = {}
      /\ \A t \in LexThread : Begin(t) => ~ _abort[t]
  BY UndisturbedStep
<1>2. /\ InTokenize => Ending = {}
      /\ Ending \subseteq {calls}
      /\ ui = "start" => _workerThread = calls
      /\ \A t \in LexThread : pc[t] \in {"started", "scanning"} /\ ~_abort[t] =>
           _workerThread = t /\ Ending = {}
  BY UndisturbedStep DEF IInv, HandOverInv, LatestInv
<1>3. /\ calls \in 0 .. MaxCalls /\ MaxCalls \in Nat /\ None \notin 0 .. MaxCalls
      /\ _workerThread \in {calls, None} /\ (ui = "create" => _workerThread = None)
      /\ _abort \in [LexThread -> BOOLEAN]
      /\ pc \in [LexThread -> {"none", "started", "scanning", "posting", "posted", "done"}]
  BY LexingAssumption DEF IInv, TypeOK, HandOverTypeOK, HandOverInv, FieldInv
<1>4. CASE UNCHANGED <<pc, _abort, _workerThread, calls>> /\ ui' # "start"
  <2>1. Ending' = Ending
    BY <1>4 DEF Ending
  <2> QED BY <1>1, <1>2, <1>4, <2>1
<1>5. ASSUME Edit \/ respan \/ cancelSpanning \/ FindWorker \/ Deliver \/ Paint
      PROVE  UNCHANGED <<pc, _abort, _workerThread, calls>> /\ ui' # "start"
  <2>1. CASE Edit \/ respan
    <3>1. ui' \in {"tokenize", "crashed"} /\ UNCHANGED <<lexVars, calls>>
      BY <2>1, NewTurn
    <3> QED BY <3>1 DEF lexVars
  <2>2. CASE cancelSpanning \/ FindWorker \/ Deliver \/ Paint
    BY <2>2 DEF cancelSpanning, FindWorker, AfterCancel, Deliver, Paint, lexVars
  <2> QED BY <1>5, <2>1, <2>2
<1>6. CASE AbortWorker
  <2>1. pc' = pc /\ calls' = calls /\ ui' # "start"
    BY <1>6 DEF AbortWorker, AfterCancel
  <2>2. Ending' = Ending
    BY <2>1 DEF Ending
  <2>3. ASSUME NEW t \in LexThread, pc'[t] \in {"started", "scanning"}, ~ _abort'[t]
        PROVE  _workerThread' = t /\ Ending' = {}
    <3>1. CASE _workerThread = None
      BY <1>2, <1>6, <2>1, <2>2, <2>3, <3>1 DEF AbortWorker
    <3>2. CASE _workerThread # None
      <4>1. _abort' = [_abort EXCEPT ![_workerThread] = TRUE]
        BY <1>6, <3>2 DEF AbortWorker
      <4>2. t # _workerThread /\ ~ _abort[t]
        BY <1>3, <2>3, <4>1
      <4> QED BY <1>2, <2>1, <2>3, <4>2
    <3> QED BY <3>1, <3>2
  <2> QED BY <1>1, <1>2, <2>1, <2>2, <2>3
<1>7. CASE CreateWorker
  <2>1. /\ ui = "create" /\ ui' = "start" /\ pc' = pc /\ _abort' = _abort
        /\ _workerThread' = calls'
    BY <1>7 DEF CreateWorker
  <2>2. Ending' = {}
    BY <1>1, <2>1 DEF InTokenize
  <2>3. ASSUME NEW t \in LexThread, pc'[t] \in {"started", "scanning"}, ~ _abort'[t]
        PROVE  FALSE
    <3>1. _workerThread = t
      BY <1>2, <2>1, <2>3
    <3> QED BY <1>3, <2>1, <3>1 DEF LexThread
  <2> QED BY <2>1, <2>2, <2>3
<1>8. CASE StartWorker
  <2>1. /\ ui = "start" /\ ui' = "idle" /\ UNCHANGED <<calls, _workerThread, _abort>>
        /\ _workerThread = calls
    BY <1>2, <1>8 DEF StartWorker
  <2>2. _workerThread # None /\ calls \in 0 .. MaxCalls
    BY <1>3, <2>1
  <2>3. pc' = [pc EXCEPT ![calls] = "started"]
    BY <1>8, <2>1, <2>2 DEF StartWorker
  <2>4. Ending' = {}
    <3>1. Ending = {}
      BY <1>2, <2>1 DEF InTokenize
    <3>2. \A t \in LexThread : pc'[t] \in {"posting", "posted"} => pc[t] \in {"posting", "posted"}
      BY <1>3, <2>3
    <3> QED BY <3>1, <3>2 DEF Ending
  <2>5. \A t \in LexThread : t # calls => pc'[t] = pc[t]
    BY <1>3, <2>3
  <2> QED BY <1>2, <2>1, <2>4, <2>5
<1>9. ASSUME NEW t \in LexThread, Work(t)
      PROVE  /\ Ending' \subseteq {calls'}
             /\ ui' = "start" => _workerThread' = calls'
             /\ \A u \in LexThread : pc'[u] \in {"started", "scanning"} /\ ~_abort'[u] =>
                  _workerThread' = u /\ Ending' = {}
  <2>1. /\ ui' = ui /\ calls' = calls
        /\ \A u \in LexThread : u # t => pc'[u] = pc[u] /\ _abort'[u] = _abort[u]
    BY <1>9, WorkEffect
  <2>2. CASE Begin(t) /\ pc[t] = "started" /\ pc'[t] = "scanning" /\ _workerThread' = _workerThread
    <3>1. ~ _abort[t] /\ _workerThread = t /\ Ending = {}
      BY <1>1, <1>2, <2>2
    <3>2. Ending' = {}
      BY <2>1, <2>2, <3>1 DEF Ending
    <3> QED BY <1>2, <2>1, <2>2, <3>1, <3>2
  <2>3. CASE pc[t] = "scanning" /\ pc'[t] = "done" /\ _abort' = _abort /\ _workerThread' = _workerThread
    <3>1. Ending' = Ending
      BY <2>1, <2>3 DEF Ending
    <3> QED BY <1>2, <2>1, <2>3, <3>1
  <2>4. CASE /\ pc[t] = "scanning" /\ ~ _abort[t] /\ pc'[t] = "posting" /\ _abort' = _abort
             /\ _workerThread' = _workerThread
    <3>1. _workerThread = t /\ Ending = {}
      BY <1>2, <2>4
    <3>2. t = calls
      BY <1>3, <3>1 DEF LexThread
    <3>3. Ending' = {t}
      BY <2>1, <2>4, <3>1 DEF Ending
    <3>4. \A u \in LexThread : u # t => ~ (pc[u] \in {"started", "scanning"} /\ ~ _abort[u])
      BY <1>2, <3>1
    <3> QED BY <1>2, <2>1, <2>4, <3>2, <3>3, <3>4
  <2>5. CASE /\ pc[t] = "posting" /\ pc'[t] = "posted" /\ _abort' = _abort
             /\ _workerThread' = _workerThread
    <3>1. Ending' = Ending
      BY <2>1, <2>5 DEF Ending
    <3> QED BY <1>2, <2>1, <2>5, <3>1
  <2>6. CASE pc[t] = "posted" /\ pc'[t] = "done" /\ _workerThread' = None /\ _abort' = _abort
    <3>1. t \in Ending /\ Ending' \subseteq Ending
      BY <2>1, <2>6 DEF Ending
    <3>2. ui # "start"
      BY <1>2, <3>1 DEF InTokenize
    <3> QED BY <1>2, <2>1, <2>6, <3>1, <3>2
  <2> QED BY <1>9, <2>2, <2>3, <2>4, <2>5, <2>6, WorkEffect
<1> QED BY <1>1, <1>4, <1>5, <1>6, <1>7, <1>8, <1>9 DEF Next, Step, Tokenize

\* The results come in the order of their threads, and each thread posts one.
LEMMA OrderStep ==
  ASSUME IInv, Next
  PROVE  OrderInv'
<1> DEFINE ResultType == [by : LexThread, from : Texts, to : Texts, threw : BOOLEAN]
<1>1. /\ posted \in Seq(ResultType) /\ shown \in [by : Texts, from : Texts]
      /\ calls \in 0 .. MaxCalls /\ MaxCalls \in Nat
      /\ pc \in [LexThread -> {"none", "started", "scanning", "posting", "posted", "done"}]
      /\ \A t \in LexThread : t > calls => pc[t] = "none"
  BY LexingAssumption DEF IInv, TypeOK, HandOverTypeOK
<1>2. /\ \A i \in 1 .. Len(posted) : pc[posted[i].by] \in {"posted", "done"}
      /\ shown.by \in LexThread => pc[shown.by] \in {"posted", "done"}
  BY DEF IInv, HandOverInv, OrderInv
<1>3. Undisturbed' =>
        /\ \A i \in 1 .. Len(posted) : posted[i].by > shown.by
        /\ \A i, j \in 1 .. Len(posted) : i < j => posted[i].by < posted[j].by
  BY UndisturbedStep DEF IInv, HandOverInv, OrderInv
<1>4. \A i \in 1 .. Len(posted) : posted[i].by \in LexThread
  <2> SUFFICES ASSUME NEW i \in 1 .. Len(posted) PROVE posted[i].by \in LexThread
    OBVIOUS
  <2>1. posted[i] \in ResultType
    <3> HIDE DEF ResultType
    <3> QED BY <1>1, ElementOfSeq
  <2> QED BY <2>1
<1> HIDE DEF ResultType
\* A thread that has posted stays past it.
<1>5. ASSUME posted' = posted, shown' = shown,
             \A t \in LexThread : pc[t] \in {"posted", "done"} => pc'[t] \in {"posted", "done"}
      PROVE  OrderInv'
  BY <1>2, <1>3, <1>4, <1>5 DEF OrderInv
<1>6. ASSUME Edit \/ respan \/ cancelSpanning \/ FindWorker \/ AbortWorker \/ CreateWorker \/ Paint
      PROVE  OrderInv'
  <2>1. CASE Edit \/ respan
    <3>1. UNCHANGED <<lexVars, posted, shown>>
      BY <2>1, NewTurn
    <3> QED BY <1>5, <3>1 DEF lexVars
  <2>2. CASE cancelSpanning \/ FindWorker \/ AbortWorker \/ CreateWorker \/ Paint
    <3>1. UNCHANGED <<pc, posted, shown>>
      BY <2>2 DEF cancelSpanning, FindWorker, AbortWorker, CreateWorker, Paint, lexVars, historyVars
    <3> QED BY <1>5, <3>1
  <2> QED BY <1>6, <2>1, <2>2
<1>7. CASE StartWorker
  <2>1. UNCHANGED <<posted, shown>> /\ ui = "start"
    BY <1>7 DEF StartWorker, historyVars
  <2>2. _workerThread \in {calls, None} /\ pc[calls] = "none"
    BY <2>1 DEF IInv, HandOverInv, FieldInv
  <2>3. pc' = pc \/ pc' = [pc EXCEPT ![calls] = "started"]
    BY <1>7, <2>2 DEF StartWorker
  <2>4. \A t \in LexThread : pc[t] \in {"posted", "done"} => pc'[t] \in {"posted", "done"}
    BY <1>1, <2>2, <2>3
  <2> QED BY <1>5, <2>1, <2>4
<1>8. CASE Deliver
  <2>1. /\ Head(posted) = posted[1]
        /\ Len(posted) \in Nat \ {0} /\ Len(posted') = Len(posted) - 1
        /\ \A i \in 1 .. Len(posted') : posted'[i] = posted[i + 1]
    BY <1>8, DeliverEffect
  <2>2. pc' = pc /\ shown'.by = posted[1].by
    BY <1>8, <2>1 DEF Deliver, lexVars
  <2>3. 1 \in 1 .. Len(posted) /\ \A i \in 1 .. Len(posted') : i + 1 \in 1 .. Len(posted) /\ 1 < i + 1
    BY <2>1
  <2>4. \A i \in 1 .. Len(posted') : pc'[posted'[i].by] \in {"posted", "done"}
    BY <1>2, <2>1, <2>2, <2>3
  <2>5. pc'[shown'.by] \in {"posted", "done"}
    BY <1>2, <2>2, <2>3
  <2>6. ASSUME Undisturbed'
        PROVE  /\ \A i \in 1 .. Len(posted') : posted'[i].by > shown'.by
               /\ \A i, j \in 1 .. Len(posted') : i < j => posted'[i].by < posted'[j].by
    <3>1. \A i, j \in 1 .. Len(posted) : i < j => posted[i].by < posted[j].by
      BY <1>3, <2>6
    <3>2. \A i \in 1 .. Len(posted) : posted[i].by \in Nat
      BY <1>4 DEF LexThread
    <3>3. ASSUME NEW i \in 1 .. Len(posted') PROVE posted'[i].by > shown'.by
      BY <2>1, <2>2, <2>3, <3>1, <3>2, <3>3
    <3>4. ASSUME NEW i \in 1 .. Len(posted'), NEW j \in 1 .. Len(posted'), i < j
          PROVE  posted'[i].by < posted'[j].by
      <4>1. i + 1 \in 1 .. Len(posted) /\ j + 1 \in 1 .. Len(posted) /\ i + 1 < j + 1
        BY <2>3, <3>4
      <4> QED BY <2>1, <3>1, <3>4, <4>1
    <3> QED BY <3>3, <3>4
  <2> QED BY <2>4, <2>5, <2>6 DEF OrderInv
<1>9. ASSUME NEW t \in LexThread, Work(t) PROVE OrderInv'
  <2>1. /\ shown' = shown
        /\ \A u \in LexThread : u # t => pc'[u] = pc[u]
        /\ \/ posted' = posted /\ (pc[t] = "posted" => pc'[t] = "done") /\ pc[t] # "done"
           \/ pc[t] = "posting" /\ pc'[t] = "posted" /\ posted' = Append(posted, Result(t))
    BY <1>9, WorkEffect DEF historyVars
  <2>2. CASE posted' = posted /\ (pc[t] = "posted" => pc'[t] = "done") /\ pc[t] # "done"
    <3>1. \A u \in LexThread : pc[u] \in {"posted", "done"} => pc'[u] \in {"posted", "done"}
      BY <2>1, <2>2
    <3> QED BY <1>5, <2>1, <2>2, <3>1
  <2>3. CASE pc[t] = "posting" /\ pc'[t] = "posted" /\ posted' = Append(posted, Result(t))
    <3>1. /\ Len(posted') = Len(posted) + 1 /\ Len(posted) \in Nat
          /\ \A k \in 1 .. Len(posted) : posted'[k] = posted[k]
          /\ posted'[Len(posted) + 1] = Result(t)
      BY <1>1, <2>3, AppendProperties
    <3>2. Result(t).by = t
      BY DEF Result
    <3>3. \A u \in LexThread : pc[u] \in {"posted", "done"} => pc'[u] \in {"posted", "done"}
      BY <2>1, <2>3
    <3>4. ASSUME NEW i \in 1 .. Len(posted') PROVE pc'[posted'[i].by] \in {"posted", "done"}
      <4>1. CASE i = Len(posted) + 1
        BY <2>3, <3>1, <3>2, <4>1
      <4>2. CASE i # Len(posted) + 1
        <5>1. i \in 1 .. Len(posted)
          BY <3>1, <3>4, <4>2
        <5> QED BY <1>2, <1>4, <3>1, <3>3, <5>1
      <4> QED BY <4>1, <4>2
    <3>5. shown'.by \in LexThread => pc'[shown'.by] \in {"posted", "done"}
      BY <1>2, <2>1, <3>3
    \* Undisturbed, t is the latest thread: the others that have posted are older.
    <3>6. ASSUME Undisturbed'
          PROVE  /\ \A i \in 1 .. Len(posted) : posted[i].by < t
                 /\ shown.by < t
      <4>1. t = calls
        <5>1. t \in Ending
          BY <1>9, <2>3 DEF Ending
        <5> QED BY <3>6, <5>1, UndisturbedStep DEF IInv, HandOverInv, LatestInv
      <4>2. ASSUME NEW u \in LexThread, pc[u] \in {"posted", "done"} PROVE u < t
        <5>1. u # t /\ ~ (u > calls)
          BY <1>1, <2>3, <4>2
        <5> QED BY <1>1, <4>1, <4>2, <5>1 DEF LexThread
      <4>3. shown.by < t
        <5>1. shown.by \in 0 .. MaxCalls /\ t \in 1 .. MaxCalls
          BY <1>1, <1>9 DEF Texts, LexThread
        <5> QED BY <1>1, <1>2, <4>2, <5>1 DEF LexThread
      <4> QED BY <1>2, <1>4, <4>2, <4>3
    <3>7. ASSUME Undisturbed'
          PROVE  /\ \A i \in 1 .. Len(posted') : posted'[i].by > shown'.by
                 /\ \A i, j \in 1 .. Len(posted') : i < j => posted'[i].by < posted'[j].by
      <4>1. \A i \in 1 .. Len(posted') : i \in 1 .. Len(posted) \/ i = Len(posted) + 1
        BY <3>1
      <4>2. \A i \in 1 .. Len(posted') : posted'[i].by > shown'.by
        BY <1>3, <2>1, <3>1, <3>2, <3>6, <3>7, <4>1
      <4>3. ASSUME NEW i \in 1 .. Len(posted'), NEW j \in 1 .. Len(posted'), i < j
            PROVE  posted'[i].by < posted'[j].by
        <5>1. i \in 1 .. Len(posted)
          BY <3>1, <4>3
        <5>2. CASE j \in 1 .. Len(posted)
          BY <1>3, <3>1, <3>7, <4>3, <5>1, <5>2
        <5>3. CASE j = Len(posted) + 1
          BY <3>1, <3>2, <3>6, <3>7, <5>1, <5>3
        <5> QED BY <4>1, <4>3, <5>2, <5>3
      <4> QED BY <4>2, <4>3
    <3> QED BY <3>4, <3>5, <3>7 DEF OrderInv
  <2> QED BY <2>1, <2>2, <2>3
<1> QED BY <1>6, <1>7, <1>8, <1>9 DEF Next, Step, Tokenize

\* Between two edits the latest thread is on its way with the text as it is.
LEMMA FreshStep ==
  ASSUME IInv, Next
  PROVE  FreshInv'
<1> DEFINE ResultType == [by : LexThread, from : Texts, to : Texts, threw : BOOLEAN]
<1> SUFFICES ASSUME Undisturbed', ui' = "idle"
             PROVE  /\ pc'[calls'] # "none"
                    /\ pc'[calls'] \in {"scanning", "posting"} => read'[calls'].from = version'
                    /\ pc'[calls'] \in {"posted", "done"} =>
                         IF posted' = << >> THEN shown' = [by |-> calls', from |-> version']
                         ELSE /\ posted'[Len(posted')].by = calls'
                              /\ posted'[Len(posted')].from = version'
  BY DEF FreshInv
<1>1. Undisturbed
  BY UndisturbedStep
<1>2. ui = "idle" =>
        /\ pc[calls] # "none"
        /\ pc[calls] \in {"scanning", "posting"} => read[calls].from = version
        /\ pc[calls] \in {"posted", "done"} =>
             IF posted = << >> THEN shown = [by |-> calls, from |-> version]
             ELSE posted[Len(posted)].by = calls /\ posted[Len(posted)].from = version
  BY <1>1 DEF IInv, HandOverInv, FreshInv
<1>3. /\ posted \in Seq(ResultType)
      /\ pc \in [LexThread -> {"none", "started", "scanning", "posting", "posted", "done"}]
      /\ calls \in 0 .. MaxCalls /\ MaxCalls \in Nat /\ None \notin 0 .. MaxCalls
  BY LexingAssumption DEF IInv, TypeOK, HandOverTypeOK
<1>4. ui \in {"idle", "start"} => calls \in LexThread
  BY <1>3 DEF IInv, HandOverInv, CallsInv, LexThread
<1> HIDE DEF ResultType
<1>5. CASE StartWorker
  <2>1. ui = "start" /\ _workerThread = calls /\ calls' = calls
    BY <1>1, <1>5 DEF StartWorker, IInv, HandOverInv, LatestInv
  <2>2. pc' = [pc EXCEPT ![calls] = "started"]
    BY <1>3, <1>5, <2>1 DEF StartWorker
  <2>3. pc'[calls'] = "started"
    BY <1>3, <1>4, <2>1, <2>2
  <2> QED BY <2>3
<1>6. CASE Deliver
  <2>1. /\ Head(posted) = posted[1]
        /\ posted' \in Seq(ResultType)
        /\ Len(posted) \in Nat \ {0} /\ Len(posted') = Len(posted) - 1
        /\ \A i \in 1 .. Len(posted') : posted'[i] = posted[i + 1]
    BY <1>6, DeliverEffect DEF ResultType
  <2>2. /\ posted # << >> /\ ui = "idle"
        /\ UNCHANGED <<pc, read, calls, version>>
        /\ shown' = [by |-> posted[1].by, from |-> posted[1].from]
    BY <1>6, <2>1 DEF Deliver, lexVars, version
  <2>3. ASSUME pc[calls] \in {"posted", "done"}
        PROVE  IF posted' = << >> THEN shown' = [by |-> calls, from |-> version]
               ELSE posted'[Len(posted')].by = calls /\ posted'[Len(posted')].from = version
    <3>1. posted[Len(posted)].by = calls /\ posted[Len(posted)].from = version
      BY <1>2, <2>2, <2>3
    <3>2. CASE posted' = << >>
      <4>1. Len(posted) = 1
        BY <2>1, <3>2
      <4> QED BY <2>2, <3>1, <3>2, <4>1
    <3>3. CASE posted' # << >>
      <4>1. Len(posted') \in 1 .. Len(posted') /\ Len(posted') + 1 = Len(posted)
        BY <2>1, <3>3, EmptySeq
      <4>2. posted'[Len(posted')] = posted[Len(posted)]
        BY <2>1, <4>1
      <4> QED BY <3>1, <3>3, <4>2
    <3> QED BY <3>2, <3>3
  <2> QED BY <1>2, <2>2, <2>3
<1>7. CASE Paint
  <2>1. ui = "idle" /\ UNCHANGED <<pc, read, calls, posted, shown, version>>
    BY <1>7 DEF Paint, lexVars, historyVars, version
  <2> QED BY <1>2, <2>1
<1>8. ASSUME NEW t \in LexThread, Work(t)
      PROVE  /\ pc'[calls'] # "none"
             /\ pc'[calls'] \in {"scanning", "posting"} => read'[calls'].from = version'
             /\ pc'[calls'] \in {"posted", "done"} =>
                  IF posted' = << >> THEN shown' = [by |-> calls', from |-> version']
                  ELSE /\ posted'[Len(posted')].by = calls'
                       /\ posted'[Len(posted')].from = version'
  <2>1. /\ ui = "idle" /\ UNCHANGED <<calls, shown, version>> /\ calls \in LexThread
        /\ \A u \in LexThread : u # t => pc'[u] = pc[u] /\ read'[u] = read[u]
    BY <1>4, <1>8, WorkEffect DEF historyVars, textVars, version
  <2>2. ~ _abort[calls]
    BY <2>1 DEF IInv, HandOverInv, FieldInv
  <2>3. t \in Ending => t = calls
    BY <1>1 DEF IInv, HandOverInv, LatestInv
  <2>4. CASE pc[t] = "posting" /\ pc'[t] = "posted" /\ posted' = Append(posted, Result(t))
    <3>1. t = calls
      BY <1>8, <2>3, <2>4 DEF Ending
    <3>2. /\ Len(posted') = Len(posted) + 1 /\ Len(posted) \in Nat
          /\ posted'[Len(posted) + 1] = Result(t)
      BY <1>3, <2>4, AppendProperties
    <3>3. Result(t).by = calls /\ Result(t).from = version
      BY <1>2, <2>1, <2>4, <3>1 DEF Result
    <3>4. posted' # << >>
      BY <3>2
    <3> QED BY <2>1, <2>4, <3>1, <3>2, <3>3, <3>4
  <2>5. CASE posted' = posted /\ t # calls
    BY <1>2, <2>1, <2>5
  <2>6. CASE posted' = posted /\ t = calls
    <3>1. \/ pc'[t] = "scanning" /\ read'[t].from = version
          \/ pc[t] = "scanning" /\ pc'[t] = "posting" /\ read'[t].from = read[t].from
          \/ pc[t] = "posted" /\ pc'[t] = "done"
          \/ pc[t] = "posting" /\ pc'[t] = "posted" /\ posted' = Append(posted, Result(t))
      BY <1>8, <2>2, <2>6, WorkEffect
    <3> QED BY <1>2, <2>1, <2>4, <2>6, <3>1
  <2> QED BY <1>8, <2>4, <2>5, <2>6, WorkEffect
<1>9. ASSUME Edit \/ respan \/ cancelSpanning \/ FindWorker \/ AbortWorker \/ CreateWorker
      PROVE  FALSE
  <2>1. CASE Edit \/ respan
    BY <2>1, NewTurn
  <2>2. CASE cancelSpanning \/ FindWorker \/ AbortWorker \/ CreateWorker
    BY <2>2 DEF cancelSpanning, FindWorker, AbortWorker, CreateWorker, AfterCancel
  <2> QED BY <1>9, <2>1, <2>2
<1> QED BY <1>5, <1>6, <1>7, <1>8, <1>9 DEF Next, Step, Tokenize

-----------------------------------------------------------------------------
(* The theorems.                                                            *)

\* The invariant holds at the start.
LEMMA InitInv == Init => IInv
<1> SUFFICES ASSUME Init PROVE IInv
  OBVIOUS
<1>1. MaxLength \in Nat \ {0} /\ MaxCalls \in Nat \ {0}
  BY LexingAssumption
<1>2. /\ lengths = << MaxLength >> /\ lengths \in Seq(0 .. MaxLength)
      /\ version = 1 /\ length = MaxLength
  BY <1>1 DEF Init, version, length
<1>3. spans = << MaxLength >> /\ spans \in Seq(Nat) /\ Total(spans) = MaxLength
  BY <1>1, TotalOne DEF Init, Cleared
<1>4. HandOverTypeOK
  <2>1. 0 \in Texts
    BY <1>1 DEF Texts
  <2>2. /\ pc \in [LexThread -> {"none", "started", "scanning", "posting", "posted", "done"}]
        /\ _abort \in [LexThread -> BOOLEAN] /\ \A t \in LexThread : pc[t] = "none"
    BY DEF Init
  <2>3. read \in [LexThread -> [from : Texts, to : Texts, threw : BOOLEAN]]
    BY <2>1 DEF Init, NoScan
  <2>4. shown \in [by : Texts, from : Texts] /\ seen \in Texts /\ posted = << >>
    BY <2>1 DEF Init, NoResult
  <2>5. calls \in 0 .. MaxCalls /\ _workerThread = None /\ ui = "tokenize"
    BY <1>1 DEF Init
  <2>6. {exact, disturbed, closed} \subseteq BOOLEAN
    BY DEF Init
  <2> QED BY <2>2, <2>3, <2>4, <2>5, <2>6 DEF HandOverTypeOK
<1>5. TypeOK /\ SpansCoverText
  BY <1>1, <1>2, <1>3, <1>4 DEF TypeOK, SpansCoverText
<1>6. CallsInv /\ FieldInv
  BY <1>1, <1>2 DEF Init, CallsInv, FieldInv, LexThread
<1>7. posted = << >> /\ shown.by = 0 /\ \A t \in LexThread : pc[t] = "none"
  BY DEF Init, NoResult
<1>8. ReadInv /\ LatestInv /\ OrderInv /\ FreshInv
  BY <1>7 DEF Init, ReadInv, LatestInv, Ending, OrderInv, FreshInv, LexThread
<1> QED BY <1>5, <1>6, <1>8 DEF IInv, HandOverInv

\* Every step keeps it.
LEMMA InvStep == IInv /\ [Next]_vars => IInv'
<1> SUFFICES ASSUME IInv, [Next]_vars PROVE IInv'
  OBVIOUS
<1>1. CASE Next
  <2>1. Step
    BY <1>1 DEF Next
  <2>2. HandOverTypeOK' /\ CallsInv' /\ ReadInv' /\ FieldInv' /\ LatestInv' /\ OrderInv' /\ FreshInv'
    BY <1>1, <2>1, HandOverTypeStep, CallsStep, ReadStep, FieldStep, LatestStep, OrderStep, FreshStep
  <2>3. version' \in 1 .. MaxCalls
    <3>1. /\ version' = IF Edit THEN version + 1 ELSE version
          /\ version \in 1 .. MaxCalls /\ MaxCalls \in Nat /\ calls \in Nat
          /\ ui = "idle" => version <= calls
      <4>1. version' = IF Edit THEN version + 1 ELSE version
        BY <2>1, TextStep
      <4>2. version \in 1 .. MaxCalls /\ (ui = "idle" => version <= calls)
        BY DEF IInv, TypeOK, HandOverInv, CallsInv
      <4>3. calls \in 0 .. MaxCalls /\ MaxCalls \in Nat
        BY LexingAssumption DEF IInv, TypeOK, HandOverTypeOK
      <4> QED BY <4>1, <4>2, <4>3
    <3>2. Edit => ui = "idle" /\ calls < MaxCalls
      BY NewTurn
    <3> QED BY <3>1, <3>2
  <2> QED BY <2>1, <2>2, <2>3, TextStep DEF IInv, TypeOK, HandOverInv
<1>2. CASE UNCHANGED vars
  <2>1. UNCHANGED <<version, length, InTokenize, Ending, Undisturbed>>
    BY <1>2 DEF vars, progVars, textVars, lexVars, historyVars, version, length, InTokenize,
       Ending, Undisturbed
  <2>2. TypeOK' /\ SpansCoverText'
    BY <1>2, <2>1 DEF IInv, TypeOK, HandOverTypeOK, SpansCoverText, vars, progVars,
       textVars, lexVars, historyVars
  <2>3. CallsInv' /\ ReadInv' /\ FieldInv'
    BY <1>2, <2>1 DEF IInv, HandOverInv, CallsInv, ReadInv, FieldInv, vars, progVars,
       textVars, lexVars, historyVars
  <2>4. LatestInv' /\ OrderInv' /\ FreshInv'
    BY <1>2, <2>1 DEF IInv, HandOverInv, LatestInv, OrderInv, FreshInv, vars, progVars,
       textVars, lexVars, historyVars
  <2> QED BY <2>2, <2>3, <2>4 DEF IInv, HandOverInv
<1> QED BY <1>1, <1>2

\* It holds in every reachable state.
LEMMA Invariant == Spec => []IInv
BY InitInv, InvStep, PTL DEF Spec

\* Every variable keeps its type, and no span is ever of a negative length.
THEOREM TypeCorrect == Spec => []TypeOK
BY Invariant, PTL DEF IInv

\* Spans that are kept by onAdd and onDel alone cover the text, whatever is inserted,
\* wherever single characters go, and wherever several go of which onDel takes the
\* right number: those that lie before the offset in its span, and then the rest from
\* there back to the first.
THEOREM EditsKeepSpans == Spec => []SpansCoverText
BY Invariant, PTL DEF IInv

\* Undisturbed, the worker that may post its result is the one the field names.
THEOREM WorkerIsNamed == Spec => []RunningWorkerIsNamed
<1>1. IInv => RunningWorkerIsNamed
  BY DEF IInv, HandOverInv, LatestInv, RunningWorkerIsNamed
<1> QED BY <1>1, Invariant, PTL

\* Undisturbed and at rest, the field shows a result of the text as it is.
THEOREM ColoursAreFresh == Spec => []FreshWhenQuiet
<1>1. IInv => FreshWhenQuiet
  <2> SUFFICES ASSUME IInv, Undisturbed, ui = "idle", posted = << >>,
                      \A t \in LexThread : pc[t] \in {"none", "done"}
               PROVE  shown.from = version
    BY DEF FreshWhenQuiet
  <2>1. calls \in LexThread
    <3>1. calls \in 0 .. MaxCalls /\ MaxCalls \in Nat /\ calls > 0
      BY LexingAssumption DEF IInv, TypeOK, HandOverTypeOK, HandOverInv, CallsInv
    <3> QED BY <3>1 DEF LexThread
  <2>2. shown = [by |-> calls, from |-> version]
    BY <2>1 DEF IInv, HandOverInv, FreshInv
  <2> QED BY <2>2
<1> QED BY <1>1, Invariant, PTL

\* Undisturbed, a result never replaces that of a later worker.
THEOREM LaterReplacesEarlier == Spec => ResultsInOrder
<1>1. IInv => (Deliver /\ Undisturbed => Head(posted).by > shown.by)
  <2> SUFFICES ASSUME IInv, Deliver, Undisturbed PROVE Head(posted).by > shown.by
    OBVIOUS
  <2>1. Head(posted) = posted[1] /\ 1 \in 1 .. Len(posted)
    BY DeliverEffect
  <2> QED BY <2>1 DEF IInv, HandOverInv, OrderInv
<1>2. Spec => [][Deliver /\ Undisturbed => Head(posted).by > shown.by]_vars
  BY <1>1, Invariant, PTL
<1> QED BY <1>2 DEF ResultsInOrder
=============================================================================
