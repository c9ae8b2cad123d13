---------------------------- MODULE UndoStack_proof ----------------------------
(***************************************************************************)
(* Theorems about TextBuffer and UndoStack, for any texts, edits, gap and  *)
(* size of the cache.                                                      *)
(***************************************************************************)
EXTENDS UndoStack, SequenceTheorems, FiniteSetTheorems, WellFoundedInduction, TLAPS

-----------------------------------------------------------------------------
(* Texts with a part replaced.                                              *)

\* What Splice makes of a text, character by character.
LEMMA SpliceIs ==
  ASSUME NEW S, NEW t \in Seq(S), NEW s \in Seq(S), NEW from \in Nat, NEW n \in Nat,
         from + n <= Len(t)
  PROVE  /\ Splice(t, from, n, s) \in Seq(S)
         /\ Len(Splice(t, from, n, s)) = Len(t) - n + Len(s)
         /\ \A i \in 1 .. Len(t) - n + Len(s) : Splice(t, from, n, s)[i] =
              IF i <= from THEN t[i]
              ELSE IF i <= from + Len(s) THEN s[i - from] ELSE t[i - Len(s) + n]
<1> DEFINE a == SubSeq(t, 1, from)
           b == SubSeq(t, from + n + 1, Len(t))
<1>0. Len(t) \in Nat /\ Len(s) \in Nat /\ \A i \in 1 .. Len(t) : t[i] \in S
  BY LenProperties, ElementOfSeq
<1>1. a \in Seq(S) /\ Len(a) = from /\ \A i \in 1 .. from : a[i] = t[i]
  <2>1. \A i \in 1 .. from : t[i] \in S
    BY <1>0
  <2> HIDE DEF a
  <2>2. /\ SubSeq(t, 1, from) \in Seq(S)
        /\ Len(SubSeq(t, 1, from)) = IF 1 <= from THEN from - 1 + 1 ELSE 0
        /\ \A i \in 1 .. from - 1 + 1 : SubSeq(t, 1, from)[i] = t[1 + i - 1]
    BY <2>1, SubSeqProperties
  <2> QED BY <2>2 DEF a
<1>2. /\ b \in Seq(S) /\ Len(b) = Len(t) - n - from
      /\ \A i \in 1 .. Len(t) - n - from : b[i] = t[from + n + i]
  <2>1. \A i \in from + n + 1 .. Len(t) : t[i] \in S
    BY <1>0
  <2> HIDE DEF b
  <2>2. /\ SubSeq(t, from + n + 1, Len(t)) \in Seq(S)
        /\ Len(SubSeq(t, from + n + 1, Len(t))) =
             IF from + n + 1 <= Len(t) THEN Len(t) - (from + n + 1) + 1 ELSE 0
        /\ \A i \in 1 .. Len(t) - (from + n + 1) + 1 :
             SubSeq(t, from + n + 1, Len(t))[i] = t[(from + n + 1) + i - 1]
    BY <1>0, <2>1, SubSeqProperties
  <2> QED BY <1>0, <2>2 DEF b
<1> HIDE DEF a, b
<1> DEFINE e == a \o s
           r == e \o b
<1>3. /\ e \in Seq(S) /\ Len(e) = Len(a) + Len(s)
      /\ \A i \in 1 .. Len(a) + Len(s) : e[i] = IF i <= Len(a) THEN a[i] ELSE s[i - Len(a)]
  BY <1>1, ConcatProperties
<1>5. Splice(t, from, n, s) = r
  BY DEF Splice, a, b
<1> HIDE DEF e
<1>4. /\ r \in Seq(S) /\ Len(r) = Len(e) + Len(b)
      /\ \A i \in 1 .. Len(e) + Len(b) : r[i] = IF i <= Len(e) THEN e[i] ELSE b[i - Len(e)]
  <2>1. e \in Seq(S) /\ b \in Seq(S)
    BY <1>2, <1>3
  <2> QED BY <2>1, ConcatProperties
<1> HIDE DEF r
<1>6. Len(r) = Len(t) - n + Len(s)
  BY <1>0, <1>1, <1>2, <1>3, <1>4
<1>7. ASSUME NEW i \in 1 .. Len(t) - n + Len(s)
      PROVE  r[i] = IF i <= from THEN t[i]
                    ELSE IF i <= from + Len(s) THEN s[i - from] ELSE t[i - Len(s) + n]
  <2>0. /\ i \in 1 .. Len(e) + Len(b) /\ Len(e) = from + Len(s) /\ Len(b) \in Nat
        /\ i \in 1 .. Len(a) + Len(s) <=> i <= from + Len(s)
        /\ Len(a) = from
    BY <1>0, <1>1, <1>2, <1>3
  <2>1. CASE i <= from
    <3>1. r[i] = e[i] /\ e[i] = a[i]
      BY <1>0, <1>3, <1>4, <2>0, <2>1
    <3> QED BY <1>1, <2>1, <3>1
  <2>2. CASE i > from /\ i <= from + Len(s)
    <3>1. r[i] = e[i] /\ e[i] = s[i - from]
      BY <1>0, <1>3, <1>4, <2>0, <2>2
    <3> QED BY <2>2, <3>1
  <2>3. CASE i > from + Len(s)
    <3>1. i - Len(e) \in 1 .. Len(t) - n - from /\ ~ (i <= Len(e)) /\ i \in 1 .. Len(e) + Len(b)
      BY <1>0, <1>1, <1>2, <1>3, <2>3
    <3>2. r[i] = b[i - Len(e)]
      BY <1>4, <3>1
    <3>3. from + n + (i - Len(e)) = i - Len(s) + n
      BY <1>0, <1>1, <1>3
    <3>4. b[i - Len(e)] = t[from + n + (i - Len(e))]
      BY <1>2, <3>1
    <3>5. ~ (i <= from) /\ ~ (i <= from + Len(s))
      BY <1>0, <2>3
    <3> QED BY <3>2, <3>3, <3>4, <3>5
  <2> QED BY <1>0, <2>1, <2>2, <2>3
<1> QED BY <1>4, <1>5, <1>6, <1>7

\* A text with the n characters after offset from cut out, those characters, and a
\* text with s put in there ...
Cut(t, from, n) == Splice(t, from, n, <<>>)
Part(t, from, n) == SubSeq(t, from + 1, from + n)
Paste(t, from, s) == Splice(t, from, 0, s)

\* ... character by character.
IsCut(S, u, t, from, n) ==
  /\ u \in Seq(S)
  /\ Len(u) = Len(t) - n
  /\ \A i \in 1 .. Len(t) - n : u[i] = IF i <= from THEN t[i] ELSE t[i + n]

IsPart(S, u, t, from, n) ==
  /\ u \in Seq(S)
  /\ Len(u) = n
  /\ \A i \in 1 .. n : u[i] = t[from + i]

IsPaste(S, u, t, from, s) ==
  /\ u \in Seq(S)
  /\ Len(u) = Len(t) + Len(s)
  /\ \A i \in 1 .. Len(t) + Len(s) :
       u[i] = IF i <= from THEN t[i] ELSE IF i <= from + Len(s) THEN s[i - from] ELSE t[i - Len(s)]

LEMMA CutIs ==
  ASSUME NEW S, NEW t \in Seq(S), NEW from \in Nat, NEW n \in Nat, from + n <= Len(t)
  PROVE  IsCut(S, Cut(t, from, n), t, from, n)
<1> DEFINE s == <<>>
           u == Splice(t, from, n, s)
<1>1. s \in Seq(S) /\ Len(s) = 0 /\ Len(t) \in Nat
  BY EmptySeq, LenProperties
<1> HIDE DEF s
<1>2. /\ u \in Seq(S) /\ Len(u) = Len(t) - n + Len(s)
      /\ \A i \in 1 .. Len(t) - n + Len(s) :
           u[i] = IF i <= from THEN t[i]
                  ELSE IF i <= from + Len(s) THEN s[i - from] ELSE t[i - Len(s) + n]
  <2>1. s \in Seq(S)
    BY <1>1
  <2> QED BY <2>1, SpliceIs
<1>3. Cut(t, from, n) = u
  BY DEF Cut, s
<1> HIDE DEF u
<1>4. IsCut(S, u, t, from, n)
  BY <1>1, <1>2 DEF IsCut
<1> QED BY <1>3, <1>4

LEMMA PasteIs ==
  ASSUME NEW S, NEW t \in Seq(S), NEW s \in Seq(S), NEW from \in Nat, from <= Len(t)
  PROVE  IsPaste(S, Paste(t, from, s), t, from, s)
<1> DEFINE u == Splice(t, from, 0, s)
<1>1. Len(t) \in Nat /\ Len(s) \in Nat
  BY LenProperties
<1>2. /\ u \in Seq(S) /\ Len(u) = Len(t) - 0 + Len(s)
      /\ \A i \in 1 .. Len(t) - 0 + Len(s) :
           u[i] = IF i <= from THEN t[i]
                  ELSE IF i <= from + Len(s) THEN s[i - from] ELSE t[i - Len(s) + 0]
  BY SpliceIs
<1>3. Paste(t, from, s) = u
  BY DEF Paste
<1> HIDE DEF u
<1>4. IsPaste(S, u, t, from, s)
  BY <1>1, <1>2 DEF IsPaste
<1> QED BY <1>3, <1>4

LEMMA PartIs ==
  ASSUME NEW S, NEW t \in Seq(S), NEW from \in Nat, NEW n \in Nat, from + n <= Len(t)
  PROVE  IsPart(S, Part(t, from, n), t, from, n)
<1>1. Len(t) \in Nat /\ \A i \in from + 1 .. from + n : t[i] \in S
  BY LenProperties, ElementOfSeq
<1>2. /\ SubSeq(t, from + 1, from + n) \in Seq(S)
      /\ Len(SubSeq(t, from + 1, from + n)) =
           IF from + 1 <= from + n THEN (from + n) - (from + 1) + 1 ELSE 0
      /\ \A i \in 1 .. (from + n) - (from + 1) + 1 :
           SubSeq(t, from + 1, from + n)[i] = t[(from + 1) + i - 1]
  BY <1>1, SubSeqProperties
<1> QED BY <1>2 DEF Part, IsPart

\* What was cut out, put back, gives the text there was.
LEMMA CutAndPaste ==
  ASSUME NEW S, NEW t \in Seq(S), NEW from \in Nat, NEW n \in Nat, from + n <= Len(t)
  PROVE  Paste(Cut(t, from, n), from, Part(t, from, n)) = t
<1> DEFINE d == Part(t, from, n)
           u == Cut(t, from, n)
           v == Paste(u, from, d)
<1>0. Len(t) \in Nat
  BY LenProperties
<1>1. IsPart(S, d, t, from, n)
  BY PartIs
<1>2. IsCut(S, u, t, from, n)
  BY CutIs
<1> HIDE DEF d, u
<1>3. /\ v \in Seq(S) /\ Len(v) = Len(t)
      /\ \A i \in 1 .. Len(t) :
           v[i] = IF i <= from THEN u[i] ELSE IF i <= from + n THEN d[i - from] ELSE u[i - n]
  <2>1. from <= Len(u) /\ u \in Seq(S) /\ d \in Seq(S)
    BY <1>0, <1>1, <1>2 DEF IsPart, IsCut
  <2>2. IsPaste(S, v, u, from, d)
    BY <2>1, PasteIs
  <2> HIDE DEF v
  <2> QED BY <1>0, <1>1, <1>2, <2>2 DEF IsPart, IsCut, IsPaste
<1> HIDE DEF v
<1>4. ASSUME NEW i \in 1 .. Len(t) PROVE v[i] = t[i]
  <2>1. CASE i <= from
    <3>1. v[i] = u[i] /\ i \in 1 .. Len(t) - n
      BY <1>0, <1>3, <2>1
    <3> QED BY <1>2, <2>1, <3>1 DEF IsCut
  <2>2. CASE i > from /\ i <= from + n
    <3>1. v[i] = d[i - from] /\ i - from \in 1 .. n
      BY <1>0, <1>3, <2>2
    <3> QED BY <1>1, <3>1 DEF IsPart
  <2>3. CASE i > from + n
    <3>1. v[i] = u[i - n] /\ i - n \in 1 .. Len(t) - n /\ ~ (i - n <= from)
      BY <1>0, <1>3, <2>3
    <3> QED BY <1>2, <3>1 DEF IsCut
  <2> QED BY <2>1, <2>2, <2>3
<1>5. v = t
  BY <1>3, <1>4, SeqEqual
<1> QED BY <1>5 DEF v, u, d

\* What was put in, cut out, gives the text there was; and it is what was cut out.
LEMMA PasteAndCut ==
  ASSUME NEW S, NEW t \in Seq(S), NEW s \in Seq(S), NEW from \in Nat, from <= Len(t)
  PROVE  /\ Cut(Paste(t, from, s), from, Len(s)) = t
         /\ Part(Paste(t, from, s), from, Len(s)) = s
<1> DEFINE u == Paste(t, from, s)
           v == Cut(u, from, Len(s))
           p == Part(u, from, Len(s))
<1>0. Len(t) \in Nat /\ Len(s) \in Nat
  BY LenProperties
<1>1. IsPaste(S, u, t, from, s)
  BY PasteIs
<1> HIDE DEF u
<1>2. u \in Seq(S) /\ from + Len(s) <= Len(u)
  BY <1>0, <1>1 DEF IsPaste
<1>3. IsCut(S, v, u, from, Len(s)) /\ IsPart(S, p, u, from, Len(s))
  BY <1>0, <1>2, CutIs, PartIs
<1> HIDE DEF v, p
<1>4. v \in Seq(S) /\ p \in Seq(S) /\ Len(v) = Len(t) /\ Len(p) = Len(s)
  BY <1>0, <1>1, <1>3 DEF IsPaste, IsCut, IsPart
<1>5. ASSUME NEW i \in 1 .. Len(t) PROVE v[i] = t[i]
  <2>1. CASE i <= from
    <3>1. v[i] = u[i] /\ u[i] = t[i]
      BY <1>0, <1>1, <1>3, <2>1 DEF IsPaste, IsCut
    <3> QED BY <3>1
  <2>2. CASE ~ (i <= from)
    <3>1. v[i] = u[i + Len(s)] /\ u[i + Len(s)] = t[i + Len(s) - Len(s)]
      BY SMTT(60), <1>0, <1>1, <1>3, <2>2 DEF IsPaste, IsCut
    <3> QED BY <1>0, <3>1
  <2> QED BY <2>1, <2>2
<1>6. ASSUME NEW i \in 1 .. Len(s) PROVE p[i] = s[i]
  <2>1. p[i] = u[from + i] /\ u[from + i] = s[from + i - from]
    BY <1>0, <1>1, <1>3 DEF IsPaste, IsPart
  <2> QED BY <1>0, <2>1
<1>7. v = t
  BY <1>4, <1>5, SeqEqual
<1>8. p = s
  BY <1>4, <1>6, SeqEqual
<1> QED BY <1>7, <1>8 DEF u, v, p

\* Text put in behind a part, cut out with it: an insertion merged into the last one.
LEMMA CutMerged ==
  ASSUME NEW S, NEW t \in Seq(S), NEW s \in Seq(S), NEW from \in Nat, NEW n \in Nat,
         from + n <= Len(t)
  PROVE  Cut(Paste(t, from + n, s), from, n + Len(s)) = Cut(t, from, n)
<1> DEFINE u == Paste(t, from + n, s)
           v == Cut(u, from, n + Len(s))
           w == Cut(t, from, n)
<1>0. Len(t) \in Nat /\ Len(s) \in Nat
  BY LenProperties
<1>1. IsPaste(S, u, t, from + n, s)
  BY PasteIs
<1>2. IsCut(S, w, t, from, n)
  BY CutIs
<1> HIDE DEF u, w
<1>3. IsCut(S, v, u, from, n + Len(s))
  <2>1. u \in Seq(S) /\ from + (n + Len(s)) <= Len(u) /\ n + Len(s) \in Nat
    BY <1>0, <1>1 DEF IsPaste
  <2> QED BY <2>1, CutIs
<1> HIDE DEF v
<1>4. Len(v) = Len(w)
  BY <1>0, <1>1, <1>2, <1>3 DEF IsCut, IsPaste
<1>5. ASSUME NEW i \in 1 .. Len(v) PROVE v[i] = w[i]
  <2>0. i \in 1 .. Len(t) - n
    BY <1>0, <1>1, <1>3 DEF IsCut, IsPaste
  <2>1. CASE i <= from
    <3>1. v[i] = u[i] /\ u[i] = t[i]
      BY <1>0, <1>1, <1>3, <2>1 DEF IsCut, IsPaste
    <3> QED BY <1>2, <2>0, <2>1, <3>1 DEF IsCut
  <2>2. CASE ~ (i <= from)
    <3>1. v[i] = u[i + (n + Len(s))]
      BY <1>3, <2>2, <1>5 DEF IsCut, IsPaste
    <3>2. u[i + (n + Len(s))] = t[i + (n + Len(s)) - Len(s)]
      BY SMTT(60), <1>0, <1>1, <2>0, <2>2 DEF IsCut, IsPaste
    <3>3. i + (n + Len(s)) - Len(s) = i + n
      BY <1>0, <2>0
    <3> QED BY <1>2, <2>0, <2>2, <3>1, <3>2, <3>3 DEF IsCut
  <2> QED BY <2>1, <2>2
<1>6. v = w
  BY <1>2, <1>3, <1>4, <1>5, SeqEqual DEF IsCut
<1> QED BY <1>6 DEF u, v, w

\* Two cuts that meet are one: a deletion merged into the last one.
LEMMA CutTwice ==
  ASSUME NEW S, NEW t \in Seq(S), NEW from \in Nat, NEW n \in Nat, NEW m \in Nat,
         from + m + n <= Len(t)
  PROVE  Cut(Cut(t, from + m, n), from, m) = Cut(t, from, n + m)
<1> DEFINE u == Cut(t, from + m, n)
           v == Cut(u, from, m)
           w == Cut(t, from, n + m)
<1>0. Len(t) \in Nat
  BY LenProperties
<1>1. IsCut(S, u, t, from + m, n)
  BY CutIs
<1>2. IsCut(S, w, t, from, n + m)
  <2>1. n + m \in Nat /\ from + (n + m) <= Len(t)
    BY <1>0
  <2> QED BY <2>1, CutIs
<1> HIDE DEF u, w
<1>3. IsCut(S, v, u, from, m)
  <2>1. u \in Seq(S) /\ from + m <= Len(u)
    BY <1>0, <1>1 DEF IsCut
  <2> QED BY <2>1, CutIs
<1> HIDE DEF v
<1>4. Len(v) = Len(w)
  BY <1>0, <1>1, <1>2, <1>3 DEF IsCut
<1>5. ASSUME NEW i \in 1 .. Len(v) PROVE v[i] = w[i]
  <2>0. i \in 1 .. Len(t) - (n + m) /\ i \in 1 .. Len(u) - m
    BY <1>0, <1>1, <1>3 DEF IsCut
  <2>1. CASE i <= from
    <3>1. v[i] = u[i]
      BY <1>3, <2>0, <2>1 DEF IsCut
    <3>2. i \in 1 .. Len(t) - n /\ i <= from + m
      BY <1>0, <2>0, <2>1
    <3>3. u[i] = t[i]
      BY <1>1, <3>2 DEF IsCut
    <3> QED BY <1>2, <2>0, <2>1, <3>1, <3>3 DEF IsCut
  <2>2. CASE ~ (i <= from)
    <3>1. v[i] = u[i + m]
      BY <1>3, <2>0, <2>2 DEF IsCut
    <3>2. i + m \in 1 .. Len(t) - n /\ ~ (i + m <= from + m) /\ i + m + n = i + (n + m)
      BY <1>0, <2>0, <2>2
    <3>3. u[i + m] = t[i + m + n]
      BY <1>1, <3>2 DEF IsCut
    <3> QED BY <1>2, <2>0, <2>2, <3>1, <3>2, <3>3 DEF IsCut
  <2> QED BY <2>1, <2>2
<1>6. v = w
  BY <1>2, <1>3, <1>4, <1>5, SeqEqual DEF IsCut
<1> QED BY <1>6 DEF u, v, w

-----------------------------------------------------------------------------
(* The array with the gap.                                                  *)

C == Char \cup {NUL}

\* The array and its gap.
ArrayInv ==
  /\ \E n \in Nat : DOMAIN contents = 0 .. n - 1
  /\ \A i \in 0 .. Size - 2 : contents[i] \in C
  /\ contents[Size - 1] = EOF
  /\ gapStart \in Nat /\ gapEnd \in Nat /\ gapStart < gapEnd /\ gapEnd < Size
  /\ allocMultiplier \in Nat \ {0}

\* The text in an array c of that size with the gap from g to e.
TextOf(c, g, e, size) ==
  [i \in 1 .. (size - (e - g)) - 1 |-> c[IF i - 1 < g THEN i - 1 ELSE i - 1 + (e - g)]]

\* The size of an array is the number of its cells.
LEMMA SizeIs == \A n \in Nat : Cardinality(0 .. n - 1) = n
<1> SUFFICES ASSUME NEW n \in Nat PROVE Cardinality(0 .. n - 1) = n
  OBVIOUS
<1>1. n - 1 \in Int /\ 0 \in Int
  OBVIOUS
<1>2. Cardinality(0 .. n - 1) = IF 0 > n - 1 THEN 0 ELSE (n - 1) - 0 + 1
  BY <1>1, FS_Interval
<1> QED BY <1>2

\* The indices of the array.
LEMMA ArrayIs ==
  ASSUME ArrayInv
  PROVE  /\ Size \in Nat /\ DOMAIN contents = 0 .. Size - 1
         /\ GapSize \in Nat \ {0} /\ GapSize = gapEnd - gapStart
<1>1. PICK n \in Nat : DOMAIN contents = 0 .. n - 1
  BY DEF ArrayInv
<1>2. Size = n
  BY <1>1, SizeIs DEF Size
<1> QED BY <1>1, <1>2 DEF ArrayInv, GapSize

\* What the text is, before and after a step.
LEMMA TextIs ==
  /\ Text = TextOf(contents, gapStart, gapEnd, Size)
  /\ Text' = TextOf(contents', gapStart', gapEnd', Size')
<1>1. Text = TextOf(contents, gapStart, gapEnd, Size)
  BY DEF Text, TextAt, TextLength, LogicalToReal, GapSize, TextOf
<1>2. Text' = TextOf(contents', gapStart', gapEnd', Size')
  BY DEF Text, TextAt, TextLength, LogicalToReal, GapSize, TextOf
<1> QED BY <1>1, <1>2

\* The characters of the text.
LEMMA TextOfIs ==
  ASSUME NEW c, NEW g \in Nat, NEW e \in Nat, NEW size \in Nat, g < e, e < size,
         \A i \in 0 .. size - 2 : c[i] \in C
  PROVE  /\ TextOf(c, g, e, size) \in Seq(C)
         /\ Len(TextOf(c, g, e, size)) = size - (e - g) - 1
         /\ \A i \in 1 .. size - (e - g) - 1 : TextOf(c, g, e, size)[i] =
              c[IF i - 1 < g THEN i - 1 ELSE i - 1 + (e - g)]
<1> DEFINE n == (size - (e - g)) - 1
           at(i) == IF i - 1 < g THEN i - 1 ELSE i - 1 + (e - g)
           t == [i \in 1 .. n |-> c[at(i)]]
<1>1. n \in Nat
  OBVIOUS
<1>2. \A i \in 1 .. n : at(i) \in 0 .. size - 2
  OBVIOUS
<1>3. \A i \in 1 .. n : c[at(i)] \in C
  BY <1>2
<1>4. TextOf(c, g, e, size) = t
  BY DEF TextOf
<1> HIDE DEF n
<1>5. t \in Seq(C) /\ Len(t) = n /\ \A i \in 1 .. n : t[i] = c[at(i)]
  <2> HIDE DEF at
  <2>1. t \in [1 .. n -> C]
    BY <1>3
  <2> QED BY <1>1, <2>1
<1> QED BY <1>4, <1>5 DEF n

\* Where the characters of the text are, of which there are Size less the gap and EOF.
LEMMA CharsAre ==
  ASSUME ArrayInv
  PROVE  /\ Text \in Seq(C) /\ Len(Text) \in Nat /\ Len(Text) = Size - GapSize - 1
         /\ gapStart <= Len(Text)
         /\ \A i \in 1 .. Len(Text) :
              Text[i] = contents[IF i <= gapStart THEN i - 1 ELSE i - 1 + GapSize]
<1>1. /\ Size \in Nat /\ GapSize \in Nat \ {0} /\ GapSize = gapEnd - gapStart
      /\ gapStart \in Nat /\ gapEnd \in Nat /\ gapStart < gapEnd /\ gapEnd < Size
      /\ \A i \in 0 .. Size - 2 : contents[i] \in C
  BY ArrayIs DEF ArrayInv
<1> HIDE DEF C
<1>2. /\ Text \in Seq(C) /\ Len(Text) = Size - (gapEnd - gapStart) - 1
      /\ \A i \in 1 .. Size - (gapEnd - gapStart) - 1 : Text[i] =
           contents[IF i - 1 < gapStart THEN i - 1 ELSE i - 1 + (gapEnd - gapStart)]
  <2> DEFINE t == TextOf(contents, gapStart, gapEnd, Size)
  <2>1. /\ t \in Seq(C) /\ Len(t) = Size - (gapEnd - gapStart) - 1
        /\ \A i \in 1 .. Size - (gapEnd - gapStart) - 1 : t[i] =
             contents[IF i - 1 < gapStart THEN i - 1 ELSE i - 1 + (gapEnd - gapStart)]
    BY <1>1, TextOfIs
  <2> HIDE DEF t
  <2>2. Text = t
    BY TextIs DEF t
  <2> QED BY <2>1, <2>2
<1> QED BY <1>1, <1>2

\* The characters of the text after a step.
LEMMA NextCharsAre ==
  ASSUME ArrayInv', Size' \in Nat
  PROVE  /\ Text' \in Seq(C) /\ Len(Text') = Size' - (gapEnd' - gapStart') - 1
         /\ \A i \in 1 .. Size' - (gapEnd' - gapStart') - 1 : Text'[i] =
              contents'[IF i - 1 < gapStart' THEN i - 1 ELSE i - 1 + (gapEnd' - gapStart')]
<1> DEFINE t == TextOf(contents', gapStart', gapEnd', Size')
<1>1. /\ gapStart' \in Nat /\ gapEnd' \in Nat /\ Size' \in Nat
      /\ gapStart' < gapEnd' /\ gapEnd' < Size'
      /\ \A i \in 0 .. Size' - 2 : contents'[i] \in C
  <2> HIDE DEF C
  <2> QED BY DEF ArrayInv
<1> HIDE DEF C
<1>2. /\ t \in Seq(C) /\ Len(t) = Size' - (gapEnd' - gapStart') - 1
      /\ \A i \in 1 .. Size' - (gapEnd' - gapStart') - 1 : t[i] =
           contents'[IF i - 1 < gapStart' THEN i - 1 ELSE i - 1 + (gapEnd' - gapStart')]
  <2>0. PICK c : c = contents'
    OBVIOUS
  <2>1. PICK g \in Nat, e \in Nat, size \in Nat :
           c = contents' /\ g = gapStart' /\ e = gapEnd' /\ size = Size'
    BY <1>1, <2>0
  <2>2. g < e /\ e < size /\ \A i \in 0 .. size - 2 : c[i] \in C
    BY <1>1, <2>1
  <2>3. /\ TextOf(c, g, e, size) \in Seq(C)
        /\ Len(TextOf(c, g, e, size)) = size - (e - g) - 1
        /\ \A i \in 1 .. size - (e - g) - 1 : TextOf(c, g, e, size)[i] =
              c[IF i - 1 < g THEN i - 1 ELSE i - 1 + (e - g)]
    BY <2>2, TextOfIs
  <2> QED BY <2>1, <2>3
<1> HIDE DEF t
<1>3. Text' = t
  BY TextIs DEF t
<1> QED BY <1>2, <1>3

\* The array with its gap moved to start at g: the text before and behind it, and what
\* is between is text, too, or was in the gap.
LEMMA ShiftIs ==
  ASSUME ArrayInv, NEW g \in 0 .. Len(Text)
  PROVE  /\ DOMAIN ShiftGapTo(g) = 0 .. Size - 1
         /\ \A i \in 0 .. Size - 2 : ShiftGapTo(g)[i] \in C
         /\ ShiftGapTo(g)[Size - 1] = EOF
         /\ \A i \in 1 .. g : ShiftGapTo(g)[i - 1] = Text[i]
         /\ \A i \in g + 1 .. Len(Text) : ShiftGapTo(g)[i - 1 + GapSize] = Text[i]
         /\ g = gapStart => \A i \in 0 .. Size - 1 : ShiftGapTo(g)[i] = contents[i]
<1>1. /\ Size \in Nat /\ GapSize \in Nat \ {0} /\ GapSize = gapEnd - gapStart
      /\ gapStart \in Nat /\ gapEnd \in Nat /\ gapStart < gapEnd /\ gapEnd < Size
      /\ \A i \in 0 .. Size - 2 : contents[i] \in C
      /\ contents[Size - 1] = EOF
      /\ DOMAIN contents = 0 .. Size - 1
  BY ArrayIs DEF ArrayInv
<1>2. /\ Len(Text) = Size - GapSize - 1
      /\ \A i \in 1 .. Len(Text) :
           Text[i] = contents[IF i <= gapStart THEN i - 1 ELSE i - 1 + GapSize]
  BY CharsAre
<1> DEFINE c == ShiftGapTo(g)
           n == Len(Text)
<1>3. /\ DOMAIN c = 0 .. Size - 1
      /\ \A i \in 0 .. Size - 1 : c[i] =
           IF g + GapSize <= i /\ i < gapEnd THEN contents[i - GapSize]
           ELSE IF gapStart <= i /\ i < g THEN contents[i + GapSize] ELSE contents[i]
  BY <1>1 DEF ShiftGapTo
<1> HIDE DEF c, n, C
<1>4. n \in Nat /\ n = Size - GapSize - 1 /\ g \in 0 .. n
  BY <1>1, <1>2 DEF n
<1>5. \A i \in 0 .. Size - 2 : c[i] \in C
  BY <1>1, <1>3, <1>4
<1>6. c[Size - 1] = EOF
  BY SMTT(60), <1>1, <1>3, <1>4
<1>7. ASSUME NEW i \in 1 .. g PROVE c[i - 1] = Text[i]
  <2>1. i \in 1 .. n /\ i - 1 \in 0 .. Size - 1
    BY <1>1, <1>4
  <2>2. Text[i] = contents[IF i <= gapStart THEN i - 1 ELSE i - 1 + GapSize]
    BY <1>2, <2>1 DEF n
  <2>3. c[i - 1] = contents[IF i <= gapStart THEN i - 1 ELSE i - 1 + GapSize]
    BY <1>1, <1>3, <1>4, <2>1
  <2> QED BY <2>2, <2>3
<1>8. ASSUME NEW i \in g + 1 .. n PROVE c[i - 1 + GapSize] = Text[i]
  <2>1. i \in 1 .. n /\ i - 1 + GapSize \in 0 .. Size - 1
    BY <1>1, <1>4
  <2>2. Text[i] = contents[IF i <= gapStart THEN i - 1 ELSE i - 1 + GapSize]
    BY <1>2, <2>1 DEF n
  <2>3. c[i - 1 + GapSize] = contents[IF i <= gapStart THEN i - 1 ELSE i - 1 + GapSize]
    BY <1>1, <1>3, <1>4, <2>1
  <2> QED BY <2>2, <2>3
<1>9. ASSUME g = gapStart, NEW i \in 0 .. Size - 1 PROVE c[i] = contents[i]
  <2>1. ~ (g + GapSize <= i /\ i < gapEnd) /\ ~ (gapStart <= i /\ i < g)
    BY <1>1, <1>9
  <2> QED BY <1>3, <2>1
<1> QED BY <1>3, <1>5, <1>6, <1>7, <1>8, <1>9 DEF c, n

-----------------------------------------------------------------------------
(* What the three operations do to the text and the array.                  *)

\* Growing the buffer leaves room for n characters and a gap behind them, and keeps
\* what is not in the gap.
IsGrown(r, c, g, n, inc) ==
  /\ inc \in Nat /\ n < GapSize + inc
  /\ DOMAIN r = 0 .. (Size + inc) - 1
  /\ \A i \in 0 .. (Size + inc) - 2 : r[i] \in C
  /\ r[(Size + inc) - 1] = EOF
  /\ \A i \in 0 .. g - 1 : r[i] = c[i]
  /\ \A i \in g + GapSize .. Size - 1 : r[i + inc] = c[i]

LEMMA GrowIs ==
  ASSUME ArrayInv, NEW n \in Nat, NEW c, NEW g \in 0 .. Len(Text),
         DOMAIN c = 0 .. Size - 1, \A i \in 0 .. Size - 2 : c[i] \in C, c[Size - 1] = EOF
  PROVE  IsGrown(GrowBuffer(c, g, Growth(n)), c, g, n, Growth(n))
<1> DEFINE r == GrowBuffer(c, g, Growth(n))
<1>0. /\ Size \in Nat /\ GapSize \in Nat \ {0} /\ allocMultiplier \in Nat \ {0}
      /\ Len(Text) \in Nat /\ Len(Text) = Size - GapSize - 1
  BY ArrayIs, CharsAre DEF ArrayInv
<1>1. /\ Size \in Nat /\ GapSize \in Nat \ {0} /\ GapSize < Size /\ g + GapSize < Size /\ g \in Nat
      /\ allocMultiplier \in Nat \ {0}
  BY <1>0
<1>2. MinGap * allocMultiplier \in Nat \ {0}
  BY <1>1, SizeAssumption
<1>3. Growth(n) \in Nat /\ n < GapSize + Growth(n)
  <2> DEFINE room == MinGap * allocMultiplier
  <2>1. Growth(n) = IF n >= GapSize THEN n - GapSize + room ELSE 0
    BY DEF Growth
  <2> HIDE DEF room
  <2> QED BY <1>1, <1>2, <2>1 DEF room
<1> DEFINE inc == Growth(n)
<1>4. inc \in Nat
  BY <1>3
<1>5. r = IF inc = 0 THEN c
          ELSE [i \in 0 .. (Size + inc - 1) |->
                  IF i < g THEN c[i] ELSE IF i >= g + GapSize + inc THEN c[i - inc] ELSE NUL]
  BY DEF GrowBuffer, r
<1> SUFFICES IsGrown(r, c, g, n, inc)
  OBVIOUS
<1> HIDE DEF inc, r
<1>6. CASE inc = 0
  <2>1. r = c
    BY <1>5, <1>6
  <2>2. IsGrown(r, c, g, n, inc)
    BY <1>1, <1>3, <1>6, <2>1 DEF inc, IsGrown
  <2> QED BY <2>2
<1>7. CASE inc # 0
  <2>1. /\ DOMAIN r = 0 .. (Size + inc) - 1
        /\ \A i \in 0 .. (Size + inc) - 1 : r[i] =
             IF i < g THEN c[i] ELSE IF i >= g + GapSize + inc THEN c[i - inc] ELSE NUL
    BY <1>1, <1>4, <1>5, <1>7
  <2>2. ASSUME NEW i \in 0 .. (Size + inc) - 2 PROVE r[i] \in C
    <3>1. CASE i < g
      BY <1>1, <1>4, <2>1, <3>1
    <3>2. CASE i >= g + GapSize + inc
      <4>1. r[i] = c[i - inc] /\ i - inc \in 0 .. Size - 2
        BY <1>1, <1>4, <2>1, <3>2
      <4> QED BY <4>1
    <3>3. CASE ~ (i < g) /\ ~ (i >= g + GapSize + inc)
      BY <1>1, <1>4, <2>1, <3>3 DEF C
    <3> QED BY <3>1, <3>2, <3>3
  <2>3. r[(Size + inc) - 1] = EOF
    <3>1. r[(Size + inc) - 1] = c[(Size + inc) - 1 - inc]
      BY <1>1, <1>4, <2>1
    <3> QED BY <1>1, <1>4, <3>1
  <2>4. \A i \in 0 .. g - 1 : r[i] = c[i]
    BY <1>1, <1>4, <2>1
  <2>5. ASSUME NEW i \in g + GapSize .. Size - 1 PROVE r[i + inc] = c[i]
    <3>1. r[i + inc] = c[i + inc - inc]
      BY <1>1, <1>4, <2>1
    <3> QED BY <1>1, <1>4, <3>1
  <2> QED BY <1>3, <2>1, <2>2, <2>3, <2>4, <2>5 DEF inc, IsGrown
<1> QED BY <1>6, <1>7

\* insert puts the string into the text where it is told to.
LEMMA InsertIs ==
  ASSUME ArrayInv, NEW s \in Seq(C), NEW at \in 0 .. Len(Text), insert(s, at)
  PROVE  /\ ArrayInv'
         /\ Text' = Paste(Text, at, s)
         /\ gapStart' = at + Len(s)
         /\ Size' \in Nat /\ Size <= Size'
<1> DEFINE n == Len(s)
           inc == Growth(n)
           c == ShiftGapTo(at)
           r == GrowBuffer(c, at, inc)
<1>1. /\ Size \in Nat /\ GapSize \in Nat \ {0} /\ n \in Nat /\ at \in Nat
      /\ Text \in Seq(C) /\ Len(Text) \in Nat /\ Len(Text) = Size - GapSize - 1
      /\ allocMultiplier \in Nat \ {0}
  BY ArrayIs, CharsAre, LenProperties DEF ArrayInv
<1>2. /\ DOMAIN c = 0 .. Size - 1
      /\ \A i \in 0 .. Size - 2 : c[i] \in C
      /\ c[Size - 1] = EOF
      /\ \A i \in 1 .. at : c[i - 1] = Text[i]
      /\ \A i \in at + 1 .. Len(Text) : c[i - 1 + GapSize] = Text[i]
  BY ShiftIs
<1>3. /\ contents' = [i \in DOMAIN r |-> IF i \in at .. (at + n - 1) THEN s[i - at + 1] ELSE r[i]]
      /\ gapStart' = at + n
      /\ gapEnd' = at + GapSize + inc
      /\ allocMultiplier' = IF inc > 0 THEN 2 * allocMultiplier ELSE allocMultiplier
  BY DEF insert
<1> HIDE DEF c
<1>4. /\ inc \in Nat /\ n < GapSize + inc
      /\ DOMAIN r = 0 .. (Size + inc) - 1
      /\ \A i \in 0 .. (Size + inc) - 2 : r[i] \in C
      /\ r[(Size + inc) - 1] = EOF
      /\ \A i \in 0 .. at - 1 : r[i] = c[i]
      /\ \A i \in at + GapSize .. Size - 1 : r[i + inc] = c[i]
  <2> HIDE DEF n, r
  <2>1. n \in Nat /\ at \in 0 .. Len(Text) /\ DOMAIN c = 0 .. Size - 1
        /\ (\A i \in 0 .. Size - 2 : c[i] \in C) /\ c[Size - 1] = EOF
    BY <1>1, <1>2
  <2> HIDE DEF inc
  <2>2. IsGrown(GrowBuffer(c, at, Growth(n)), c, at, n, Growth(n))
    BY <2>1, GrowIs
  <2> QED BY <2>2 DEF IsGrown, r, inc
<1> HIDE DEF n, inc, r
<1>5. /\ DOMAIN contents' = 0 .. (Size + inc) - 1
      /\ \A i \in 0 .. (Size + inc) - 1 :
           contents'[i] = IF i \in at .. (at + n - 1) THEN s[i - at + 1] ELSE r[i]
  BY <1>3, <1>4
<1>6. Size' = Size + inc /\ GapSize' = GapSize + inc - n
  <2>1. Size + inc \in Nat
    BY <1>1, <1>4
  <2>2. Cardinality(0 .. (Size + inc) - 1) = Size + inc
    BY <2>1, SizeIs
  <2>3. Size' = Size + inc
    BY <1>5, <2>2 DEF Size
  <2>4. GapSize' = gapEnd' - gapStart'
    BY DEF GapSize
  <2> QED BY <1>1, <1>3, <1>4, <2>3, <2>4
<1>7. \A i \in 1 .. n : s[i] \in C
  BY ElementOfSeq DEF n
<1>8. ArrayInv'
  <2>1. \E m \in Nat : DOMAIN contents' = 0 .. m - 1
    <3>1. Size + inc \in Nat
      BY <1>1, <1>4
    <3> QED BY <1>5, <3>1
  <2>2. ASSUME NEW i \in 0 .. Size' - 2 PROVE contents'[i] \in C
    <3>1. CASE i \in at .. (at + n - 1)
      <4>1. contents'[i] = s[i - at + 1] /\ i - at + 1 \in 1 .. n
        BY <1>1, <1>4, <1>5, <1>6, <3>1
      <4> QED BY <1>7, <4>1
    <3>2. CASE i \notin at .. (at + n - 1)
      BY <1>1, <1>4, <1>5, <1>6, <3>2
    <3> QED BY <3>1, <3>2
  <2>3. contents'[Size' - 1] = EOF
    <3>1. Size' - 1 \notin at .. (at + n - 1) /\ Size' - 1 \in 0 .. (Size + inc) - 1
      BY <1>1, <1>4, <1>6
    <3> QED BY <1>4, <1>5, <1>6, <3>1
  <2>4. /\ gapStart' \in Nat /\ gapEnd' \in Nat /\ gapStart' < gapEnd' /\ gapEnd' < Size'
        /\ allocMultiplier' \in Nat \ {0}
    BY <1>1, <1>3, <1>4, <1>6
  <2> QED BY <2>1, <2>2, <2>3, <2>4 DEF ArrayInv, C
<1>10. gapEnd' - gapStart' = GapSize + inc - n /\ Size' - (gapEnd' - gapStart') - 1 = Len(Text) + n
  BY <1>1, <1>3, <1>4, <1>6
<1>9. Text' = Paste(Text, at, s)
  <2> DEFINE t == TextOf(contents', gapStart', gapEnd', Size')
             p == Paste(Text, at, s)
  <2>1. /\ gapStart' \in Nat /\ gapEnd' \in Nat /\ Size' \in Nat /\ gapStart' < gapEnd' /\ gapEnd' < Size'
        /\ \A i \in 0 .. Size' - 2 : contents'[i] \in C
    <3> HIDE DEF C
    <3>1. Size' \in Nat
      BY <1>1, <1>4, <1>6
    <3> QED BY <1>8, <3>1 DEF ArrayInv
  <2>2. /\ t \in Seq(C) /\ Len(t) = Size' - (gapEnd' - gapStart') - 1
        /\ \A i \in 1 .. Size' - (gapEnd' - gapStart') - 1 : t[i] =
             contents'[IF i - 1 < gapStart' THEN i - 1 ELSE i - 1 + (gapEnd' - gapStart')]
    <3>1. Text' = t
      BY TextIs
    <3> HIDE DEF C, t
    <3>2. /\ Text' \in Seq(C) /\ Len(Text') = Size' - (gapEnd' - gapStart') - 1
          /\ \A i \in 1 .. Size' - (gapEnd' - gapStart') - 1 : Text'[i] =
               contents'[IF i - 1 < gapStart' THEN i - 1 ELSE i - 1 + (gapEnd' - gapStart')]
      BY <1>8, <2>1, NextCharsAre
    <3> QED BY <3>1, <3>2
  <2>3. IsPaste(C, p, Text, at, s)
    <3>1. at <= Len(Text) /\ Text \in Seq(C)
      BY <1>1
    <3> HIDE DEF C
    <3> QED BY <1>1, <3>1, PasteIs
  <2> HIDE DEF t, p
  <2>4. Len(t) = Len(Text) + n /\ Len(p) = Len(Text) + n
    BY <1>10, <2>2, <2>3 DEF IsPaste, n
  <2>5. ASSUME NEW i \in 1 .. Len(Text) + n PROVE t[i] = p[i]
    <3>0. t[i] = contents'[IF i <= at + n THEN i - 1 ELSE i - 1 + (GapSize + inc - n)]
      <4>1. t[i] = contents'[IF i - 1 < gapStart' THEN i - 1 ELSE i - 1 + (gapEnd' - gapStart')]
        BY <1>10, <2>2
      <4>2. i - 1 < gapStart' <=> i <= at + n
        BY <1>1, <1>3
      <4> QED BY <1>10, <4>1, <4>2
    <3>1. CASE i <= at
      <4>0. /\ i <= at + n /\ i - 1 \in 0 .. at - 1 /\ i - 1 \in 0 .. (Size + inc) - 1
            /\ i - 1 \notin at .. (at + n - 1)
        BY <1>1, <1>4, <3>1
      <4>1. t[i] = contents'[i - 1] /\ contents'[i - 1] = r[i - 1] /\ r[i - 1] = c[i - 1]
        BY <1>4, <1>5, <3>0, <4>0
      <4>2. c[i - 1] = Text[i]
        BY <1>1, <1>2, <3>1
      <4>3. p[i] = Text[i]
        BY <1>1, <2>3, <3>1 DEF IsPaste, n
      <4> QED BY <4>1, <4>2, <4>3
    <3>2. CASE ~ (i <= at) /\ i <= at + n
      <4>1. t[i] = contents'[i - 1] /\ contents'[i - 1] = s[i - 1 - at + 1]
        BY SMTT(60), <1>1, <1>4, <1>5, <3>0, <3>2
      <4>2. p[i] = s[i - at]
        BY <1>1, <2>3, <3>2 DEF IsPaste, n
      <4>3. i - 1 - at + 1 = i - at
        BY <1>1
      <4> QED BY <4>1, <4>2, <4>3
    <3>3. CASE ~ (i <= at + n)
      <4> DEFINE j == i - n - 1 + GapSize
      <4>1. /\ j \in at + GapSize .. Size - 1 /\ j + inc = i - 1 + (GapSize + inc - n)
            /\ j + inc \in 0 .. (Size + inc) - 1 /\ j + inc \notin at .. (at + n - 1)
            /\ i - n \in at + 1 .. Len(Text)
        BY <1>1, <1>4, <3>3
      <4>2. t[i] = contents'[j + inc]
        BY <3>0, <3>3, <4>1
      <4>3. contents'[j + inc] = r[j + inc] /\ r[j + inc] = c[j]
        BY <1>4, <1>5, <4>1
      <4>4. c[j] = Text[i - n]
        BY <1>2, <4>1
      <4>5. p[i] = Text[i - n]
        BY <1>1, <2>3, <3>3 DEF IsPaste, n
      <4> QED BY <4>2, <4>3, <4>4, <4>5
    <3> QED BY <3>1, <3>2, <3>3
  <2>6. t = p
    BY <2>2, <2>3, <2>4, <2>5, SeqEqual DEF IsPaste
  <2> QED BY <2>6, TextIs DEF t, p
<1>11. Size' \in Nat /\ Size <= Size'
  BY <1>1, <1>4, <1>6
<1> QED BY <1>3, <1>8, <1>9, <1>11 DEF n

\* The first n cells of a gap that starts at g in the array c.
Gap(c, g, n) == [i \in 1 .. n |-> c[g + i - 1]]

\* delete cuts the characters out of the text and leaves them at the start of the gap.
LEMMA DeleteIs ==
  ASSUME ArrayInv, NEW at \in Nat, NEW n \in Nat, at + n <= Len(Text), delete(at, n)
  PROVE  /\ ArrayInv'
         /\ Text' = Cut(Text, at, n)
         /\ gapStart' = at /\ Size' = Size /\ n < GapSize' /\ GapSize' = GapSize + n
         /\ Gap(contents', gapStart', n) = Part(Text, at, n)
         /\ gapStart = at + n => \A i \in 0 .. Size - 1 : contents'[i] = contents[i]
<1> DEFINE g == at + n
<1>1. /\ Size \in Nat /\ GapSize \in Nat \ {0} /\ g \in Nat /\ g \in 0 .. Len(Text)
      /\ Text \in Seq(C) /\ Len(Text) \in Nat /\ Len(Text) = Size - GapSize - 1
      /\ allocMultiplier \in Nat \ {0}
  BY ArrayIs, CharsAre DEF ArrayInv
<1>2. /\ contents' = ShiftGapTo(g) /\ gapStart' = at /\ gapEnd' = g + GapSize
      /\ allocMultiplier' = allocMultiplier
  BY DEF delete
<1> HIDE DEF g
<1>3. /\ DOMAIN contents' = 0 .. Size - 1
      /\ \A i \in 0 .. Size - 2 : contents'[i] \in C
      /\ contents'[Size - 1] = EOF
      /\ \A i \in 1 .. g : contents'[i - 1] = Text[i]
      /\ \A i \in g + 1 .. Len(Text) : contents'[i - 1 + GapSize] = Text[i]
      /\ g = gapStart => \A i \in 0 .. Size - 1 : contents'[i] = contents[i]
  <2>1. g \in 0 .. Len(Text)
    BY <1>1
  <2> HIDE DEF C
  <2>2. /\ DOMAIN ShiftGapTo(g) = 0 .. Size - 1
        /\ \A i \in 0 .. Size - 2 : ShiftGapTo(g)[i] \in C
        /\ ShiftGapTo(g)[Size - 1] = EOF
        /\ \A i \in 1 .. g : ShiftGapTo(g)[i - 1] = Text[i]
        /\ \A i \in g + 1 .. Len(Text) : ShiftGapTo(g)[i - 1 + GapSize] = Text[i]
        /\ g = gapStart => \A i \in 0 .. Size - 1 : ShiftGapTo(g)[i] = contents[i]
    BY <2>1, ShiftIs
  <2> QED BY <1>2, <2>2
<1>4. Size' = Size
  <2>1. Cardinality(0 .. Size - 1) = Size
    BY <1>1, SizeIs
  <2> QED BY <1>3, <2>1 DEF Size
<1>5. gapEnd' - gapStart' = GapSize + n /\ GapSize' = GapSize + n
  <2>1. GapSize' = gapEnd' - gapStart'
    BY DEF GapSize
  <2> QED BY <1>1, <1>2, <2>1 DEF g
<1>6. ArrayInv'
  <2>1. \E m \in Nat : DOMAIN contents' = 0 .. m - 1
    BY <1>1, <1>3
  <2>2. \A i \in 0 .. Size' - 2 : contents'[i] \in C
    BY <1>3, <1>4
  <2>3. contents'[Size' - 1] = EOF
    BY <1>3, <1>4
  <2>4. /\ gapStart' \in Nat /\ gapEnd' \in Nat /\ gapStart' < gapEnd' /\ gapEnd' < Size'
        /\ allocMultiplier' \in Nat \ {0}
    BY <1>1, <1>2, <1>4 DEF g
  <2> HIDE DEF C
  <2> QED BY <2>1, <2>2, <2>3, <2>4 DEF ArrayInv
<1>7. Text' = Cut(Text, at, n)
  <2> DEFINE u == Cut(Text, at, n)
  <2>1. IsCut(C, u, Text, at, n)
    <3>1. Text \in Seq(C) /\ at + n <= Len(Text)
      BY <1>1
    <3> HIDE DEF C
    <3> QED BY <3>1, CutIs
  <2>2. /\ Text' \in Seq(C) /\ Len(Text') = Len(Text) - n
        /\ \A i \in 1 .. Len(Text) - n : Text'[i] =
             contents'[IF i - 1 < at THEN i - 1 ELSE i - 1 + (GapSize + n)]
    <3>1. Size' \in Nat /\ Size' - (gapEnd' - gapStart') - 1 = Len(Text) - n
      BY <1>1, <1>4, <1>5
    <3> HIDE DEF C
    <3>2. /\ Text' \in Seq(C) /\ Len(Text') = Size' - (gapEnd' - gapStart') - 1
          /\ \A i \in 1 .. Size' - (gapEnd' - gapStart') - 1 : Text'[i] =
               contents'[IF i - 1 < gapStart' THEN i - 1 ELSE i - 1 + (gapEnd' - gapStart')]
      BY <1>6, <3>1, NextCharsAre
    <3> QED BY <1>2, <1>5, <3>1, <3>2
  <2> HIDE DEF u, C
  <2>3. ASSUME NEW i \in 1 .. Len(Text) - n PROVE Text'[i] = u[i]
    <3>1. CASE i <= at
      <4>1. i \in 1 .. g /\ i - 1 < at
        BY <1>1, <3>1 DEF g
      <4>2. Text'[i] = contents'[i - 1] /\ contents'[i - 1] = Text[i]
        BY <1>3, <2>2, <4>1
      <4> QED BY <2>1, <3>1, <4>2 DEF IsCut
    <3>2. CASE ~ (i <= at)
      <4>1. i + n \in g + 1 .. Len(Text) /\ ~ (i - 1 < at) /\ i - 1 + (GapSize + n) = i + n - 1 + GapSize
        BY <1>1, <3>2 DEF g
      <4>2. Text'[i] = contents'[i + n - 1 + GapSize] /\ contents'[i + n - 1 + GapSize] = Text[i + n]
        BY <1>3, <2>2, <4>1
      <4> QED BY <2>1, <3>2, <4>2 DEF IsCut
    <3> QED BY <3>1, <3>2
  <2>4. Text' = u
    BY <2>1, <2>2, <2>3, SeqEqual DEF IsCut
  <2> QED BY <2>4 DEF u
<1>8. Gap(contents', gapStart', n) = Part(Text, at, n)
  <2> DEFINE d == Part(Text, at, n)
             e == Gap(contents', at, n)
  <2>1. IsPart(C, d, Text, at, n)
    <3>1. Text \in Seq(C) /\ at + n <= Len(Text)
      BY <1>1
    <3> HIDE DEF C
    <3> QED BY <3>1, PartIs
  <2> HIDE DEF d, C
  <2>2. ASSUME NEW i \in 1 .. n PROVE contents'[at + i - 1] = d[i] /\ d[i] \in C
    <3>1. at + i \in 1 .. g
      BY DEF g
    <3>2. contents'[at + i - 1] = Text[at + i]
      BY <1>3, <3>1
    <3>3. d \in Seq(C) /\ i \in 1 .. Len(d)
      BY <2>1 DEF IsPart
    <3> QED BY <2>1, <3>2, <3>3, ElementOfSeq DEF IsPart
  <2>3. e \in Seq(C) /\ Len(e) = n /\ \A i \in 1 .. n : e[i] = d[i]
    <3>1. e = [i \in 1 .. n |-> contents'[at + i - 1]]
      BY DEF Gap
    <3> HIDE DEF e
    <3>2. e \in [1 .. n -> C]
      BY <2>2, <3>1
    <3>3. e \in Seq(C)
      BY <3>2
    <3>4. Len(e) = n
      BY <3>1
    <3>5. \A i \in 1 .. n : e[i] = contents'[at + i - 1]
      BY <3>1
    <3> QED BY <2>2, <3>3, <3>4, <3>5
  <2> HIDE DEF e
  <2>4. e = d
    BY <2>1, <2>3, SeqEqual DEF IsPart
  <2> QED BY <1>2, <2>4 DEF d, e
<1>9. n < GapSize'
  BY <1>1, <1>5
<1> QED BY <1>2, <1>3, <1>4, <1>5, <1>6, <1>7, <1>8, <1>9 DEF g

\* The cells of the gap as a text.
LEMMA GapIs ==
  ASSUME NEW c, NEW g \in Nat, NEW n \in Nat, \A i \in 1 .. n : c[g + i - 1] \in C
  PROVE  /\ Gap(c, g, n) \in Seq(C) /\ Len(Gap(c, g, n)) = n
         /\ \A i \in 1 .. n : Gap(c, g, n)[i] = c[g + i - 1]
<1> DEFINE e == [i \in 1 .. n |-> c[g + i - 1]]
<1>1. Gap(c, g, n) = e
  BY DEF Gap
<1> HIDE DEF C
<1>2. e \in [1 .. n -> C]
  OBVIOUS
<1>3. e \in Seq(C)
  BY <1>2
<1>4. Len(e) = n /\ \A i \in 1 .. n : e[i] = c[g + i - 1]
  OBVIOUS
<1> QED BY <1>1, <1>3, <1>4

\* The gap after a deletion that is merged into the last one: it ends where that one
\* began, whose characters are already there.
LEMMA DeleteMerged ==
  ASSUME ArrayInv, NEW t \in Seq(C), NEW at \in Nat, NEW n \in Nat, NEW m \in Nat,
         at + n + m <= Len(t), Text = Cut(t, at + n, m),
         gapStart = at + n, m <= GapSize, Gap(contents, gapStart, m) = Part(t, at + n, m),
         delete(at, n)
  PROVE  Gap(contents', gapStart', n + m) = Part(t, at, n + m)
<1> DEFINE d == Part(t, at, n + m)
           o == Part(t, at + n, m)
<1>1. /\ Size \in Nat /\ GapSize \in Nat \ {0} /\ Text \in Seq(C)
      /\ Len(Text) \in Nat /\ Len(Text) = Size - GapSize - 1 /\ Len(t) \in Nat
      /\ gapStart <= Len(Text)
      /\ \A i \in 0 .. Size - 2 : contents[i] \in C
  <2> HIDE DEF C
  <2>1. Len(t) \in Nat
    BY LenProperties
  <2> QED BY <2>1, ArrayIs, CharsAre DEF ArrayInv
<1> HIDE DEF C
<1>2. IsCut(C, Text, t, at + n, m) /\ IsPart(C, d, t, at, n + m) /\ IsPart(C, o, t, at + n, m)
  <2>1. at + n \in Nat /\ n + m \in Nat /\ (at + n) + m <= Len(t) /\ at + (n + m) <= Len(t)
    BY <1>1
  <2> QED BY <2>1, CutIs, PartIs
<1>3. /\ gapStart' = at
      /\ \A i \in 0 .. Size - 1 : contents'[i] = contents[i]
      /\ Gap(contents', gapStart', n) = Part(Text, at, n)
  <2>1. at + n <= Len(Text)
    BY <1>1
  <2> QED BY <2>1, DeleteIs
<1>4. ASSUME NEW i \in 1 .. m PROVE contents[at + n + i - 1] = t[at + n + i]
  <2>1. Gap(contents, gapStart, m)[i] = contents[gapStart + i - 1]
    BY DEF Gap
  <2>2. o[i] = t[at + n + i]
    BY <1>2 DEF IsPart
  <2> QED BY <2>1, <2>2
<1> HIDE DEF d, o
<1>5. ASSUME NEW i \in 1 .. n PROVE contents[at + i - 1] = t[at + i]
  <2>1. at + i \in 1 .. Len(Text) /\ at + i <= gapStart /\ at + i \in 1 .. Len(t) - m
        /\ at + i <= at + n
    BY <1>1
  <2>2. Text[at + i] = contents[at + i - 1]
    BY <2>1, CharsAre
  <2>3. Text[at + i] = t[at + i]
    BY <1>2, <2>1 DEF IsCut
  <2> QED BY <2>2, <2>3
<1>6. ASSUME NEW i \in 1 .. n + m PROVE contents'[at + i - 1] = d[i] /\ d[i] \in C
  <2>1. at + i - 1 \in 0 .. Size - 1
    BY <1>1
  <2>2. d[i] = t[at + i] /\ d[i] \in C
    <3>1. d \in Seq(C) /\ i \in 1 .. Len(d) /\ d[i] = t[at + i]
      BY <1>2 DEF IsPart
    <3> QED BY <3>1, ElementOfSeq
  <2>3. CASE i <= n
    <3>1. i \in 1 .. n
      BY <2>3
    <3>2. contents[at + i - 1] = t[at + i]
      BY <1>5, <3>1
    <3> QED BY <1>3, <2>1, <2>2, <3>2
  <2>4. CASE i > n
    <3>1. i - n \in 1 .. m /\ at + n + (i - n) - 1 = at + i - 1 /\ at + n + (i - n) = at + i
      BY <2>4
    <3>2. contents[at + i - 1] = t[at + i]
      BY <1>4, <3>1
    <3> QED BY <1>3, <2>1, <2>2, <3>2
  <2> QED BY <2>3, <2>4
<1> DEFINE e == Gap(contents', at, n + m)
<1>7. e \in Seq(C) /\ Len(e) = n + m /\ \A i \in 1 .. n + m : e[i] = contents'[at + i - 1]
  <2>1. PICK c : c = contents'
    OBVIOUS
  <2>0. \A i \in 1 .. n + m : contents'[at + i - 1] \in C
    BY <1>6
  <2>2. n + m \in Nat /\ \A i \in 1 .. n + m : c[at + i - 1] \in C
    BY <2>0, <2>1
  <2>3. /\ Gap(c, at, n + m) \in Seq(C) /\ Len(Gap(c, at, n + m)) = n + m
        /\ \A i \in 1 .. n + m : Gap(c, at, n + m)[i] = c[at + i - 1]
    BY <2>2, GapIs
  <2> QED BY <2>1, <2>3
<1> HIDE DEF e
<1>8. e = d
  BY <1>2, <1>6, <1>7, SeqEqual DEF IsPart
<1> QED BY <1>3, <1>8 DEF d, e

\* What the gap's start moving does not change.
LEMMA ShiftKeeps ==
  ASSUME ArrayInv, NEW d \in Int, shiftGapStart(d), gapStart + d \in Nat, gapStart + d < gapEnd
  PROVE  /\ ArrayInv' /\ Size' = Size /\ Size \in Nat /\ contents' = contents
         /\ gapStart' = gapStart + d /\ gapEnd' = gapEnd /\ gapEnd \in Nat
         /\ GapSize' = GapSize - d /\ GapSize \in Nat /\ gapStart \in Nat /\ GapSize = gapEnd - gapStart
         /\ Len(Text) \in Nat /\ Len(Text) = Size - GapSize - 1 /\ gapStart <= Len(Text)
<1>1. /\ Size \in Nat /\ GapSize \in Nat \ {0} /\ GapSize = gapEnd - gapStart
      /\ gapStart \in Nat /\ gapEnd \in Nat /\ gapStart < gapEnd /\ gapEnd < Size
      /\ Len(Text) \in Nat /\ Len(Text) = Size - GapSize - 1 /\ gapStart <= Len(Text)
  BY ArrayIs, CharsAre DEF ArrayInv
<1>2. /\ contents' = contents /\ gapEnd' = gapEnd /\ gapStart' = gapStart + d
      /\ allocMultiplier' = allocMultiplier
  BY DEF shiftGapStart
<1>3. Size' = Size
  BY <1>2 DEF Size
<1>4. GapSize' = gapEnd' - gapStart'
  BY DEF GapSize
<1>5. ArrayInv'
  <2> HIDE DEF C
  <2> QED BY <1>1, <1>2, <1>3 DEF ArrayInv
<1>6. GapSize' = GapSize - d
  BY <1>1, <1>2, <1>4
<1> QED BY <1>1, <1>2, <1>3, <1>5, <1>6

\* The gap's start moved back by n cuts out the n characters before it.
LEMMA ShiftBackIs ==
  ASSUME ArrayInv, NEW n \in Nat, n <= gapStart, shiftGapStart(-n)
  PROVE  /\ ArrayInv' /\ Size' = Size /\ gapStart' = gapStart - n
         /\ gapStart - n \in Nat /\ (gapStart - n) + n <= Len(Text)
         /\ Text' = Cut(Text, gapStart - n, n)
<1> DEFINE at == gapStart - n
           u == Cut(Text, at, n)
<1>1. /\ ArrayInv' /\ Size' = Size /\ Size \in Nat /\ contents' = contents
      /\ gapStart' = gapStart - n /\ gapEnd' = gapEnd /\ gapEnd \in Nat
      /\ GapSize' = GapSize + n /\ GapSize \in Nat /\ gapStart \in Nat /\ GapSize = gapEnd - gapStart
      /\ Len(Text) \in Nat /\ Len(Text) = Size - GapSize - 1 /\ gapStart <= Len(Text)
  <2>1. /\ -n \in Int /\ gapStart + -n \in Nat /\ gapStart + -n < gapEnd
        /\ gapStart \in Nat
    BY DEF ArrayInv
  <2>2. /\ ArrayInv' /\ Size' = Size /\ Size \in Nat /\ contents' = contents
        /\ gapStart' = gapStart + -n /\ gapEnd' = gapEnd /\ gapEnd \in Nat
        /\ GapSize' = GapSize - -n /\ GapSize \in Nat /\ gapStart \in Nat /\ GapSize = gapEnd - gapStart
        /\ Len(Text) \in Nat /\ Len(Text) = Size - GapSize - 1 /\ gapStart <= Len(Text)
    BY <2>1, ShiftKeeps
  <2> QED BY <2>1, <2>2
<1>2. at \in Nat /\ at + n = gapStart /\ at + n <= Len(Text)
  BY <1>1
<1>3. Text \in Seq(C) /\ \A i \in 1 .. Len(Text) :
        Text[i] = contents[IF i <= gapStart THEN i - 1 ELSE i - 1 + GapSize]
  <2> HIDE DEF C
  <2> QED BY CharsAre
<1> HIDE DEF at, u, C
<1>4. IsCut(C, u, Text, at, n)
  BY <1>2, <1>3, CutIs DEF u
<1>5. /\ Text' \in Seq(C) /\ Len(Text') = Len(Text) - n
      /\ \A i \in 1 .. Len(Text) - n : Text'[i] =
           contents[IF i <= at THEN i - 1 ELSE i - 1 + (GapSize + n)]
  <2>1. /\ Size' \in Nat /\ Size' - (gapEnd' - gapStart') - 1 = Len(Text) - n
        /\ gapEnd' - gapStart' = GapSize + n
    BY <1>1
  <2>2. /\ Text' \in Seq(C) /\ Len(Text') = Size' - (gapEnd' - gapStart') - 1
        /\ \A i \in 1 .. Size' - (gapEnd' - gapStart') - 1 : Text'[i] =
             contents'[IF i - 1 < gapStart' THEN i - 1 ELSE i - 1 + (gapEnd' - gapStart')]
    BY <1>1, <2>1, NextCharsAre
  <2>3. \A i \in 1 .. Len(Text) - n : Text'[i] =
          contents[IF i - 1 < gapStart' THEN i - 1 ELSE i - 1 + (GapSize + n)]
    BY <1>1, <2>1, <2>2
  <2>4. \A i \in 1 .. Len(Text) - n : i - 1 < gapStart' <=> i <= at
    BY <1>1, <1>2
  <2> QED BY <2>1, <2>2, <2>3, <2>4
<1>6. ASSUME NEW i \in 1 .. Len(Text) - n PROVE Text'[i] = u[i]
  <2>1. CASE i <= at
    <3>1. i \in 1 .. Len(Text) /\ i <= gapStart
      BY <1>1, <1>2, <2>1
    <3> QED BY <1>3, <1>4, <1>5, <2>1, <3>1 DEF IsCut
  <2>2. CASE ~ (i <= at)
    <3>0. GapSize \in Nat /\ gapStart \in Nat /\ Len(Text) \in Nat
      BY <1>1
    <3>1. i + n \in 1 .. Len(Text) /\ ~ (i + n <= gapStart) /\ i - 1 + (GapSize + n) = i + n - 1 + GapSize
      BY <1>2, <2>2, <3>0
    <3>2. Text[i + n] = contents[i + n - 1 + GapSize]
      BY <1>3, <3>1
    <3>3. Text'[i] = contents[i - 1 + (GapSize + n)]
      BY <1>5, <2>2
    <3> QED BY <1>4, <2>2, <3>1, <3>2, <3>3 DEF IsCut
  <2> QED BY <2>1, <2>2
<1>7. Text' = u
  BY <1>4, <1>5, <1>6, SeqEqual DEF IsCut
<1> QED BY <1>1, <1>2, <1>7 DEF u, at

\* The gap's start moved on by n puts the first n cells of the gap into the text.
LEMMA ShiftForwardIs ==
  ASSUME ArrayInv, NEW n \in Nat, n < GapSize, shiftGapStart(n)
  PROVE  /\ ArrayInv' /\ Size' = Size /\ gapStart' = gapStart + n
         /\ Text' = Paste(Text, gapStart, Gap(contents, gapStart, n))
<1> DEFINE s == Gap(contents, gapStart, n)
           u == Paste(Text, gapStart, s)
<1>1. /\ ArrayInv' /\ Size' = Size /\ Size \in Nat /\ contents' = contents
      /\ gapStart' = gapStart + n /\ gapEnd' = gapEnd /\ gapEnd \in Nat
      /\ GapSize' = GapSize - n /\ GapSize \in Nat /\ gapStart \in Nat /\ GapSize = gapEnd - gapStart
      /\ Len(Text) \in Nat /\ Len(Text) = Size - GapSize - 1 /\ gapStart <= Len(Text)
  <2>1. gapStart \in Nat /\ gapEnd \in Nat /\ GapSize = gapEnd - gapStart
    BY DEF ArrayInv, GapSize
  <2>2. /\ n \in Int /\ gapStart + n \in Nat /\ gapStart + n < gapEnd
    BY <2>1
  <2> QED BY <2>2, ShiftKeeps
<1>3. Text \in Seq(C) /\ \A i \in 1 .. Len(Text) :
        Text[i] = contents[IF i <= gapStart THEN i - 1 ELSE i - 1 + GapSize]
  <2> HIDE DEF C
  <2> QED BY CharsAre
<1>4. s \in Seq(C) /\ Len(s) = n /\ \A i \in 1 .. n : s[i] = contents[gapStart + i - 1]
  <2> HIDE DEF C, s
  <2>1. \A i \in 0 .. Size - 2 : contents[i] \in C
    BY DEF ArrayInv
  <2>2. \A i \in 1 .. n : gapStart + i - 1 \in 0 .. Size - 2
    BY <1>1
  <2>3. \A i \in 1 .. n : contents[gapStart + i - 1] \in C
    BY <2>1, <2>2
  <2> QED BY ZenonT(60), <1>1, <2>3, GapIs DEF s
<1> HIDE DEF s, u, C
<1>5. IsPaste(C, u, Text, gapStart, s)
  BY <1>1, <1>3, <1>4, PasteIs DEF u
<1>6. /\ Text' \in Seq(C) /\ Len(Text') = Len(Text) + n
      /\ \A i \in 1 .. Len(Text) + n : Text'[i] =
           contents[IF i <= gapStart + n THEN i - 1 ELSE i - 1 + (GapSize - n)]
  <2>1. /\ Size' \in Nat /\ Size' - (gapEnd' - gapStart') - 1 = Len(Text) + n
        /\ gapEnd' - gapStart' = GapSize - n
    BY <1>1
  <2>2. /\ Text' \in Seq(C) /\ Len(Text') = Size' - (gapEnd' - gapStart') - 1
        /\ \A i \in 1 .. Size' - (gapEnd' - gapStart') - 1 : Text'[i] =
             contents'[IF i - 1 < gapStart' THEN i - 1 ELSE i - 1 + (gapEnd' - gapStart')]
    BY <1>1, <2>1, NextCharsAre
  <2>3. \A i \in 1 .. Len(Text) + n : Text'[i] =
          contents[IF i - 1 < gapStart' THEN i - 1 ELSE i - 1 + (GapSize - n)]
    BY <1>1, <2>1, <2>2
  <2>4. \A i \in 1 .. Len(Text) + n : i - 1 < gapStart' <=> i <= gapStart + n
    BY <1>1
  <2> QED BY <2>1, <2>2, <2>3, <2>4
<1>7. ASSUME NEW i \in 1 .. Len(Text) + n PROVE Text'[i] = u[i]
  <2>1. CASE i <= gapStart
    <3>1. i \in 1 .. Len(Text) /\ i <= gapStart + n
      BY <1>1, <2>1
    <3> QED BY <1>3, <1>4, <1>5, <1>6, <2>1, <3>1 DEF IsPaste
  <2>2. CASE ~ (i <= gapStart) /\ i <= gapStart + n
    <3>1. i - gapStart \in 1 .. n /\ gapStart + (i - gapStart) - 1 = i - 1
      BY <1>1, <2>2
    <3>2. s[i - gapStart] = contents[i - 1]
      BY <1>4, <3>1
    <3>3. Text'[i] = contents[i - 1]
      BY <1>6, <2>2
    <3> QED BY <1>4, <1>5, <2>2, <3>2, <3>3 DEF IsPaste
  <2>3. CASE ~ (i <= gapStart + n)
    <3>0. GapSize \in Nat /\ gapStart \in Nat /\ Len(Text) \in Nat
      BY <1>1
    <3>1. /\ i - n \in 1 .. Len(Text) /\ ~ (i - n <= gapStart) /\ ~ (i <= gapStart)
          /\ i - 1 + (GapSize - n) = i - n - 1 + GapSize
      BY <2>3, <3>0
    <3>2. Text[i - n] = contents[i - n - 1 + GapSize]
      BY <1>3, <3>1
    <3>3. Text'[i] = contents[i - 1 + (GapSize - n)]
      BY <1>6, <2>3
    <3> QED BY <1>4, <1>5, <2>3, <3>1, <3>2, <3>3 DEF IsPaste
  <2> QED BY <2>1, <2>2, <2>3
<1>8. Text' = u
  BY <1>4, <1>5, <1>6, <1>7, SeqEqual DEF IsPaste
<1> QED BY <1>1, <1>8 DEF u, s

-----------------------------------------------------------------------------
(* What the stack remembers.                                                *)

\* A command makes the text from into the text to; the longer of them has the
\* characters it inserts or deletes, the shorter one has not.
Longer(c, from, to) == IF c.kind = "insert" THEN to ELSE from
Shorter(c, from, to) == IF c.kind = "insert" THEN from ELSE to

\* A command's place and length fit its two texts.
Fits(c, from, to) ==
  /\ Len(Longer(c, from, to)) = Len(Shorter(c, from, to)) + c.length
  /\ c.start <= Len(Shorter(c, from, to))

\* A command describes what it did: its characters are those the longer text has more,
\* in its copy or, for a deletion that has none yet, in the gap.
Describes(c, from, to, gap) ==
  /\ Shorter(c, from, to) = Cut(Longer(c, from, to), c.start, c.length)
  /\ c.data # Null => c.data = Part(Longer(c, from, to), c.start, c.length)
  /\ c.data = Null /\ c.kind = "delete" => gap = Part(Longer(c, from, to), c.start, c.length)

\* A command that has no copy is the last one and finds its characters at the gap.
Reachable(c, i, last, end, g, room) ==
  c.data = Null =>
    /\ i = last /\ i = end
    /\ c.kind = "insert" => g = c.start + c.length
    /\ c.kind = "delete" => g = c.start /\ c.length < room

StackInv ==
  /\ stack \in Seq(Command) /\ top \in 0 .. Len(stack)
  /\ batch \in BOOLEAN /\ groupId \in Nat /\ walk \in {"none", "undo", "redo"}
  /\ versions \in Seq(Seq(Char)) /\ Len(versions) = Len(stack) + 1
  /\ spoilt \in BOOLEAN

FitsInv == \A i \in 1 .. Len(stack) : Fits(stack[i], versions[i], versions[i + 1])

RoomInv == \A j \in 1 .. Len(versions) : Len(versions[j]) + 2 <= Size

ReachableInv ==
  \A i \in 1 .. Len(stack) : Reachable(stack[i], i, top, Len(stack), gapStart, GapSize)

DescribesInv ==
  ~ spoilt => \A i \in 1 .. Len(stack) :
    Describes(stack[i], versions[i], versions[i + 1], Gap(contents, gapStart, stack[i].length))

RecordInv == StackInv /\ FitsInv /\ RoomInv /\ ReachableInv /\ DescribesInv

\* What the stack holds, part by part.
LEMMA CommandIs ==
  ASSUME NEW c \in Command
  PROVE  /\ c.kind \in {"insert", "delete"} /\ c.start \in Nat /\ c.length \in Nat \ {0}
         /\ c.data \in Seq(C) \cup {Null} /\ c.group \in Nat
BY DEF Command, C

\* A copy is a text; no text is Null.
LEMMA CopyIsNotNull == \A s \in Seq(C) : s # Null
BY EditAssumption DEF C

\* The texts of the versions are texts of the characters in the array.
LEMMA VersionIs ==
  ASSUME StackInv, NEW j \in 1 .. Len(versions)
  PROVE  versions[j] \in Seq(Char) /\ versions[j] \in Seq(C) /\ Len(versions[j]) \in Nat
<1>1. versions[j] \in Seq(Char)
  <2>1. versions \in Seq(Seq(Char))
    BY DEF StackInv
  <2> QED BY <2>1, ElementOfSeq
<1>2. versions[j] \in Seq(C)
  BY <1>1 DEF C
<1>3. Len(versions[j]) \in Nat
  BY <1>1, LenProperties
<1> QED BY <1>1, <1>2, <1>3

\* What the copy of a command is: the part of the text it inserted.
LEMMA InsertedIs ==
  ASSUME ArrayInv, NEW from \in Nat, NEW n \in Nat \ {0}, from + n <= Len(Text)
  PROVE  SubSequence(from, n) = Part(Text, from, n) /\ SubSequence(from, n) \in Seq(C)
<1> DEFINE s == TextAt(from, n)
           d == Part(Text, from, n)
<1>1. /\ Size \in Nat /\ GapSize \in Nat \ {0} /\ Len(Text) \in Nat /\ Len(Text) = Size - GapSize - 1
      /\ gapStart \in Nat
  BY ArrayIs, CharsAre DEF ArrayInv
<1>2. Text \in Seq(C) /\ \A i \in 1 .. Len(Text) :
        Text[i] = contents[IF i <= gapStart THEN i - 1 ELSE i - 1 + GapSize]
  <2> HIDE DEF C
  <2> QED BY CharsAre
<1> HIDE DEF C
<1>3. SubSequence(from, n) = s
  <2>1. from \in 0 .. (TextLength - 1) /\ n > 0 /\ ~ (from + n > TextLength)
    BY <1>1 DEF TextLength
  <2> QED BY <2>1 DEF SubSequence
<1>4. IsPart(C, d, Text, from, n)
  BY <1>2, PartIs
<1> HIDE DEF d
<1>5. s = [i \in 1 .. n |-> contents[LogicalToReal(from + i - 1)]]
  BY DEF TextAt
<1> HIDE DEF s
<1>6. ASSUME NEW i \in 1 .. n PROVE contents[LogicalToReal(from + i - 1)] = d[i] /\ d[i] \in C
  <2>1. from + i \in 1 .. Len(Text)
    BY <1>1
  <2>2. Text[from + i] = contents[IF from + i <= gapStart THEN from + i - 1 ELSE from + i - 1 + GapSize]
    BY <1>2, <2>1
  <2>3. LogicalToReal(from + i - 1) =
          IF from + i <= gapStart THEN from + i - 1 ELSE from + i - 1 + GapSize
    BY <1>1 DEF LogicalToReal
  <2>4. d[i] = Text[from + i] /\ d \in Seq(C) /\ i \in 1 .. Len(d)
    BY <1>4 DEF IsPart
  <2>5. d[i] \in C
    BY <2>4, ElementOfSeq
  <2> QED BY <2>2, <2>3, <2>4, <2>5
<1>7. s \in [1 .. n -> C]
  BY <1>5, <1>6
<1>8. s \in Seq(C) /\ Len(s) = n /\ \A i \in 1 .. n : s[i] = d[i]
  <2>1. s \in Seq(C)
    BY <1>7
  <2>2. Len(s) = n
    BY <1>5
  <2> QED BY <1>5, <1>6, <2>1, <2>2
<1>9. s = d
  BY <1>4, <1>8, SeqEqual DEF IsPart
<1> QED BY <1>3, <1>8, <1>9 DEF d

\* A command with its copy, otherwise the same.
Copied(r, c) ==
  /\ r \in Command
  /\ r.kind = c.kind /\ r.start = c.start /\ r.length = c.length /\ r.group = c.group
  /\ r.data \in Seq(C) /\ r.data # Null

\* The copy of the last command is a text of the array's characters; it is what the
\* command inserted or deleted unless it replaces another copy.
LEMMA RecordedIs ==
  ASSUME ArrayInv, RecordInv, top > 0, Text = versions[top + 1], NEW c, c = stack[top]
  PROVE  /\ Copied(Recorded(c), c)
         /\ ~ spoilt /\ (c.data # Null => Recorded(c).data = c.data) =>
              Recorded(c).data = Part(Longer(c, versions[top], versions[top + 1]), c.start, c.length)
<1> DEFINE r == Recorded(c)
           s == IF c.kind = "insert" THEN SubSequence(c.start, c.length) ELSE GapSubSequence(c.length)
<1>1. /\ stack \in Seq(Command) /\ top \in 1 .. Len(stack) /\ Len(stack) \in Nat
      /\ Len(versions) = Len(stack) + 1
  BY LenProperties DEF RecordInv, StackInv
<1>2. c \in Command
  BY <1>1, ElementOfSeq
<1>3. /\ c.kind \in {"insert", "delete"} /\ c.start \in Nat /\ c.length \in Nat \ {0}
      /\ c.data \in Seq(C) \cup {Null} /\ c.group \in Nat
  <2> HIDE DEF C
  <2> QED BY <1>2, CommandIs
<1>4. /\ Len(versions[top]) \in Nat /\ Len(versions[top + 1]) \in Nat
      /\ Fits(c, versions[top], versions[top + 1])
      /\ Len(versions[top]) + 2 <= Size
  <2>1. top \in 1 .. Len(versions) /\ top + 1 \in 1 .. Len(versions)
    BY <1>1
  <2>2. StackInv /\ FitsInv /\ RoomInv
    BY DEF RecordInv
  <2> QED BY <1>1, <2>1, <2>2, VersionIs DEF FitsInv, RoomInv
<1>5. /\ Size \in Nat /\ gapStart \in Nat /\ gapStart <= Len(Text)
      /\ \A i \in 0 .. Size - 2 : contents[i] \in C
  <2> HIDE DEF C
  <2> QED BY ArrayIs, CharsAre DEF ArrayInv
<1> HIDE DEF C
<1>6. s \in Seq(C)
  <2>1. CASE c.kind = "insert"
    <3>1. c.start + c.length <= Len(Text)
      BY <1>3, <1>4, <2>1 DEF Fits, Longer, Shorter
    <3> QED BY <1>3, <2>1, <3>1, InsertedIs
  <2>2. CASE c.kind = "delete"
    <3>1. Len(versions[top]) = Len(Text) + c.length
      BY <1>3, <1>4, <2>2 DEF Fits, Longer, Shorter
    <3>2. Len(Text) \in Nat
      BY <1>4
    <3>3. \A i \in 1 .. c.length : gapStart + i - 1 \in 0 .. Size - 2
      BY <1>3, <1>4, <1>5, <3>1, <3>2
    <3>4. Gap(contents, gapStart, c.length) \in Seq(C)
      BY <1>3, <1>5, <3>3, GapIs
    <3>5. s = Gap(contents, gapStart, c.length)
      BY <2>2 DEF GapSubSequence, Gap
    <3> QED BY <3>4, <3>5
  <2> QED BY <1>3, <2>1, <2>2
<1>7. r = [c EXCEPT !.data = s]
  BY DEF Recorded
<1> HIDE DEF s
<1>8. Copied(r, c) /\ r.data = s
  <2>1. s # Null /\ s \in Seq(C) \cup {Null}
    BY <1>6, CopyIsNotNull
  <2>2. /\ r.kind = c.kind /\ r.start = c.start /\ r.length = c.length /\ r.group = c.group
        /\ r.data = s
    BY <1>2, <1>7 DEF Command
  <2>3. r \in Command
    BY <1>2, <1>7, <2>1 DEF Command, C
  <2> QED BY <1>6, <2>1, <2>2, <2>3 DEF Copied
<1>9. ASSUME ~ spoilt, c.data # Null => r.data = c.data
      PROVE  r.data = Part(Longer(c, versions[top], versions[top + 1]), c.start, c.length)
  <2>1. Describes(c, versions[top], versions[top + 1], Gap(contents, gapStart, c.length))
    BY <1>1, <1>9 DEF RecordInv, DescribesInv
  <2>2. CASE c.data # Null
    BY <1>9, <2>1, <2>2 DEF Describes
  <2>3. CASE c.data = Null /\ c.kind = "delete"
    <3>1. s = Gap(contents, gapStart, c.length)
      BY <2>3 DEF s, GapSubSequence, Gap
    <3> QED BY <1>8, <2>1, <2>3, <3>1 DEF Describes
  <2>4. CASE c.kind = "insert"
    <3>1. c.start + c.length <= Len(Text)
      BY <1>3, <1>4, <2>4 DEF Fits, Longer, Shorter
    <3>2. s = Part(Text, c.start, c.length)
      BY <1>3, <2>4, <3>1, InsertedIs DEF s
    <3> QED BY <1>8, <2>4, <3>2 DEF Longer
  <2> QED BY <1>3, <2>2, <2>3, <2>4
<1> QED BY <1>8, <1>9 DEF r

\* A sequence with its tail from k on replaced by e.
LEMMA ReplacedTail ==
  ASSUME NEW S, NEW q \in Seq(S), NEW e \in S, NEW k \in 0 .. Len(q)
  PROVE  /\ Append(SubSeq(q, 1, k), e) \in Seq(S)
         /\ Len(Append(SubSeq(q, 1, k), e)) = k + 1
         /\ \A i \in 1 .. k : Append(SubSeq(q, 1, k), e)[i] = q[i]
         /\ Append(SubSeq(q, 1, k), e)[k + 1] = e
<1> DEFINE h == SubSeq(q, 1, k)
<1>0. Len(q) \in Nat /\ \A i \in 1 .. Len(q) : q[i] \in S
  BY LenProperties, ElementOfSeq
<1>1. h \in Seq(S) /\ Len(h) = k /\ \A i \in 1 .. k : h[i] = q[i]
  <2>1. k \in Nat /\ \A i \in 1 .. k : q[i] \in S
    BY <1>0
  <2>2. /\ SubSeq(q, 1, k) \in Seq(S)
        /\ Len(SubSeq(q, 1, k)) = IF 1 <= k THEN k - 1 + 1 ELSE 0
        /\ \A i \in 1 .. k - 1 + 1 : SubSeq(q, 1, k)[i] = q[1 + i - 1]
    BY <2>1, SubSeqProperties
  <2> QED BY <2>1, <2>2
<1> HIDE DEF h
<1>2. /\ Append(h, e) \in Seq(S) /\ Len(Append(h, e)) = Len(h) + 1
      /\ \A i \in 1 .. Len(h) : Append(h, e)[i] = h[i]
      /\ Append(h, e)[Len(h) + 1] = e
  BY <1>1, AppendProperties
<1>3. k \in Nat
  BY <1>0
<1> QED BY <1>1, <1>2, <1>3 DEF h

\* A command with its copy still fits and describes its texts, wherever the gap is.
LEMMA CopiedIs ==
  ASSUME NEW c, NEW r, Copied(r, c), NEW from, NEW to
  PROVE  /\ Fits(c, from, to) => Fits(r, from, to)
         /\ Longer(r, from, to) = Longer(c, from, to) /\ Shorter(r, from, to) = Shorter(c, from, to)
         /\ \A old, gap : Describes(c, from, to, old) /\ r.data = Part(Longer(c, from, to), c.start, c.length)
              => Describes(r, from, to, gap)
         /\ \A i, last, end, g, room : Reachable(r, i, last, end, g, room)
BY DEF Copied, Fits, Longer, Shorter, Describes, Reachable

\* An edit that is pushed as a command of its own keeps the record right.
LEMMA PushStep ==
  ASSUME ArrayInv, RecordInv, Text = versions[top + 1],
         NEW c \in Command, NEW t \in Seq(Char),
         stack' = Append([i \in 1 .. top |-> IF i = top THEN Recorded(stack[i]) ELSE stack[i]], c),
         top' = top + 1,
         versions' = Append(SubSeq(versions, 1, top + 1), t),
         spoilt' = (spoilt \/ (canUndo /\ stack[top].data # Null
                               /\ Recorded(stack[top]).data # stack[top].data)),
         batch' = batch, walk' = walk, groupId' \in Nat,
         Size' \in Nat, Size <= Size', Len(t) + 2 <= Size',
         Fits(c, Text, t),
         Reachable(c, top + 1, top + 1, top + 1, gapStart', GapSize'),
         ~ spoilt => Describes(c, Text, t, Gap(contents', gapStart', c.length))
  PROVE  RecordInv' /\ Len(stack') = top' /\ Len(stack') = Len(versions') - 1
<1> DEFINE q == [i \in 1 .. top |-> IF i = top THEN Recorded(stack[i]) ELSE stack[i]]
<1>1. /\ stack \in Seq(Command) /\ top \in 0 .. Len(stack) /\ Len(stack) \in Nat /\ top \in Nat
      /\ versions \in Seq(Seq(Char)) /\ Len(versions) = Len(stack) + 1
      /\ batch \in BOOLEAN /\ walk \in {"none", "undo", "redo"} /\ spoilt \in BOOLEAN
  BY LenProperties DEF RecordInv, StackInv
<1>2. \A i \in 1 .. Len(stack) : stack[i] \in Command
  BY <1>1, ElementOfSeq
<1>3. ASSUME top > 0
      PROVE  /\ Copied(Recorded(stack[top]), stack[top])
             /\ ~ spoilt' => Recorded(stack[top]).data =
                  Part(Longer(stack[top], versions[top], versions[top + 1]), stack[top].start, stack[top].length)
  <2>1. /\ Copied(Recorded(stack[top]), stack[top])
        /\ ~ spoilt /\ (stack[top].data # Null => Recorded(stack[top]).data = stack[top].data) =>
             Recorded(stack[top]).data =
               Part(Longer(stack[top], versions[top], versions[top + 1]), stack[top].start, stack[top].length)
    BY <1>3, RecordedIs
  <2> QED BY <1>3, <2>1 DEF canUndo
<1>4. q \in Seq(Command) /\ Len(q) = top
  <2>1. \A i \in 1 .. top : (IF i = top THEN Recorded(stack[i]) ELSE stack[i]) \in Command
    <3>1. ASSUME NEW i \in 1 .. top PROVE stack[i] \in Command
      <4>1. i \in 1 .. Len(stack)
        BY <1>1
      <4> QED BY <1>1, <4>1, ElementOfSeq
    <3>2. ASSUME NEW i \in 1 .. top, i = top PROVE Recorded(stack[i]) \in Command
      <4>1. top > 0
        BY <1>1, <3>2
      <4> QED BY <1>3, <3>2, <4>1 DEF Copied
    <3> QED BY <3>1, <3>2
  <2>2. q \in [1 .. top -> Command]
    BY <2>1
  <2> QED BY SMTT(60), <1>1, <2>2
<1>5. \A i \in 1 .. top : q[i] = IF i = top THEN Recorded(stack[i]) ELSE stack[i]
  OBVIOUS
<1>6. stack' = Append(q, c)
  OBVIOUS
<1> HIDE DEF q
<1>7. /\ stack' \in Seq(Command) /\ Len(stack') = top + 1
      /\ \A i \in 1 .. top : stack'[i] = q[i]
      /\ stack'[top + 1] = c
  <2>1. /\ Append(q, c) \in Seq(Command) /\ Len(Append(q, c)) = Len(q) + 1
        /\ \A i \in 1 .. Len(q) : Append(q, c)[i] = q[i]
        /\ Append(q, c)[Len(q) + 1] = c
    BY <1>4, AppendProperties
  <2> QED BY <1>4, <1>6, <2>1
<1>8. /\ versions' \in Seq(Seq(Char)) /\ Len(versions') = (top + 1) + 1
      /\ \A i \in 1 .. top + 1 : versions'[i] = versions[i]
      /\ versions'[(top + 1) + 1] = t
  <2>1. top + 1 \in 0 .. Len(versions)
    BY <1>1
  <2> QED BY SMTT(60), <1>1, <2>1, ReplacedTail
<1>9. StackInv'
  BY <1>1, <1>7, <1>8 DEF StackInv
<1>10. ASSUME NEW i \in 1 .. top
       PROVE  /\ Fits(q[i], versions[i], versions[i + 1])
              /\ Reachable(q[i], i, top', Len(stack'), gapStart', GapSize')
              /\ ~ spoilt' => Describes(q[i], versions[i], versions[i + 1],
                                        Gap(contents', gapStart', q[i].length))
  <2>1. /\ Fits(stack[i], versions[i], versions[i + 1])
        /\ Reachable(stack[i], i, top, Len(stack), gapStart, GapSize)
        /\ ~ spoilt => Describes(stack[i], versions[i], versions[i + 1], Gap(contents, gapStart, stack[i].length))
    <3>1. i \in 1 .. Len(stack)
      BY <1>1
    <3> QED BY <3>1 DEF RecordInv, FitsInv, ReachableInv, DescribesInv
  <2>2. CASE i = top
    <3>0. top > 0
      BY <1>1, <2>2
    <3>1. q[i] = Recorded(stack[top])
      BY <1>5, <2>2, Zenon
    <3>2. Copied(q[i], stack[i])
      BY <1>3, <2>2, <3>0, <3>1
    <3>3. ~ spoilt' => q[i].data = Part(Longer(stack[i], versions[i], versions[i + 1]), stack[i].start, stack[i].length)
      BY <1>3, <2>2, <3>0, <3>1
    <3>4. Fits(q[i], versions[i], versions[i + 1])
      BY <2>1, <3>2, CopiedIs
    <3>5. Reachable(q[i], i, top', Len(stack'), gapStart', GapSize')
      BY <3>2 DEF Copied, Reachable
    <3>6. ASSUME ~ spoilt'
          PROVE  Describes(q[i], versions[i], versions[i + 1], Gap(contents', gapStart', q[i].length))
      <4>1. Describes(stack[i], versions[i], versions[i + 1], Gap(contents, gapStart, stack[i].length))
        BY <2>1, <3>6
      <4> QED BY <3>2, <3>3, <3>6, <4>1, CopiedIs
    <3> QED BY <3>4, <3>5, <3>6
  <2>3. CASE i # top
    <3>1. q[i] = stack[i]
      BY <1>5, <2>3
    <3>2. stack[i].data # Null
      BY <2>1, <2>3 DEF Reachable
    <3> QED BY <2>1, <3>1, <3>2 DEF Describes, Reachable
  <2> QED BY <2>2, <2>3
<1>11. FitsInv'
  <2>1. ASSUME NEW i \in 1 .. Len(stack') PROVE Fits(stack'[i], versions'[i], versions'[i + 1])
    <3>1. CASE i \in 1 .. top
      <4>1. i \in 1 .. top + 1 /\ i + 1 \in 1 .. top + 1
        BY <1>1, <3>1
      <4> QED BY <1>7, <1>8, <1>10, <3>1, <4>1
    <3>2. CASE i = top + 1
      <4>1. i \in 1 .. top + 1
        BY <1>1, <3>2
      <4> QED BY <1>7, <1>8, <3>2, <4>1
    <3> QED BY SMTT(60), <1>1, <1>7, <3>1, <3>2
  <2> QED BY <2>1 DEF FitsInv
<1>12. RoomInv'
  <2>1. ASSUME NEW j \in 1 .. Len(versions') PROVE Len(versions'[j]) + 2 <= Size'
    <3>1. CASE j \in 1 .. top + 1
      <4>1. j \in 1 .. Len(versions) /\ versions'[j] = versions[j]
        BY <1>1, <1>8, <3>1
      <4>2. Len(versions[j]) + 2 <= Size /\ Len(versions[j]) \in Nat /\ Size \in Nat
        BY <4>1, VersionIs, ArrayIs DEF RecordInv, RoomInv
      <4> QED BY SMTT(60), <4>1, <4>2
    <3>2. CASE j = (top + 1) + 1
      BY <1>8, <3>2
    <3> QED BY <1>1, <1>8, <3>1, <3>2
  <2> QED BY <2>1 DEF RoomInv
<1>13. ReachableInv'
  <2>1. ASSUME NEW i \in 1 .. Len(stack')
        PROVE  Reachable(stack'[i], i, top', Len(stack'), gapStart', GapSize')
    <3>1. CASE i \in 1 .. top
      BY <1>7, <1>10, <3>1
    <3>2. CASE i = top + 1
      BY <1>7, <3>2
    <3> QED BY <1>1, <1>7, <3>1, <3>2
  <2> QED BY <2>1 DEF ReachableInv
<1>14. DescribesInv'
  <2>1. ASSUME ~ spoilt', NEW i \in 1 .. Len(stack')
        PROVE  Describes(stack'[i], versions'[i], versions'[i + 1],
                         Gap(contents', gapStart', stack'[i].length))
    <3>1. CASE i \in 1 .. top
      <4>1. i \in 1 .. top + 1 /\ i + 1 \in 1 .. top + 1
        BY <1>1, <3>1
      <4>2. stack'[i] = q[i] /\ versions'[i] = versions[i] /\ versions'[i + 1] = versions[i + 1]
        BY <1>7, <1>8, <3>1, <4>1
      <4> QED BY <1>10, <2>1, <3>1, <4>2
    <3>2. CASE i = top + 1
      <4>1. i \in 1 .. top + 1
        BY <1>1, <3>2
      <4>2. stack'[i] = c /\ versions'[i] = Text /\ versions'[i + 1] = t
        BY <1>7, <1>8, <3>2, <4>1
      <4> QED BY <2>1, <4>2
    <3> QED BY <1>1, <1>7, <3>1, <3>2
  <2> QED BY <2>1 DEF DescribesInv
<1> QED BY <1>1, <1>7, <1>8, <1>9, <1>11, <1>12, <1>13, <1>14 DEF RecordInv

\* An edit that is merged into the last command keeps the record right.
LEMMA MergeStep ==
  ASSUME ArrayInv, RecordInv, top > 0,
         NEW c \in Command, NEW t \in Seq(Char),
         stack' = Append(SubSeq(stack, 1, top - 1), c),
         top' = top,
         versions' = Append(SubSeq(versions, 1, top), t),
         spoilt' \in BOOLEAN,
         batch' = batch, walk' = walk, groupId' = groupId,
         Size' \in Nat, Size <= Size', Len(t) + 2 <= Size',
         Fits(c, versions[top], t),
         Reachable(c, top, top, top, gapStart', GapSize'),
         ~ spoilt' => ~ spoilt /\ Describes(c, versions[top], t, Gap(contents', gapStart', c.length))
  PROVE  RecordInv' /\ Len(stack') = top' /\ Len(stack') = Len(versions') - 1
<1>1. /\ stack \in Seq(Command) /\ top \in 0 .. Len(stack) /\ Len(stack) \in Nat /\ top \in Nat
      /\ versions \in Seq(Seq(Char)) /\ Len(versions) = Len(stack) + 1
      /\ batch \in BOOLEAN /\ walk \in {"none", "undo", "redo"} /\ groupId \in Nat
  BY LenProperties DEF RecordInv, StackInv
<1>2. /\ stack' \in Seq(Command) /\ Len(stack') = top
      /\ \A i \in 1 .. top - 1 : stack'[i] = stack[i]
      /\ stack'[top] = c
  <2> DEFINE q == Append(SubSeq(stack, 1, top - 1), c)
  <2>1. PICK k \in 0 .. Len(stack) : k = top - 1
    BY <1>1
  <2>2. /\ Append(SubSeq(stack, 1, k), c) \in Seq(Command)
        /\ Len(Append(SubSeq(stack, 1, k), c)) = k + 1
        /\ \A i \in 1 .. k : Append(SubSeq(stack, 1, k), c)[i] = stack[i]
        /\ Append(SubSeq(stack, 1, k), c)[k + 1] = c
    <3>1. stack \in Seq(Command) /\ k \in 0 .. Len(stack) /\ c \in Command
      BY <1>1
    <3> HIDE DEF q
    <3> QED BY <3>1, ReplacedTail
  <2>3. Append(SubSeq(stack, 1, k), c) = q /\ q = stack'
    BY <2>1
  <2>4. k + 1 = top
    BY <1>1, <2>1
  <2> HIDE DEF q
  <2> QED BY <2>1, <2>2, <2>3, <2>4
<1>3. /\ versions' \in Seq(Seq(Char)) /\ Len(versions') = top + 1
      /\ \A i \in 1 .. top : versions'[i] = versions[i]
      /\ versions'[top + 1] = t
  <2> DEFINE q == Append(SubSeq(versions, 1, top), t)
  <2>1. top \in 0 .. Len(versions) /\ versions \in Seq(Seq(Char))
    BY <1>1
  <2>2. q \in Seq(Seq(Char)) /\ Len(q) = top + 1 /\ (\A i \in 1 .. top : q[i] = versions[i]) /\ q[top + 1] = t
    BY <2>1, ReplacedTail
  <2>3. versions' = q
    OBVIOUS
  <2> HIDE DEF q
  <2> QED BY <2>2, <2>3
<1>4. StackInv'
  <2>1. top' \in 0 .. Len(stack')
    BY <1>1, <1>2
  <2>2. Len(versions') = Len(stack') + 1
    BY <1>2, <1>3
  <2> QED BY <1>1, <1>2, <1>3, <2>1, <2>2 DEF StackInv
<1>5. ASSUME NEW i \in 1 .. top - 1
      PROVE  /\ Fits(stack[i], versions[i], versions[i + 1])
             /\ stack[i].data # Null
             /\ Reachable(stack[i], i, top', Len(stack'), gapStart', GapSize')
             /\ ~ spoilt' => Describes(stack[i], versions[i], versions[i + 1],
                                       Gap(contents', gapStart', stack[i].length))
  <2>1. i \in 1 .. Len(stack) /\ i # top
    BY <1>1
  <2>2. /\ Fits(stack[i], versions[i], versions[i + 1])
        /\ Reachable(stack[i], i, top, Len(stack), gapStart, GapSize)
        /\ ~ spoilt => Describes(stack[i], versions[i], versions[i + 1], Gap(contents, gapStart, stack[i].length))
    BY <2>1 DEF RecordInv, FitsInv, ReachableInv, DescribesInv
  <2>3. stack[i].data # Null
    BY <2>1, <2>2 DEF Reachable
  <2>4. Reachable(stack[i], i, top', Len(stack'), gapStart', GapSize')
    BY <2>3 DEF Reachable
  <2>5. ASSUME ~ spoilt'
        PROVE  Describes(stack[i], versions[i], versions[i + 1], Gap(contents', gapStart', stack[i].length))
    <3>1. ~ spoilt
      BY <2>5
    <3>2. Describes(stack[i], versions[i], versions[i + 1], Gap(contents, gapStart, stack[i].length))
      BY <2>2, <3>1
    <3> QED BY <2>3, <3>2 DEF Describes
  <2> QED BY <2>2, <2>3, <2>4, <2>5
<1>6. FitsInv'
  <2>1. ASSUME NEW i \in 1 .. Len(stack') PROVE Fits(stack'[i], versions'[i], versions'[i + 1])
    <3>1. CASE i \in 1 .. top - 1
      <4>1. i \in 1 .. top /\ i + 1 \in 1 .. top
        BY <1>1, <3>1
      <4> QED BY <1>2, <1>3, <1>5, <3>1, <4>1
    <3>2. CASE i = top
      <4>1. i \in 1 .. top
        BY <1>1, <3>2
      <4> QED BY <1>2, <1>3, <3>2, <4>1
    <3> QED BY <1>1, <1>2, <3>1, <3>2
  <2> QED BY <2>1 DEF FitsInv
<1>7. RoomInv'
  <2>1. ASSUME NEW j \in 1 .. Len(versions') PROVE Len(versions'[j]) + 2 <= Size'
    <3>1. CASE j \in 1 .. top
      <4>1. j \in 1 .. Len(versions) /\ versions'[j] = versions[j]
        BY <1>1, <1>3, <3>1
      <4>2. Len(versions[j]) + 2 <= Size /\ Len(versions[j]) \in Nat /\ Size \in Nat
        BY <4>1, VersionIs, ArrayIs DEF RecordInv, RoomInv
      <4>3. Len(versions[j]) + 2 <= Size'
        BY <4>2
      <4> QED BY <4>1, <4>3
    <3>2. CASE j = top + 1
      BY <1>3, <3>2
    <3> QED BY SMTT(60), <1>1, <1>3, <3>1, <3>2
  <2> QED BY <2>1 DEF RoomInv
<1>8. ReachableInv'
  <2>1. ASSUME NEW i \in 1 .. Len(stack')
        PROVE  Reachable(stack'[i], i, top', Len(stack'), gapStart', GapSize')
    <3>1. CASE i \in 1 .. top - 1
      BY <1>2, <1>5, <3>1
    <3>2. CASE i = top
      BY <1>2, <3>2
    <3> QED BY SMTT(60), <1>1, <1>2, <3>1, <3>2
  <2> QED BY <2>1 DEF ReachableInv
<1>9. DescribesInv'
  <2>1. ASSUME ~ spoilt', NEW i \in 1 .. Len(stack')
        PROVE  Describes(stack'[i], versions'[i], versions'[i + 1],
                         Gap(contents', gapStart', stack'[i].length))
    <3>1. CASE i \in 1 .. top - 1
      <4>1. i \in 1 .. top /\ i + 1 \in 1 .. top
        BY <1>1, <3>1
      <4>2. stack'[i] = stack[i] /\ versions'[i] = versions[i] /\ versions'[i + 1] = versions[i + 1]
        BY <1>2, <1>3, <3>1, <4>1
      <4> QED BY <1>5, <2>1, <3>1, <4>2
    <3>2. CASE i = top
      <4>1. i \in 1 .. top
        BY <1>1, <3>2
      <4>2. stack'[i] = c /\ versions'[i] = versions[top] /\ versions'[i + 1] = t
        BY <1>2, <1>3, <3>2, <4>1
      <4> QED BY <2>1, <4>2
    <3> QED BY SMTT(60), <1>1, <1>2, <3>1, <3>2
  <2> QED BY <2>1 DEF DescribesInv
<1> QED BY <1>1, <1>2, <1>3, <1>4, <1>6, <1>7, <1>8, <1>9 DEF RecordInv

\* A command with an edit of n characters merged into it.
LEMMA MergedIs ==
  ASSUME NEW c \in Command, NEW at \in Nat, NEW n \in Nat \ {0}
  PROVE  /\ Merged(c, at, n) \in Command
         /\ Merged(c, at, n).kind = c.kind /\ Merged(c, at, n).data = c.data
         /\ Merged(c, at, n).group = c.group
         /\ Merged(c, at, n).start = IF c.kind = "delete" THEN at ELSE c.start
         /\ Merged(c, at, n).length = c.length + n
<1>1. c.length + n \in Nat \ {0}
  BY CommandIs
<1>2. /\ Merged(c, at, n).kind = c.kind /\ Merged(c, at, n).data = c.data
      /\ Merged(c, at, n).group = c.group
      /\ Merged(c, at, n).start = IF c.kind = "delete" THEN at ELSE c.start
      /\ Merged(c, at, n).length = c.length + n
  BY DEF Merged, Command
<1>3. Merged(c, at, n) \in Command
  <2>1. PICK st \in Nat, l \in Nat \ {0} :
          st = (IF c.kind = "delete" THEN at ELSE c.start) /\ l = c.length + n
    BY <1>1, CommandIs
  <2>2. Merged(c, at, n) = [c EXCEPT !.start = st, !.length = l]
    BY <2>1 DEF Merged
  <2> QED BY <2>2 DEF Command
<1> QED BY <1>2, <1>3

\* What holds of the last command and the texts around it.
LEMMA LastIs ==
  ASSUME ArrayInv, RecordInv, top > 0, Text = versions[top + 1], NEW c, c = stack[top]
  PROVE  /\ c \in Command /\ versions[top] \in Seq(C) /\ versions[top] \in Seq(Char)
         /\ c.kind \in {"insert", "delete"} /\ c.start \in Nat /\ c.length \in Nat \ {0}
         /\ Len(versions[top]) \in Nat /\ Len(Text) \in Nat
         /\ c.kind = "insert" => Len(Text) = Len(versions[top]) + c.length
                                 /\ c.start <= Len(versions[top])
         /\ c.kind = "delete" => Len(versions[top]) = Len(Text) + c.length /\ c.start <= Len(Text)
         /\ c.data = Null /\ c.kind = "insert" => gapStart = c.start + c.length
         /\ c.data = Null /\ c.kind = "delete" => gapStart = c.start /\ c.length < GapSize
         /\ ~ spoilt => Describes(c, versions[top], Text, Gap(contents, gapStart, c.length))
<1>1. /\ stack \in Seq(Command) /\ top \in 1 .. Len(stack) /\ Len(stack) \in Nat
      /\ Len(versions) = Len(stack) + 1
  BY LenProperties DEF RecordInv, StackInv
<1>2. c \in Command
  BY <1>1, ElementOfSeq
<1>3. c.kind \in {"insert", "delete"} /\ c.start \in Nat /\ c.length \in Nat \ {0}
  <2> HIDE DEF C
  <2> QED BY <1>2, CommandIs
<1>4. /\ versions[top] \in Seq(C) /\ versions[top] \in Seq(Char)
      /\ Len(versions[top]) \in Nat /\ Len(versions[top + 1]) \in Nat
  <2>1. top \in 1 .. Len(versions) /\ top + 1 \in 1 .. Len(versions)
    BY <1>1
  <2>2. StackInv
    BY DEF RecordInv
  <2> HIDE DEF C
  <2> QED BY <2>1, <2>2, VersionIs
<1>5. /\ Fits(c, versions[top], Text)
      /\ Reachable(c, top, top, Len(stack), gapStart, GapSize)
      /\ ~ spoilt => Describes(c, versions[top], Text, Gap(contents, gapStart, c.length))
  BY <1>1 DEF RecordInv, FitsInv, ReachableInv, DescribesInv
<1>6. /\ c.kind = "insert" => Len(Text) = Len(versions[top]) + c.length
                              /\ c.start <= Len(versions[top])
      /\ c.kind = "delete" => Len(versions[top]) = Len(Text) + c.length /\ c.start <= Len(Text)
  BY <1>5 DEF Fits, Longer, Shorter
<1>7. /\ c.data = Null /\ c.kind = "insert" => gapStart = c.start + c.length
      /\ c.data = Null /\ c.kind = "delete" => gapStart = c.start /\ c.length < GapSize
  BY <1>5 DEF Reachable
<1> HIDE DEF C
<1> QED BY <1>2, <1>3, <1>4, <1>5, <1>6, <1>7

\* The text between two calls, when it is the version it should be.
LEMMA FollowedIs ==
  ASSUME RecordInv, Followed
  PROVE  /\ Text = versions[top + 1] /\ Text \in Seq(Char) /\ Text \in Seq(C) /\ Len(Text) \in Nat
         /\ top \in Nat /\ top \in 0 .. Len(stack) /\ groupId \in Nat /\ batch \in BOOLEAN
         /\ spoilt \in BOOLEAN
<1>1. /\ stack \in Seq(Command) /\ top \in 0 .. Len(stack) /\ Len(stack) \in Nat
      /\ Len(versions) = Len(stack) + 1 /\ groupId \in Nat /\ batch \in BOOLEAN /\ spoilt \in BOOLEAN
  BY LenProperties DEF RecordInv, StackInv
<1>2. Text = versions[top + 1]
  BY DEF Followed
<1>3. top + 1 \in 1 .. Len(versions) /\ StackInv
  BY <1>1 DEF RecordInv
<1> HIDE DEF C
<1> QED BY <1>1, <1>2, <1>3, VersionIs

\* There is always room in the array for the text, the gap and EOF.
LEMMA RoomIs ==
  ASSUME ArrayInv', Size' \in Nat
  PROVE  Len(Text') + 2 <= Size'
<1>1. Len(Text') = Size' - (gapEnd' - gapStart') - 1
  <2> HIDE DEF C
  <2> QED BY NextCharsAre
<1>2. gapStart' \in Nat /\ gapEnd' \in Nat /\ gapStart' < gapEnd'
  BY DEF ArrayInv
<1>3. \A g, e, size \in Nat : g < e => (size - (e - g) - 1) + 2 <= size
  OBVIOUS
<1> QED BY <1>1, <1>2, <1>3

\* An insertion keeps the array and the record right.
LEMMA InsertStep ==
  ASSUME ArrayInv, RecordInv, NEW s \in Inserts, NEW at \in 0 .. MaxText, NEW soon \in BOOLEAN,
         Insert(s, at, soon)
  PROVE  ArrayInv' /\ RecordInv' /\ Text' = versions'[top' + 1] /\ Len(stack') = top'
<1> DEFINE n == Len(s)
           t == Paste(Text, at, s)
<1>1. /\ Followed /\ at \in 0 .. Len(Text) /\ capture("insert", at, n, soon) /\ insert(s, at)
      /\ versions' = Append(SubSeq(versions, 1, IF Merges("insert", at, n, soon) THEN top ELSE top + 1),
                            Splice(versions[top + 1], at, 0, s))
      /\ spoilt' = (spoilt \/ Spoils("insert", at, n, soon))
      /\ batch' = batch /\ walk' = walk
  BY DEF Insert, Remember
<1>2. s \in Seq(Char) /\ s \in Seq(C) /\ n \in Nat \ {0} /\ at \in Nat
  <2>1. s \in Seq(Char) /\ s # <<>>
    BY EditAssumption
  <2>2. n \in Nat \ {0}
    BY <2>1, LenProperties, EmptySeq
  <2>3. s \in Seq(C)
    BY <2>1 DEF C
  <2>4. at \in Nat
    BY EditAssumption
  <2> QED BY <2>1, <2>2, <2>3, <2>4
<1> HIDE DEF C
<1>3. /\ Text = versions[top + 1] /\ Text \in Seq(Char) /\ Text \in Seq(C) /\ Len(Text) \in Nat
      /\ top \in Nat /\ top \in 0 .. Len(stack) /\ groupId \in Nat /\ batch \in BOOLEAN
      /\ spoilt \in BOOLEAN
  BY <1>1, FollowedIs
<1>4. /\ ArrayInv' /\ Text' = t /\ gapStart' = at + n /\ Size' \in Nat /\ Size <= Size'
  <2> HIDE DEF n
  <2>1. ArrayInv' /\ Text' = Paste(Text, at, s) /\ gapStart' = at + Len(s) /\ Size' \in Nat /\ Size <= Size'
    BY <1>1, <1>2, InsertIs
  <2> QED BY <2>1 DEF n
<1>5. IsPaste(Char, t, Text, at, s)
  <2>1. at <= Len(Text) /\ Text \in Seq(Char) /\ s \in Seq(Char)
    BY <1>1, <1>2, <1>3
  <2> QED BY <1>2, <2>1, PasteIs
<1>6. Splice(versions[top + 1], at, 0, s) = t
  BY <1>3 DEF Paste
<1>7. Cut(t, at, n) = Text
  <2>1. at <= Len(Text) /\ Text \in Seq(Char) /\ s \in Seq(Char)
    BY <1>1, <1>2, <1>3
  <2> QED BY <1>2, <2>1, PasteAndCut
<1> HIDE DEF n, t
<1>8. t \in Seq(Char) /\ Len(t) = Len(Text) + n
  BY <1>5 DEF IsPaste, n
<1>9. Len(t) + 2 <= Size'
  BY <1>4, RoomIs
<1>10. CASE ~ Merges("insert", at, n, soon)
  <2> DEFINE c == [kind |-> "insert", start |-> at, length |-> n, data |-> Null, group |-> groupId]
  <2>1. /\ stack' = Append([i \in 1 .. top |-> IF i = top THEN Recorded(stack[i]) ELSE stack[i]], c)
        /\ top' = top + 1 /\ groupId' = IF batch THEN groupId ELSE groupId + 1
    BY <1>1, <1>10 DEF capture
  <2>2. c \in Command /\ c.kind = "insert" /\ c.start = at /\ c.length = n /\ c.data = Null
    BY <1>2, <1>3 DEF Command
  <2> HIDE DEF c
  <2>3. Fits(c, Text, t)
    BY <1>1, <1>2, <1>8, <2>2 DEF Fits, Longer, Shorter
  <2>4. Reachable(c, top + 1, top + 1, top + 1, gapStart', GapSize')
    BY <1>4, <2>2 DEF Reachable
  <2>5. Describes(c, Text, t, Gap(contents', gapStart', c.length))
    BY <1>7, <2>2 DEF Describes, Longer, Shorter
  <2>6. spoilt' = (spoilt \/ (canUndo /\ stack[top].data # Null
                              /\ Recorded(stack[top]).data # stack[top].data))
    BY <1>1, <1>10 DEF Spoils
  <2>7. versions' = Append(SubSeq(versions, 1, top + 1), t)
    BY <1>1, <1>6, <1>10
  <2>8. groupId' \in Nat
    BY <1>3, <2>1
  <2>9. RecordInv' /\ Len(stack') = top'
    BY <1>1, <1>3, <1>4, <1>8, <1>9, <2>1, <2>2, <2>3, <2>4, <2>5, <2>6, <2>7, <2>8, PushStep
  <2>10. versions'[top' + 1] = t
    <3>1. versions \in Seq(Seq(Char)) /\ top + 1 \in 0 .. Len(versions)
      BY <1>3 DEF RecordInv, StackInv
    <3>2. Append(SubSeq(versions, 1, top + 1), t)[(top + 1) + 1] = t
      BY <1>8, <3>1, ReplacedTail
    <3> QED BY <2>1, <2>7, <3>2
  <2> QED BY <1>4, <2>9, <2>10
<1>11. CASE Merges("insert", at, n, soon)
  <2> DEFINE o == stack[top]
             c == Merged(o, at, n)
  <2>1. /\ top > 0 /\ o.kind = "insert" /\ at = o.start + o.length
        /\ stack' = Append(SubSeq(stack, 1, top - 1), c) /\ top' = top /\ groupId' = groupId
    BY <1>1, <1>11 DEF capture, Merges, canUndo
  <2>2. /\ o \in Command /\ versions[top] \in Seq(C) /\ versions[top] \in Seq(Char)
        /\ o.kind \in {"insert", "delete"} /\ o.start \in Nat /\ o.length \in Nat \ {0}
        /\ Len(versions[top]) \in Nat /\ Len(Text) \in Nat
        /\ Len(Text) = Len(versions[top]) + o.length
        /\ o.start <= Len(versions[top])
        /\ ~ spoilt => Describes(o, versions[top], Text, Gap(contents, gapStart, o.length))
    BY <1>3, <2>1, LastIs
  <2>3. /\ c \in Command /\ c.kind = "insert" /\ c.data = o.data
        /\ c.start = o.start /\ c.length = o.length + n
    <3>1. o \in Command /\ at \in Nat /\ n \in Nat \ {0} /\ o.kind = "insert"
      BY <1>2, <2>1, <2>2
    <3> HIDE DEF o
    <3>2. /\ Merged(o, at, n) \in Command
          /\ Merged(o, at, n).kind = o.kind /\ Merged(o, at, n).data = o.data
          /\ Merged(o, at, n).start = IF o.kind = "delete" THEN at ELSE o.start
          /\ Merged(o, at, n).length = o.length + n
      BY <3>1, MergedIs
    <3> QED BY <3>1, <3>2
  <2> HIDE DEF c, o
  <2>4. Fits(c, versions[top], t)
    BY SMTT(60), <1>2, <1>8, <2>2, <2>3 DEF Fits, Longer, Shorter
  <2>5. Reachable(c, top, top, top, gapStart', GapSize')
    BY <1>2, <1>4, <2>1, <2>2, <2>3 DEF Reachable
  <2>6. spoilt' \in BOOLEAN
    BY <1>1
  <2>7. ASSUME ~ spoilt' PROVE ~ spoilt /\ Describes(c, versions[top], t, Gap(contents', gapStart', c.length))
    <3>1. ~ spoilt /\ o.data = Null
      BY <1>1, <1>11, <2>7 DEF Spoils, o
    <3>2. versions[top] = Cut(Text, o.start, o.length)
      BY <2>1, <2>2, <3>1 DEF Describes, Longer, Shorter
    <3>3. Cut(Paste(Text, o.start + o.length, s), o.start, o.length + Len(s)) = Cut(Text, o.start, o.length)
      <4>1. o.start + o.length <= Len(Text) /\ o.length \in Nat
        BY <2>2
      <4> QED BY <1>2, <1>3, <2>2, <4>1, CutMerged
    <3>4. Cut(t, c.start, c.length) = versions[top]
      BY <2>1, <2>3, <3>2, <3>3 DEF t, n
    <3> QED BY <2>3, <3>1, <3>4 DEF Describes, Longer, Shorter
  <2>8. versions' = Append(SubSeq(versions, 1, top), t)
    BY <1>1, <1>6, <1>11
  <2>9. RecordInv' /\ Len(stack') = top'
    BY <1>1, <1>4, <1>8, <1>9, <2>1, <2>3, <2>4, <2>5, <2>6, <2>7, <2>8, MergeStep
  <2>10. versions'[top' + 1] = t
    <3>1. versions \in Seq(Seq(Char)) /\ top \in 0 .. Len(versions)
      BY <1>3 DEF RecordInv, StackInv
    <3>2. Append(SubSeq(versions, 1, top), t)[top + 1] = t
      BY <1>8, <3>1, ReplacedTail
    <3> QED BY <2>1, <2>8, <3>2
  <2> QED BY <1>4, <2>9, <2>10
<1> QED BY <1>10, <1>11

\* A deletion keeps the array and the record right.
LEMMA DeleteStep ==
  ASSUME ArrayInv, RecordInv, NEW n \in 1 .. MaxDelete, NEW at \in 0 .. MaxText,
         NEW soon \in BOOLEAN, Delete(at, n, soon)
  PROVE  ArrayInv' /\ RecordInv' /\ Text' = versions'[top' + 1] /\ Len(stack') = top'
<1> DEFINE t == Cut(Text, at, n)
<1>1. /\ Followed /\ at + n <= Len(Text) /\ capture("delete", at, n, soon) /\ delete(at, n)
      /\ versions' = Append(SubSeq(versions, 1, IF Merges("delete", at, n, soon) THEN top ELSE top + 1),
                            Splice(versions[top + 1], at, n, <<>>))
      /\ spoilt' = (spoilt \/ Spoils("delete", at, n, soon))
      /\ batch' = batch /\ walk' = walk
  BY DEF Delete, Remember
<1>2. n \in Nat \ {0} /\ n \in Nat /\ at \in Nat
  BY EditAssumption
<1> HIDE DEF C
<1>3. /\ Text = versions[top + 1] /\ Text \in Seq(Char) /\ Text \in Seq(C) /\ Len(Text) \in Nat
      /\ top \in Nat /\ top \in 0 .. Len(stack) /\ groupId \in Nat /\ batch \in BOOLEAN
      /\ spoilt \in BOOLEAN
  BY <1>1, FollowedIs
<1>4. /\ ArrayInv' /\ Text' = t /\ gapStart' = at /\ Size' = Size
      /\ n < GapSize' /\ GapSize' = GapSize + n
      /\ Gap(contents', gapStart', n) = Part(Text, at, n)
  BY <1>1, <1>2, DeleteIs
<1>12. Size \in Nat /\ Size' \in Nat /\ Size <= Size' /\ GapSize \in Nat
  BY <1>4, ArrayIs
<1>5. IsCut(Char, t, Text, at, n)
  BY <1>1, <1>2, <1>3, CutIs
<1>6. Splice(versions[top + 1], at, n, <<>>) = t
  BY <1>3 DEF Cut
<1> HIDE DEF t
<1>8. t \in Seq(Char) /\ Len(t) = Len(Text) - n /\ Len(Text) = Len(t) + n /\ at <= Len(t) /\ Len(t) \in Nat
  <2>1. t \in Seq(Char) /\ Len(t) = Len(Text) - n
    BY <1>5 DEF IsCut
  <2> QED BY <1>1, <1>2, <1>3, <2>1
<1>9. Len(t) + 2 <= Size'
  BY <1>4, <1>12, RoomIs
<1>10. CASE ~ Merges("delete", at, n, soon)
  <2> DEFINE c == [kind |-> "delete", start |-> at, length |-> n, data |-> Null, group |-> groupId]
  <2>1. /\ stack' = Append([i \in 1 .. top |-> IF i = top THEN Recorded(stack[i]) ELSE stack[i]], c)
        /\ top' = top + 1 /\ groupId' = IF batch THEN groupId ELSE groupId + 1
    BY <1>1, <1>10 DEF capture
  <2>2. c \in Command /\ c.kind = "delete" /\ c.start = at /\ c.length = n /\ c.data = Null
    BY <1>2, <1>3 DEF Command
  <2> HIDE DEF c
  <2>3. Fits(c, Text, t)
    BY <1>8, <2>2 DEF Fits, Longer, Shorter
  <2>4. Reachable(c, top + 1, top + 1, top + 1, gapStart', GapSize')
    BY <1>4, <2>2 DEF Reachable
  <2>5. Describes(c, Text, t, Gap(contents', gapStart', c.length))
    BY <1>4, <2>2 DEF Describes, Longer, Shorter, t
  <2>6. spoilt' = (spoilt \/ (canUndo /\ stack[top].data # Null
                              /\ Recorded(stack[top]).data # stack[top].data))
    BY <1>1, <1>10 DEF Spoils
  <2>7. versions' = Append(SubSeq(versions, 1, top + 1), t)
    BY <1>1, <1>6, <1>10
  <2>8. groupId' \in Nat
    BY <1>3, <2>1
  <2>9. RecordInv' /\ Len(stack') = top'
    BY <1>1, <1>3, <1>12, <1>8, <1>9, <2>1, <2>2, <2>3, <2>4, <2>5, <2>6, <2>7, <2>8, PushStep
  <2>10. versions'[top' + 1] = t
    <3>1. versions \in Seq(Seq(Char)) /\ top + 1 \in 0 .. Len(versions)
      BY <1>3 DEF RecordInv, StackInv
    <3>2. Append(SubSeq(versions, 1, top + 1), t)[(top + 1) + 1] = t
      BY <1>8, <3>1, ReplacedTail
    <3> QED BY <2>1, <2>7, <3>2
  <2> QED BY <1>4, <2>9, <2>10
<1>11. CASE Merges("delete", at, n, soon)
  <2> DEFINE o == stack[top]
             c == Merged(o, at, n)
  <2>1. /\ top > 0 /\ o.kind = "delete"
        /\ stack' = Append(SubSeq(stack, 1, top - 1), c) /\ top' = top /\ groupId' = groupId
    BY <1>1, <1>11 DEF capture, Merges, canUndo
  <2>2. /\ o \in Command /\ versions[top] \in Seq(C) /\ versions[top] \in Seq(Char)
        /\ o.kind \in {"insert", "delete"} /\ o.start \in Nat /\ o.length \in Nat \ {0}
        /\ Len(versions[top]) \in Nat
        /\ Len(versions[top]) = Len(Text) + o.length
        /\ o.data = Null => gapStart = o.start /\ o.length < GapSize
        /\ ~ spoilt => Describes(o, versions[top], Text, Gap(contents, gapStart, o.length))
    BY <1>3, <2>1, LastIs
  <2>3. /\ c \in Command /\ c.kind = "delete" /\ c.data = o.data
        /\ c.start = at /\ c.length = o.length + n
    <3>1. o \in Command /\ at \in Nat /\ n \in Nat \ {0} /\ o.kind = "delete"
      BY <1>2, <2>1, <2>2
    <3> HIDE DEF o
    <3>2. /\ Merged(o, at, n) \in Command
          /\ Merged(o, at, n).kind = o.kind /\ Merged(o, at, n).data = o.data
          /\ Merged(o, at, n).start = IF o.kind = "delete" THEN at ELSE o.start
          /\ Merged(o, at, n).length = o.length + n
      BY <3>1, MergedIs
    <3> QED BY <3>1, <3>2
  <2> HIDE DEF c, o
  <2>4. Fits(c, versions[top], t)
    <3>1. Longer(c, versions[top], t) = versions[top] /\ Shorter(c, versions[top], t) = t
      BY <2>3 DEF Longer, Shorter
    <3>2. o.length \in Nat /\ Len(versions[top]) = (Len(t) + n) + o.length
      BY <1>8, <2>2
    <3>3. Len(versions[top]) = Len(t) + (o.length + n)
      BY <1>2, <1>8, <3>2
    <3> QED BY <1>8, <2>3, <3>1, <3>3 DEF Fits
  <2>5. Reachable(c, top, top, top, gapStart', GapSize')
    BY <1>2, <1>4, <1>12, <2>1, <2>2, <2>3 DEF Reachable
  <2>6. spoilt' \in BOOLEAN
    BY <1>1
  <2>7. ASSUME ~ spoilt' PROVE ~ spoilt /\ Describes(c, versions[top], t, Gap(contents', gapStart', c.length))
    <3> DEFINE v == versions[top]
               m == o.length
    <3>1. ~ spoilt /\ o.data = Null /\ at + n = o.start
      BY <1>1, <1>11, <2>7 DEF Spoils, o
    <3>2. /\ Text = Cut(v, at + n, m) /\ Gap(contents, gapStart, m) = Part(v, at + n, m)
          /\ gapStart = at + n /\ m <= GapSize /\ m \in Nat /\ v \in Seq(C) /\ at + n + m <= Len(v)
      <4>1. Text = Cut(v, at + n, m) /\ Gap(contents, gapStart, m) = Part(v, at + n, m)
        BY <2>1, <2>2, <3>1 DEF Describes, Longer, Shorter
      <4>2. gapStart = at + n /\ m <= GapSize /\ m \in Nat /\ v \in Seq(C) /\ at + n + m <= Len(v)
        BY SMTT(60), <1>1, <1>2, <1>3, <1>12, <2>2, <3>1
      <4> QED BY <4>1, <4>2
    <3> HIDE DEF v, m
    <3>3. Cut(Cut(v, at + n, m), at, n) = Cut(v, at, m + n)
      BY <1>2, <3>2, CutTwice
    <3>4. Gap(contents', gapStart', n + m) = Part(v, at, n + m)
      BY <1>1, <1>2, <3>2, DeleteMerged
    <3>5. n + m = m + n /\ c.length = m + n
      BY <1>2, <2>3, <3>2 DEF m
    <3>6. t = Cut(v, c.start, c.length)
      BY <2>3, <3>2, <3>3, <3>5 DEF t
    <3> QED BY <2>3, <3>1, <3>4, <3>5, <3>6 DEF Describes, Longer, Shorter, v
  <2>8. versions' = Append(SubSeq(versions, 1, top), t)
    BY <1>1, <1>6, <1>11
  <2>9. RecordInv' /\ Len(stack') = top'
    BY <1>1, <1>12, <1>8, <1>9, <2>1, <2>3, <2>4, <2>5, <2>6, <2>7, <2>8, MergeStep
  <2>10. versions'[top' + 1] = t
    <3>1. versions \in Seq(Seq(Char)) /\ top \in 0 .. Len(versions)
      BY <1>3 DEF RecordInv, StackInv
    <3>2. Append(SubSeq(versions, 1, top), t)[top + 1] = t
      BY <1>8, <3>1, ReplacedTail
    <3> QED BY <2>1, <2>8, <3>2
  <2> QED BY <1>4, <2>9, <2>10
<1> QED BY <1>10, <1>11

\* A command that has its copy: the one there was, or the copy was just taken.
Settled(r, c, from, to, right) ==
  /\ r.data # Null
  /\ \/ r = c
     \/ /\ Copied(r, c)
        /\ right => r.data = Part(Longer(c, from, to), c.start, c.length)

\* When every command has its copy, the record is right wherever the gap is.
LEMMA SettledStep ==
  ASSUME ArrayInv, RecordInv, StackInv', Len(stack') = Len(stack),
         versions' = versions, spoilt' = spoilt, Size' \in Nat, Size <= Size',
         \A i \in 1 .. Len(stack) :
           Settled(stack'[i], stack[i], versions[i], versions[i + 1], ~ spoilt)
  PROVE  RecordInv'
<1>1. ASSUME NEW i \in 1 .. Len(stack)
      PROVE  /\ Fits(stack'[i], versions[i], versions[i + 1])
             /\ Reachable(stack'[i], i, top', Len(stack'), gapStart', GapSize')
             /\ ~ spoilt => Describes(stack'[i], versions[i], versions[i + 1],
                                      Gap(contents', gapStart', stack'[i].length))
  <2>1. /\ Fits(stack[i], versions[i], versions[i + 1])
        /\ ~ spoilt => Describes(stack[i], versions[i], versions[i + 1], Gap(contents, gapStart, stack[i].length))
    BY DEF RecordInv, FitsInv, DescribesInv
  <2>2. stack'[i].data # Null /\ Settled(stack'[i], stack[i], versions[i], versions[i + 1], ~ spoilt)
    BY DEF Settled
  <2>3. Reachable(stack'[i], i, top', Len(stack'), gapStart', GapSize')
    BY <2>2 DEF Reachable
  <2>4. CASE stack'[i] = stack[i]
    <3>1. ASSUME ~ spoilt
          PROVE  Describes(stack'[i], versions[i], versions[i + 1], Gap(contents', gapStart', stack'[i].length))
      <4>1. Describes(stack[i], versions[i], versions[i + 1], Gap(contents, gapStart, stack[i].length))
        BY <2>1, <3>1
      <4> QED BY <2>2, <2>4, <4>1 DEF Describes
    <3> QED BY <2>1, <2>3, <2>4, <3>1
  <2>5. CASE stack'[i] # stack[i]
    <3>1. /\ Copied(stack'[i], stack[i])
          /\ ~ spoilt => stack'[i].data =
               Part(Longer(stack[i], versions[i], versions[i + 1]), stack[i].start, stack[i].length)
      BY <2>2, <2>5 DEF Settled
    <3>2. Fits(stack'[i], versions[i], versions[i + 1])
      BY <2>1, <3>1, CopiedIs
    <3>3. ASSUME ~ spoilt
          PROVE  Describes(stack'[i], versions[i], versions[i + 1], Gap(contents', gapStart', stack'[i].length))
      <4>1. Describes(stack[i], versions[i], versions[i + 1], Gap(contents, gapStart, stack[i].length))
        BY <2>1, <3>3
      <4> QED BY <3>1, <3>3, <4>1, CopiedIs
    <3> QED BY <2>3, <3>2, <3>3
  <2> QED BY <2>4, <2>5
<1>2. FitsInv'
  BY <1>1 DEF FitsInv
<1>3. RoomInv'
  <2>1. ASSUME NEW j \in 1 .. Len(versions) PROVE Len(versions[j]) + 2 <= Size'
    <3>1. Len(versions[j]) + 2 <= Size /\ Len(versions[j]) \in Nat /\ Size \in Nat
      BY VersionIs, ArrayIs DEF RecordInv, RoomInv
    <3> QED BY <3>1
  <2> QED BY <2>1 DEF RoomInv
<1>4. ReachableInv'
  BY <1>1 DEF ReachableInv
<1>5. DescribesInv'
  BY <1>1 DEF DescribesInv
<1> QED BY <1>2, <1>3, <1>4, <1>5 DEF RecordInv

\* Undoing the last command takes its characters out of the text or puts them back,
\* by the gap or by the copy.
LEMMA UndoEffect ==
  ASSUME ArrayInv, RecordInv, Text = versions[top + 1], top > 0, NEW c, c = stack[top],
         UndoCommand(c)
  PROVE  /\ ArrayInv' /\ Size' \in Nat /\ Size <= Size'
         /\ ~ spoilt => Text' = versions[top]
<1> DEFINE v == versions[top]
<1>1. /\ c \in Command /\ v \in Seq(C) /\ v \in Seq(Char)
      /\ c.kind \in {"insert", "delete"} /\ c.start \in Nat /\ c.length \in Nat \ {0}
      /\ Len(v) \in Nat /\ Len(Text) \in Nat
      /\ c.kind = "insert" => Len(Text) = Len(v) + c.length /\ c.start <= Len(v)
      /\ c.kind = "delete" => Len(v) = Len(Text) + c.length /\ c.start <= Len(Text)
      /\ c.data = Null /\ c.kind = "insert" => gapStart = c.start + c.length
      /\ c.data = Null /\ c.kind = "delete" => gapStart = c.start /\ c.length < GapSize
      /\ ~ spoilt => Describes(c, v, Text, Gap(contents, gapStart, c.length))
  <2> HIDE DEF C
  <2> QED BY LastIs
<1>2. Size \in Nat /\ GapSize \in Nat /\ gapStart \in Nat
  BY ArrayIs DEF ArrayInv
<1>3. c.data \in Seq(C) \cup {Null}
  <2> HIDE DEF C
  <2> QED BY <1>1, CommandIs
<1> HIDE DEF C, v
<1>4. CASE c.data = Null /\ c.kind = "insert"
  <2>1. c.length \in Nat /\ c.length <= gapStart /\ gapStart - c.length = c.start /\ shiftGapStart(-c.length)
    BY <1>1, <1>4 DEF UndoCommand
  <2>2. ArrayInv' /\ Size' = Size /\ Text' = Cut(Text, gapStart - c.length, c.length)
    BY <2>1, ShiftBackIs
  <2>3. ~ spoilt => Cut(Text, c.start, c.length) = v
    BY <1>1, <1>4 DEF Describes, Longer, Shorter
  <2> QED BY <1>2, <2>1, <2>2, <2>3 DEF v
<1>5. CASE c.data = Null /\ c.kind = "delete"
  <2>1. c.length \in Nat /\ c.length < GapSize /\ gapStart = c.start /\ shiftGapStart(c.length)
    BY <1>1, <1>5 DEF UndoCommand
  <2>2. ArrayInv' /\ Size' = Size /\ Text' = Paste(Text, gapStart, Gap(contents, gapStart, c.length))
    BY <2>1, ShiftForwardIs
  <2>3. ASSUME ~ spoilt PROVE Paste(Text, gapStart, Gap(contents, gapStart, c.length)) = v
    <3>1. Text = Cut(v, c.start, c.length) /\ Gap(contents, gapStart, c.length) = Part(v, c.start, c.length)
      BY <1>1, <1>5, <2>3 DEF Describes, Longer, Shorter
    <3>2. c.start + c.length <= Len(v)
      BY <1>1, <1>5
    <3>3. Paste(Cut(v, c.start, c.length), c.start, Part(v, c.start, c.length)) = v
      BY <1>1, <2>1, <3>2, CutAndPaste
    <3> QED BY <2>1, <3>1, <3>3
  <2> QED BY <1>2, <2>2, <2>3 DEF v
<1>6. CASE c.data # Null /\ c.kind = "insert"
  <2>1. c.length \in Nat /\ c.start \in Nat /\ c.start + c.length <= Len(Text) /\ delete(c.start, c.length)
    BY <1>1, <1>6 DEF UndoCommand
  <2>2. ArrayInv' /\ Size' = Size /\ Text' = Cut(Text, c.start, c.length)
    BY <2>1, DeleteIs
  <2>3. ~ spoilt => Cut(Text, c.start, c.length) = v
    BY <1>1, <1>6 DEF Describes, Longer, Shorter
  <2> QED BY <1>2, <2>2, <2>3 DEF v
<1>7. CASE c.data # Null /\ c.kind = "delete"
  <2>1. c.data \in Seq(C) /\ c.start \in 0 .. Len(Text) /\ insert(c.data, c.start)
    BY <1>1, <1>3, <1>7 DEF UndoCommand
  <2>2. ArrayInv' /\ Size' \in Nat /\ Size <= Size' /\ Text' = Paste(Text, c.start, c.data)
    BY <2>1, InsertIs
  <2>3. ASSUME ~ spoilt PROVE Paste(Text, c.start, c.data) = v
    <3>1. Text = Cut(v, c.start, c.length) /\ c.data = Part(v, c.start, c.length)
      BY <1>1, <1>7, <2>3 DEF Describes, Longer, Shorter
    <3>2. c.start + c.length <= Len(v) /\ c.start \in Nat /\ c.length \in Nat
      BY <1>1, <1>7
    <3>3. Paste(Cut(v, c.start, c.length), c.start, Part(v, c.start, c.length)) = v
      BY <1>1, <3>2, CutAndPaste
    <3> QED BY <3>1, <3>3
  <2> QED BY <2>2, <2>3 DEF v
<1> QED BY <1>1, <1>4, <1>5, <1>6, <1>7

\* Undoing a command keeps the array and the record right.
LEMMA UndoStep ==
  ASSUME ArrayInv, RecordInv, Undo
  PROVE  /\ ArrayInv' /\ RecordInv' /\ (~ spoilt' => Text' = versions'[top' + 1])
         /\ Len(stack') = Len(stack) /\ \A i \in 1 .. Len(stack) : stack'[i].group = stack[i].group
<1> DEFINE c == stack[top]
           r == Recorded(c)
<1>1. /\ walk \in {"none", "undo"} /\ Followed /\ top > 0 /\ UndoCommand(c)
      /\ stack' = IF c.data = Null THEN [stack EXCEPT ![top] = r] ELSE stack
      /\ top' = top - 1
      /\ walk' \in {"undo", "none"}
      /\ batch' = batch /\ groupId' = groupId /\ versions' = versions /\ spoilt' = spoilt
  BY DEF Undo, canUndo
<1>2. /\ stack \in Seq(Command) /\ top \in 1 .. Len(stack) /\ Len(stack) \in Nat
      /\ versions \in Seq(Seq(Char)) /\ Len(versions) = Len(stack) + 1
      /\ batch \in BOOLEAN /\ spoilt \in BOOLEAN /\ groupId \in Nat
  BY <1>1, LenProperties DEF RecordInv, StackInv
<1>3. Text = versions[top + 1]
  BY <1>1 DEF Followed
<1>4. ArrayInv' /\ Size' \in Nat /\ Size <= Size' /\ (~ spoilt => Text' = versions[top])
  BY <1>1, <1>3, UndoEffect
<1>5. /\ Copied(r, c)
      /\ ~ spoilt /\ (c.data # Null => r.data = c.data) =>
           r.data = Part(Longer(c, versions[top], versions[top + 1]), c.start, c.length)
  BY <1>1, <1>3, RecordedIs
<1>6. r \in Command
  BY <1>5 DEF Copied
<1> HIDE DEF r
<1>7. ASSUME NEW i \in 1 .. Len(stack)
      PROVE  stack'[i] = IF c.data = Null /\ i = top THEN r ELSE stack[i]
  BY <1>1, <1>2
<1>8. stack' \in Seq(Command) /\ Len(stack') = Len(stack)
  <2>1. CASE c.data = Null
    <3>1. stack' = [stack EXCEPT ![top] = r]
      BY <1>1, <2>1
    <3> QED BY <1>2, <1>6, <3>1, ExceptSeq
  <2>2. CASE c.data # Null
    BY <1>1, <1>2, <2>2
  <2> QED BY <2>1, <2>2
<1>9. StackInv'
  <2>1. top' \in 0 .. Len(stack')
    BY <1>1, <1>2, <1>8
  <2> QED BY <1>1, <1>2, <1>8, <2>1 DEF StackInv
<1>10. ASSUME NEW i \in 1 .. Len(stack)
       PROVE  Settled(stack'[i], stack[i], versions[i], versions[i + 1], ~ spoilt)
  <2>1. CASE c.data = Null /\ i = top
    <3>1. stack'[i] = r /\ stack[i] = c
      BY <1>7, <2>1
    <3>2. Copied(r, c)
      BY <1>5
    <3>3. ~ spoilt => r.data = Part(Longer(c, versions[i], versions[i + 1]), c.start, c.length)
      BY <1>5, <2>1
    <3>4. r.data # Null
      BY <3>2 DEF Copied
    <3> HIDE DEF c
    <3> QED BY <3>1, <3>2, <3>3, <3>4 DEF Settled
  <2>2. CASE ~ (c.data = Null /\ i = top)
    <3>1. stack'[i] = stack[i]
      BY <1>7, <2>2
    <3>2. Reachable(stack[i], i, top, Len(stack), gapStart, GapSize)
      BY DEF RecordInv, ReachableInv
    <3>3. stack[i].data # Null
      BY <2>2, <3>2 DEF Reachable
    <3> QED BY <3>1, <3>3 DEF Settled
  <2> QED BY <2>1, <2>2
<1>11. RecordInv'
  BY <1>1, <1>4, <1>8, <1>9, <1>10, SettledStep
<1>12. ASSUME NEW i \in 1 .. Len(stack) PROVE stack'[i].group = stack[i].group
  BY <1>5, <1>7 DEF Copied
<1>13. ~ spoilt' => Text' = versions'[top' + 1]
  <2>1. top' + 1 = top
    BY <1>1, <1>2
  <2> QED BY <1>1, <1>4, <2>1
<1> HIDE DEF c
<1> QED BY <1>4, <1>8, <1>11, <1>12, <1>13

\* Redoing a command puts its characters into the text again or takes them out.
LEMMA RedoStep ==
  ASSUME ArrayInv, RecordInv, Redo
  PROVE  ArrayInv' /\ RecordInv' /\ (~ spoilt' => Text' = versions'[top' + 1])
<1> DEFINE c == stack[top + 1]
           u == versions[top + 1]
           v == versions[top + 2]
<1>1. /\ walk \in {"none", "redo"} /\ Followed /\ top < Len(stack) /\ RedoCommand(c)
      /\ top' = top + 1
      /\ walk' \in {"redo", "none"}
      /\ stack' = stack
      /\ batch' = batch /\ groupId' = groupId /\ versions' = versions /\ spoilt' = spoilt
  BY DEF Redo, canRedo
<1>2. /\ stack \in Seq(Command) /\ top \in 0 .. Len(stack) /\ Len(stack) \in Nat
      /\ versions \in Seq(Seq(Char)) /\ Len(versions) = Len(stack) + 1
      /\ batch \in BOOLEAN /\ spoilt \in BOOLEAN /\ groupId \in Nat
  BY <1>1, LenProperties DEF RecordInv, StackInv
<1>3. Text = u
  BY <1>1 DEF Followed
<1>4. top + 1 \in 1 .. Len(stack) /\ top + 1 # top /\ (top + 1) + 1 = top + 2
  BY <1>1, <1>2
<1>5. /\ Fits(c, u, v) /\ Reachable(c, top + 1, top, Len(stack), gapStart, GapSize)
      /\ ~ spoilt => Describes(c, u, v, Gap(contents, gapStart, c.length))
  BY <1>4 DEF RecordInv, FitsInv, ReachableInv, DescribesInv
<1>6. c \in Command
  BY <1>2, <1>4, ElementOfSeq
<1>7. /\ c.kind \in {"insert", "delete"} /\ c.start \in Nat /\ c.length \in Nat
      /\ c.data \in Seq(C) /\ c.data # Null
  <2>1. c.data # Null
    BY <1>4, <1>5 DEF Reachable
  <2> HIDE DEF C
  <2> QED BY <1>6, <2>1, CommandIs
<1>8. u \in Seq(C) /\ Len(u) \in Nat /\ v \in Seq(C) /\ Len(v) \in Nat
  <2>1. top + 1 \in 1 .. Len(versions) /\ top + 2 \in 1 .. Len(versions) /\ StackInv
    BY <1>2, <1>4 DEF RecordInv
  <2> HIDE DEF C
  <2> QED BY <2>1, VersionIs
<1>9. Size \in Nat
  BY ArrayIs
<1> HIDE DEF C, c, u, v
<1>10. ArrayInv' /\ Size' \in Nat /\ Size <= Size' /\ (~ spoilt => Text' = v)
  <2>1. CASE c.kind = "insert"
    <3>1. c.start \in 0 .. Len(Text) /\ c.start + c.length <= Len(v) /\ insert(c.data, c.start)
      BY <1>1, <1>3, <1>5, <1>7, <1>8, <2>1 DEF RedoCommand, Fits, Longer, Shorter
    <3>2. ArrayInv' /\ Size' \in Nat /\ Size <= Size' /\ Text' = Paste(Text, c.start, c.data)
      BY <1>7, <3>1, InsertIs
    <3>3. ASSUME ~ spoilt PROVE Paste(Text, c.start, c.data) = v
      <4>1. u = Cut(v, c.start, c.length) /\ c.data = Part(v, c.start, c.length)
        BY <1>5, <1>7, <2>1, <3>3 DEF Describes, Longer, Shorter
      <4>2. Paste(Cut(v, c.start, c.length), c.start, Part(v, c.start, c.length)) = v
        BY <1>7, <1>8, <3>1, CutAndPaste
      <4> QED BY <1>3, <4>1, <4>2
    <3> QED BY <3>2, <3>3
  <2>2. CASE c.kind = "delete"
    <3>1. c.start + c.length <= Len(Text) /\ delete(c.start, c.length)
      BY <1>1, <1>3, <1>5, <1>7, <1>8, <2>2 DEF RedoCommand, Fits, Longer, Shorter
    <3>2. ArrayInv' /\ Size' = Size /\ Text' = Cut(Text, c.start, c.length)
      BY <1>7, <3>1, DeleteIs
    <3>3. ~ spoilt => v = Cut(u, c.start, c.length)
      BY <1>5, <2>2 DEF Describes, Longer, Shorter
    <3> QED BY <1>3, <1>9, <3>2, <3>3
  <2> QED BY <1>7, <2>1, <2>2
<1>11. StackInv'
  <2>1. top' \in 0 .. Len(stack')
    BY <1>1, <1>2
  <2> QED BY <1>1, <1>2, <2>1 DEF StackInv
<1>12. ASSUME NEW i \in 1 .. Len(stack)
       PROVE  Settled(stack'[i], stack[i], versions[i], versions[i + 1], ~ spoilt)
  <2>1. Reachable(stack[i], i, top, Len(stack), gapStart, GapSize)
    BY DEF RecordInv, ReachableInv
  <2>2. stack[i].data # Null
    BY <1>1, <2>1 DEF Reachable
  <2> QED BY <1>1, <2>2 DEF Settled
<1>13. RecordInv'
  BY <1>1, <1>10, <1>11, <1>12, SettledStep
<1>14. ~ spoilt' => Text' = versions'[top' + 1]
  <2>1. top' + 1 = top + 2
    BY <1>1, <1>2
  <2> QED BY <1>1, <1>10, <2>1 DEF v
<1> QED BY <1>10, <1>13, <1>14

-----------------------------------------------------------------------------
(* Places in a text, in their order.                                        *)

\* A set of natural numbers has a least one.
LEMMA LeastNumber ==
  ASSUME NEW S \in SUBSET Nat, S # {}
  PROVE  \E n \in S : \A m \in S : n <= m
<1> DEFINE R == {ss \in Nat \X Nat : ss[1] < ss[2]}
<1>1. IsWellFoundedOn(R, Nat)
  BY NatLessThanWellFounded DEF OpToRel
<1>2. PICK n \in S : \A m \in S : ~ (<<m, n>> \in R)
  <2> HIDE DEF R
  <2> QED BY <1>1, WFMin
<1>3. ASSUME NEW m \in S PROVE n <= m
  <2>1. m \in Nat /\ n \in Nat /\ <<m, n>> \in Nat \X Nat
    BY <1>3
  <2>2. ~ (m < n)
    <3>1. ASSUME m < n PROVE <<m, n>> \in R
      BY <2>1, <3>1
    <3> QED BY <1>2, <1>3, <3>1
  <2> QED BY <2>1, <2>2
<1> QED BY <1>3

\* A set of integers between two bounds has an n-th one, for each n up to its size: where
\* the count of the members below first reaches n.
LEMMA NthIs ==
  ASSUME NEW a \in Int, NEW b \in Int, NEW S \in SUBSET (a .. b), NEW n \in 1 .. Cardinality(S)
  PROVE  Nth(S, n) \in S /\ Cardinality({j \in S : j < Nth(S, n)}) = n - 1
<1> DEFINE F(x) == {j \in S : j < x}
           f(k) == Cardinality(F(a + k))
           M == {k \in Nat : f(k) >= n}
<1>0. \A j \in S : j \in Int /\ a <= j /\ j <= b
  OBVIOUS
<1>1. IsFiniteSet(S) /\ Cardinality(S) \in Nat
  <2>1. IsFiniteSet(a .. b)
    BY FS_Interval
  <2>2. IsFiniteSet(S)
    BY <2>1, FS_Subset
  <2> QED BY <2>2, FS_CardinalityType
<1>2. \A x : IsFiniteSet(F(x)) /\ Cardinality(F(x)) \in Nat
  <2>1. ASSUME NEW x PROVE IsFiniteSet(F(x)) /\ Cardinality(F(x)) \in Nat
    <3>1. F(x) \subseteq S
      OBVIOUS
    <3> HIDE DEF F
    <3>2. IsFiniteSet(F(x))
      BY <1>1, <3>1, FS_Subset
    <3> QED BY <3>2, FS_CardinalityType
  <2> QED BY <2>1
<1>3. f(0) = 0
  <2>0. \A j \in S : ~ (j < a + 0)
    BY <1>0
  <2>1. F(a + 0) = {}
    BY <2>0
  <2> HIDE DEF F
  <2> QED BY <2>1, FS_EmptySet
<1>4. M # {}
  <2>1. S # {}
    BY FS_EmptySet
  <2>2. PICK j \in S : TRUE
    BY <2>1
  <2>3. b + 1 - a \in Nat /\ a + (b + 1 - a) = b + 1
    BY <2>2
  <2>6. \A m \in S : m < b + 1
    BY <1>0
  <2>4. F(b + 1) = S
    BY <2>6
  <2>5. f(b + 1 - a) >= n
    <3> HIDE DEF F
    <3>1. F(a + (b + 1 - a)) = S
      BY <2>3, <2>4
    <3> QED BY <1>1, <3>1
  <2> HIDE DEF f
  <2> QED BY <2>3, <2>5
<1> HIDE DEF f
<1>5. PICK m \in M : \A k \in M : m <= k
  <2>1. M \in SUBSET Nat
    OBVIOUS
  <2> HIDE DEF M
  <2> QED BY <1>4, <2>1, LeastNumber
<1>6. m \in Nat /\ f(m) >= n /\ n \in Nat /\ n >= 1
  BY <1>1, <1>5
<1>7. m # 0
  BY <1>3, <1>6
<1> DEFINE k == m - 1
<1>8. k \in Nat /\ k < m /\ m = k + 1
  BY <1>6, <1>7
<1> HIDE DEF k
<1>9. f(k) \in Nat /\ f(k) < n
  <2>1. f(k) \in Nat
    BY <1>2, <1>8 DEF f
  <2>2. k \notin M
    BY <1>5, <1>6, <1>8
  <2> QED BY <1>6, <1>8, <2>1, <2>2
<1>10. a + k \in S
  <2> SUFFICES ASSUME a + k \notin S PROVE FALSE
    OBVIOUS
  <2>0. \A j \in S : j < a + m <=> j < a + k
    <3>1. ASSUME NEW j \in S PROVE j < a + m <=> j < a + k
      <4>1. j \in Int /\ j # a + k
        BY <1>0
      <4> QED BY <1>8, <4>1
    <3> QED BY <3>1
  <2>1. F(a + m) = F(a + k)
    BY <2>0
  <2>2. f(m) = f(k)
    BY <2>1 DEF f
  <2> QED BY <1>6, <1>9, <2>2
<1>11. f(m) = f(k) + 1
  <2>0. \A j \in S : j < a + m <=> j < a + k \/ j = a + k
    <3>1. ASSUME NEW j \in S PROVE j < a + m <=> j < a + k \/ j = a + k
      <4>1. j \in Int
        BY <1>0
      <4> QED BY <1>8, <4>1
    <3> QED BY <3>1
  <2>1. F(a + m) = F(a + k) \cup {a + k}
    BY <1>10, <2>0
  <2>2. a + k \notin F(a + k)
    BY <1>8
  <2> HIDE DEF F
  <2>3. Cardinality(F(a + k) \cup {a + k}) = Cardinality(F(a + k)) + 1
    BY <1>2, <2>2, FS_AddElement
  <2> QED BY <2>1, <2>3 DEF f
<1>12. f(k) = n - 1
  BY <1>6, <1>9, <1>11
<1>13. Cardinality({j \in S : j < a + k}) = n - 1
  BY <1>12 DEF f
<1> QED BY <1>10, <1>13 DEF Nth



\* A finite set of places in a text.
IsPlaces(S) == \E b \in Int : S \in SUBSET (0 .. b)

LEMMA PlacesAre ==
  ASSUME NEW S, IsPlaces(S)
  PROVE  /\ S \in SUBSET Nat /\ IsFiniteSet(S) /\ Cardinality(S) \in Nat
         /\ \A T \in SUBSET S : IsPlaces(T) /\ IsFiniteSet(T) /\ Cardinality(T) \in Nat
                                /\ Cardinality(T) <= Cardinality(S)
<1>1. PICK b \in Int : S \in SUBSET (0 .. b)
  BY DEF IsPlaces
<1>2. IsFiniteSet(0 .. b)
  BY FS_Interval
<1>3. IsFiniteSet(S)
  BY <1>1, <1>2, FS_Subset
<1>4. S \in SUBSET Nat
  BY <1>1
<1>5. ASSUME NEW T \in SUBSET S
      PROVE  IsPlaces(T) /\ IsFiniteSet(T) /\ Cardinality(T) \in Nat /\ Cardinality(T) <= Cardinality(S)
  <2>1. IsFiniteSet(T) /\ Cardinality(T) <= Cardinality(S)
    BY <1>3, FS_Subset
  <2>2. Cardinality(T) \in Nat
    BY <2>1, FS_CardinalityType
  <2>3. IsPlaces(T)
    BY <1>1 DEF IsPlaces
  <2> QED BY <2>1, <2>2, <2>3
<1>6. Cardinality(S) \in Nat
  BY <1>3, FS_CardinalityType
<1> QED BY <1>3, <1>4, <1>5, <1>6

\* How many members of S are below x.
Rank(S, x) == Cardinality({j \in S : j < x})

\* The members of S have different ranks, all less than their number.
LEMMA RankIs ==
  ASSUME NEW S, IsPlaces(S), NEW x \in S
  PROVE  /\ Rank(S, x) \in Nat /\ Rank(S, x) < Cardinality(S)
         /\ \A y \in S : x < y => Rank(S, x) < Rank(S, y)
<1> DEFINE F(y) == {j \in S : j < y}
<1>1. /\ S \in SUBSET Nat /\ Cardinality(S) \in Nat
      /\ \A T \in SUBSET S : IsFiniteSet(T) /\ Cardinality(T) \in Nat /\ Cardinality(T) <= Cardinality(S)
  BY PlacesAre
<1>2. \A y : F(y) \in SUBSET S
  OBVIOUS
<1>3. x \notin F(x) /\ F(x) \cup {x} \in SUBSET S /\ x \in Nat
  BY <1>1
<1>4. ASSUME NEW y \in S, x < y PROVE F(x) \cup {x} \in SUBSET F(y)
  <2>1. \A j \in S : j < x => j < y
    BY <1>1, <1>4
  <2> QED BY <1>4, <2>1
<1>5. Rank(S, x) = Cardinality(F(x)) /\ \A y : Rank(S, y) = Cardinality(F(y))
  BY DEF Rank
<1> HIDE DEF F
<1>6. Cardinality(F(x) \cup {x}) = Cardinality(F(x)) + 1
  BY <1>1, <1>2, <1>3, FS_AddElement
<1>7. Cardinality(F(x)) \in Nat /\ Cardinality(F(x)) < Cardinality(S)
  <2>1. Cardinality(F(x)) \in Nat /\ Cardinality(F(x) \cup {x}) <= Cardinality(S)
    BY <1>1, <1>2, <1>3
  <2> QED BY <1>1, <1>6, <2>1
<1>8. ASSUME NEW y \in S, x < y PROVE Cardinality(F(x)) < Cardinality(F(y))
  <2>1. IsFiniteSet(F(y)) /\ Cardinality(F(y)) \in Nat
    BY <1>1, <1>2
  <2>2. Cardinality(F(x) \cup {x}) <= Cardinality(F(y))
    BY <1>4, <1>8, <2>1, FS_Subset
  <2> QED BY <1>6, <1>7, <2>1, <2>2
<1> QED BY <1>5, <1>7, <1>8

\* The n-th member is the one of rank n - 1.
LEMMA NthByRank ==
  ASSUME NEW S, IsPlaces(S)
  PROVE  /\ \A n \in 1 .. Cardinality(S) : Nth(S, n) \in S /\ Rank(S, Nth(S, n)) = n - 1
         /\ \A x \in S : Rank(S, x) + 1 \in 1 .. Cardinality(S) /\ Nth(S, Rank(S, x) + 1) = x
<1>0. S \in SUBSET Nat /\ Cardinality(S) \in Nat
  BY PlacesAre
<1>1. ASSUME NEW n \in 1 .. Cardinality(S) PROVE Nth(S, n) \in S /\ Rank(S, Nth(S, n)) = n - 1
  <2>1. PICK b \in Int : S \in SUBSET (0 .. b)
    BY DEF IsPlaces
  <2>2. Nth(S, n) \in S /\ Cardinality({j \in S : j < Nth(S, n)}) = n - 1
    <3>1. 0 \in Int
      OBVIOUS
    <3> QED BY <2>1, <3>1, NthIs
  <2> QED BY <2>2 DEF Rank
<1>2. ASSUME NEW x \in S PROVE Rank(S, x) + 1 \in 1 .. Cardinality(S) /\ Nth(S, Rank(S, x) + 1) = x
  <2> DEFINE n == Rank(S, x) + 1
             y == Nth(S, n)
  <2>1. Rank(S, x) \in Nat /\ n \in 1 .. Cardinality(S)
    BY <1>0, RankIs
  <2>2. y \in S /\ Rank(S, y) = n - 1
    BY <1>1, <2>1
  <2> HIDE DEF y
  <2>3. x \in Nat /\ y \in Nat /\ Rank(S, y) = Rank(S, x)
    BY <1>0, <2>1, <2>2
  <2>4. ~ (x < y) /\ ~ (y < x)
    BY <2>1, <2>2, <2>3, RankIs
  <2> QED BY <2>1, <2>3, <2>4 DEF y
<1> QED BY <1>1, <1>2

\* The sequence r has the members of S, each once and in their order.
IsInOrder(r, S) ==
  /\ r \in Seq(Int)
  /\ \A i, j \in 1 .. Len(r) : i < j => r[i] < r[j]
  /\ \A i \in 1 .. Len(r) : r[i] \in S
  /\ \A x \in S : \E i \in 1 .. Len(r) : r[i] = x

LEMMA InOrderIs ==
  ASSUME NEW S, IsPlaces(S)
  PROVE  /\ IsInOrder(InOrder(S), S) /\ Len(InOrder(S)) = Cardinality(S)
         /\ \A k \in 1 .. Cardinality(S) : InOrder(S)[k] = Nth(S, k)
<1> DEFINE n == Cardinality(S)
           r == InOrder(S)
<1>1. n \in Nat /\ S \in SUBSET Nat
  BY PlacesAre
<1>2. /\ \A k \in 1 .. n : Nth(S, k) \in S /\ Rank(S, Nth(S, k)) = k - 1
      /\ \A x \in S : Rank(S, x) + 1 \in 1 .. n /\ Nth(S, Rank(S, x) + 1) = x
  BY NthByRank
<1>3. r = [k \in 1 .. n |-> Nth(S, k)]
  BY DEF InOrder
<1> HIDE DEF n
<1>0. \A x \in S : x \in Int
  BY <1>1
<1>4. \A k \in 1 .. n : Nth(S, k) \in Int
  BY <1>0, <1>2
<1>5. r \in Seq(Int) /\ Len(r) = n /\ \A k \in 1 .. n : r[k] = Nth(S, k)
  BY <1>1, <1>3, <1>4
<1> HIDE DEF r
<1>6. ASSUME NEW i \in 1 .. n, NEW j \in 1 .. n, i < j PROVE r[i] < r[j]
  <2>1. r[i] \in S /\ r[j] \in S /\ Rank(S, r[i]) = i - 1 /\ Rank(S, r[j]) = j - 1
    BY <1>2, <1>5
  <2>2. r[i] # r[j]
    BY <1>6, <2>1
  <2>3. ~ (r[j] < r[i])
    <3>1. ASSUME r[j] < r[i] PROVE FALSE
      <4>1. Rank(S, r[j]) < Rank(S, r[i])
        BY <2>1, <3>1, RankIs
      <4> QED BY <1>6, <2>1, <4>1
    <3> QED BY <3>1
  <2>4. r[i] \in Int /\ r[j] \in Int
    BY <1>0, <2>1
  <2> QED BY <2>2, <2>3, <2>4
<1>7. \A x \in S : \E i \in 1 .. n : r[i] = x
  BY <1>2, <1>5
<1>8. \A i \in 1 .. n : r[i] \in S
  BY <1>2, <1>5
<1> QED BY <1>5, <1>6, <1>7, <1>8 DEF IsInOrder, n, r

\* There is only one such sequence.
LEMMA InOrderOnly ==
  ASSUME NEW S, IsPlaces(S), NEW r, IsInOrder(r, S)
  PROVE  r = InOrder(S)
<1> DEFINE n == Len(r)
           q == InOrder(S)
<1>1. /\ n \in Nat /\ r \in Seq(Int) /\ \A i \in 1 .. n : r[i] \in Int /\ r[i] \in S
      /\ \A i, j \in 1 .. n : i < j => r[i] < r[j]
      /\ \A x \in S : \E i \in 1 .. n : r[i] = x
  BY LenProperties, ElementOfSeq DEF IsInOrder
<1>2. /\ q \in Seq(Int) /\ Len(q) = Cardinality(S) /\ Cardinality(S) \in Nat
      /\ \A k \in 1 .. Cardinality(S) : q[k] = Nth(S, k)
      /\ \A x \in S : Rank(S, x) + 1 \in 1 .. Cardinality(S) /\ Nth(S, Rank(S, x) + 1) = x
  BY InOrderIs, NthByRank, PlacesAre DEF IsInOrder
<1> HIDE DEF n, q
<1>3. ASSUME NEW k \in 1 .. n + 1, NEW T, T = {r[i] : i \in 1 .. k - 1} PROVE Cardinality(T) = k - 1
  <2> DEFINE f == [i \in 1 .. k - 1 |-> r[i]]
  <2>1. \A i \in 1 .. k - 1 : i \in 1 .. n
    BY <1>1
  <2>2. f \in Bijection(1 .. k - 1, T)
    <3>1. f \in [1 .. k - 1 -> T]
      BY <1>3
    <3>2. ASSUME NEW i \in 1 .. k - 1, NEW j \in 1 .. k - 1, f[i] = f[j] PROVE i = j
      <4>1. r[i] = r[j] /\ i \in 1 .. n /\ j \in 1 .. n /\ r[i] \in Int
        BY <1>1, <2>1, <3>2
      <4>2. ~ (i < j) /\ ~ (j < i)
        BY <1>1, <4>1
      <4> QED BY <4>2
    <3>3. ASSUME NEW x \in T PROVE \E i \in 1 .. k - 1 : f[i] = x
      BY <1>3
    <3> HIDE DEF f
    <3>4. f \in Injection(1 .. k - 1, T)
      BY <3>1, <3>2 DEF Injection, IsInjective
    <3>5. f \in Surjection(1 .. k - 1, T)
      BY <3>1, <3>3 DEF Surjection
    <3> QED BY <3>4, <3>5 DEF Bijection
  <2>3. k - 1 \in Int /\ IsFiniteSet(1 .. k - 1) /\ Cardinality(1 .. k - 1) = k - 1
    <3>1. k - 1 \in Int /\ 1 \in Int /\ k - 1 >= 0
      BY <1>1
    <3>2. IsFiniteSet(1 .. k - 1) /\ Cardinality(1 .. k - 1) = IF 1 > k - 1 THEN 0 ELSE k - 1 - 1 + 1
      BY <3>1, FS_Interval
    <3> QED BY <3>1, <3>2
  <2>4. Cardinality(T) = Cardinality(1 .. k - 1)
    <3>1. ExistsBijection(1 .. k - 1, T)
      BY <2>2 DEF ExistsBijection
    <3> QED BY <2>3, <3>1, FS_Bijection
  <2> QED BY <2>3, <2>4
<1>4. n = Cardinality(S)
  <2>1. S = {r[i] : i \in 1 .. (n + 1) - 1}
    <3>1. (n + 1) - 1 = n
      BY <1>1
    <3> QED BY <1>1, <3>1
  <2>2. n + 1 \in 1 .. n + 1
    BY <1>1
  <2>3. Cardinality(S) = (n + 1) - 1
    BY <1>3, <2>1, <2>2
  <2> QED BY <1>1, <2>3
<1>5. ASSUME NEW k \in 1 .. n PROVE r[k] = q[k]
  <2>1. {j \in S : j < r[k]} = {r[i] : i \in 1 .. k - 1}
    <3>1. ASSUME NEW j \in S, j < r[k] PROVE \E i \in 1 .. k - 1 : r[i] = j
      <4>1. PICK i \in 1 .. n : r[i] = j
        BY <1>1
      <4>2. ~ (k < i) /\ i # k
        BY <1>1, <3>1, <4>1
      <4> QED BY <4>1, <4>2
    <3>2. ASSUME NEW i \in 1 .. k - 1 PROVE r[i] \in S /\ r[i] < r[k]
      <4>1. i \in 1 .. n /\ i < k
        BY <1>1
      <4> QED BY <1>1, <4>1
    <3> QED BY <3>1, <3>2
  <2>2. k \in 1 .. n + 1
    BY <1>1
  <2>3. Rank(S, r[k]) = k - 1
    BY <1>3, <2>1, <2>2 DEF Rank
  <2>4. r[k] \in S /\ Rank(S, r[k]) + 1 = k
    BY <1>1, <2>3
  <2>5. Nth(S, k) = r[k]
    BY <1>2, <2>4
  <2> QED BY <1>2, <1>4, <2>5
<1>6. r = q
  BY <1>1, <1>2, <1>4, <1>5, SeqEqual DEF n
<1> QED BY <1>6 DEF q

\* Sequences in order, put behind each other.
LEMMA InOrderConcat ==
  ASSUME NEW S, NEW T, NEW r, NEW q, IsInOrder(r, S), IsInOrder(q, T), \A x \in S, y \in T : x < y
  PROVE  IsInOrder(r \o q, S \cup T)
<1> DEFINE n == Len(r)
           m == Len(q)
           c == r \o q
<1>1. /\ n \in Nat /\ m \in Nat /\ r \in Seq(Int) /\ q \in Seq(Int)
      /\ \A i \in 1 .. n : r[i] \in S
      /\ \A i \in 1 .. m : q[i] \in T
      /\ \A i, j \in 1 .. n : i < j => r[i] < r[j]
      /\ \A i, j \in 1 .. m : i < j => q[i] < q[j]
      /\ \A x \in S : \E i \in 1 .. n : r[i] = x
      /\ \A x \in T : \E i \in 1 .. m : q[i] = x
  BY LenProperties DEF IsInOrder
<1>2. /\ c \in Seq(Int) /\ Len(c) = n + m
      /\ \A i \in 1 .. n + m : c[i] = IF i <= n THEN r[i] ELSE q[i - n]
  BY <1>1, ConcatProperties
<1> HIDE DEF n, m, c
<1>3. \A i \in 1 .. n : i \in 1 .. n + m /\ c[i] = r[i]
  BY <1>1, <1>2
<1>4. \A i \in 1 .. m : i + n \in 1 .. n + m /\ c[i + n] = q[i]
  <2>1. ASSUME NEW i \in 1 .. m PROVE i + n \in 1 .. n + m /\ c[i + n] = q[i]
    <3>1. PICK k \in 1 .. n + m : k = i + n
      BY <1>1
    <3>2. ~ (k <= n) /\ k - n = i
      BY <1>1, <3>1
    <3>3. c[k] = q[k - n]
      BY <1>2, <3>2
    <3> QED BY <3>1, <3>2, <3>3
  <2> QED BY <2>1
<1>5. \A i \in 1 .. n + m : i \in 1 .. n \/ (i - n \in 1 .. m /\ c[i] = q[i - n] /\ i > n)
  BY <1>1, <1>2
<1>6. ASSUME NEW i \in 1 .. n + m PROVE c[i] \in S \cup T
  BY <1>1, <1>3, <1>5
<1>7. ASSUME NEW i \in 1 .. n + m, NEW j \in 1 .. n + m, i < j PROVE c[i] < c[j]
  <2>1. CASE j \in 1 .. n
    <3>1. i \in 1 .. n
      BY <1>1, <1>7, <2>1
    <3> QED BY <1>1, <1>3, <1>7, <2>1, <3>1
  <2>2. CASE i \in 1 .. n /\ j > n
    <3>1. c[i] \in S
      BY <1>1, <1>3, <2>2
    <3>2. j \notin 1 .. n
      BY <1>1, <2>2
    <3>3. c[j] \in T
      BY <1>1, <1>5, <3>2
    <3> QED BY <3>1, <3>3
  <2>3. CASE i > n
    <3>1. i - n \in 1 .. m /\ j - n \in 1 .. m /\ i - n < j - n /\ c[i] = q[i - n] /\ c[j] = q[j - n]
      BY <1>1, <1>5, <1>7, <2>3
    <3> QED BY <1>1, <3>1
  <2> QED BY <1>1, <1>5, <2>1, <2>2, <2>3
<1>8. ASSUME NEW x \in S \cup T PROVE \E i \in 1 .. n + m : c[i] = x
  <2>1. CASE x \in S
    BY <1>1, <1>3, <2>1
  <2>2. CASE x \in T
    <3>1. PICK i \in 1 .. m : q[i] = x
      BY <1>1, <2>2
    <3>2. i + n \in 1 .. n + m /\ c[i + n] = x
      BY <1>4, <3>1
    <3> QED BY <3>2
  <2> QED BY <2>1, <2>2
<1>9. IsInOrder(c, S \cup T)
  BY <1>2, <1>6, <1>7, <1>8 DEF IsInOrder
<1> QED BY <1>9 DEF c

\* A part of such a sequence, from its beginning and to its end.
LEMMA InOrderPrefix ==
  ASSUME NEW S, NEW r, IsInOrder(r, S), NEW k \in 1 .. Len(r)
  PROVE  IsInOrder(SubSeq(r, 1, k), {x \in S : x <= r[k]})
<1> DEFINE n == Len(r)
           p == SubSeq(r, 1, k)
           T == {x \in S : x <= r[k]}
<1>1. /\ n \in Nat /\ r \in Seq(Int) /\ k \in Nat /\ k <= n
      /\ \A i \in 1 .. n : r[i] \in S /\ r[i] \in Int
      /\ \A i, j \in 1 .. n : i < j => r[i] < r[j]
      /\ \A x \in S : \E i \in 1 .. n : r[i] = x
  BY LenProperties, ElementOfSeq DEF IsInOrder
<1>2. p \in Seq(Int) /\ Len(p) = k /\ \A i \in 1 .. k : p[i] = r[i]
  <2>1. \A i \in 1 .. k : r[i] \in Int
    BY <1>1
  <2> HIDE DEF p
  <2>2. /\ SubSeq(r, 1, k) \in Seq(Int)
        /\ Len(SubSeq(r, 1, k)) = IF 1 <= k THEN k - 1 + 1 ELSE 0
        /\ \A i \in 1 .. k - 1 + 1 : SubSeq(r, 1, k)[i] = r[1 + i - 1]
    BY <1>1, <2>1, SubSeqProperties
  <2>3. k - 1 + 1 = k /\ 1 <= k /\ \A i \in 1 .. k : 1 + i - 1 = i
    BY <1>1
  <2> QED BY <2>2, <2>3 DEF p
<1> HIDE DEF n, p
<1>3. \A i \in 1 .. k : i \in 1 .. n
  BY <1>1
<1>4. ASSUME NEW i \in 1 .. k PROVE p[i] \in T
  <2>1. i = k \/ i < k
    BY <1>1
  <2>2. r[i] <= r[k] /\ r[i] \in S
    BY <1>1, <1>3, <2>1
  <2> QED BY <1>2, <2>2
<1>5. ASSUME NEW x \in T PROVE \E i \in 1 .. k : p[i] = x
  <2>1. PICK i \in 1 .. n : r[i] = x
    BY <1>1
  <2>2. ~ (k < i)
    <3>1. ASSUME k < i PROVE FALSE
      <4>1. r[k] < r[i] /\ r[i] <= r[k] /\ r[i] \in Int /\ r[k] \in Int
        BY <1>1, <2>1, <3>1
      <4> QED BY <4>1
    <3> QED BY <3>1
  <2>3. i \in 1 .. k
    BY <1>1, <2>2
  <2> QED BY <1>2, <2>1, <2>3
<1>6. \A i, j \in 1 .. k : i < j => p[i] < p[j]
  BY <1>1, <1>2, <1>3
<1> HIDE DEF T
<1>7. IsInOrder(p, T)
  BY <1>2, <1>4, <1>5, <1>6 DEF IsInOrder
<1> QED BY <1>7 DEF p, T

LEMMA InOrderSuffix ==
  ASSUME NEW S, NEW r, IsInOrder(r, S), NEW k \in 0 .. Len(r), NEW o \in Int,
         \A i \in 1 .. Len(r) : i <= k <=> r[i] <= o
  PROVE  IsInOrder(SubSeq(r, k + 1, Len(r)), {x \in S : x > o})
<1> DEFINE n == Len(r)
           p == SubSeq(r, k + 1, n)
           T == {x \in S : x > o}
<1>1. /\ n \in Nat /\ r \in Seq(Int) /\ k \in Nat /\ k <= n
      /\ \A i \in 1 .. n : r[i] \in S /\ r[i] \in Int
      /\ \A i, j \in 1 .. n : i < j => r[i] < r[j]
      /\ \A x \in S : \E i \in 1 .. n : r[i] = x
      /\ \A i \in 1 .. n : i <= k <=> r[i] <= o
  BY LenProperties, ElementOfSeq DEF IsInOrder
<1> HIDE DEF n
<1>2. p \in Seq(Int) /\ Len(p) = n - k /\ \A i \in 1 .. n - k : p[i] = r[k + i]
  <2>1. \A i \in k + 1 .. n : r[i] \in Int
    BY <1>1
  <2> HIDE DEF p
  <2>2. /\ SubSeq(r, k + 1, n) \in Seq(Int)
        /\ Len(SubSeq(r, k + 1, n)) = IF k + 1 <= n THEN n - (k + 1) + 1 ELSE 0
        /\ \A i \in 1 .. n - (k + 1) + 1 : SubSeq(r, k + 1, n)[i] = r[(k + 1) + i - 1]
    BY <1>1, <2>1, SubSeqProperties
  <2>3. /\ n - (k + 1) + 1 = n - k /\ (IF k + 1 <= n THEN n - (k + 1) + 1 ELSE 0) = n - k
        /\ \A i \in 1 .. n - k : (k + 1) + i - 1 = k + i
    BY <1>1
  <2> QED BY <2>2, <2>3 DEF p
<1> HIDE DEF p
<1>3. \A i \in 1 .. n - k : k + i \in 1 .. n /\ ~ (k + i <= k)
  BY <1>1
<1>4. ASSUME NEW i \in 1 .. n - k PROVE p[i] \in T
  <2>1. r[k + i] \in S /\ r[k + i] \in Int /\ ~ (r[k + i] <= o)
    BY <1>1, <1>3
  <2>2. r[k + i] > o
    BY <2>1
  <2> QED BY <1>2, <2>1, <2>2
<1>5. ASSUME NEW x \in T PROVE \E i \in 1 .. n - k : p[i] = x
  <2>1. PICK i \in 1 .. n : r[i] = x
    BY <1>1
  <2>2. r[i] \in Int /\ r[i] > o
    BY <1>1, <2>1
  <2>3. ~ (i <= k)
    BY <1>1, <2>2
  <2>4. i - k \in 1 .. n - k /\ k + (i - k) = i
    BY <1>1, <2>3
  <2>5. p[i - k] = x
    BY <1>2, <2>1, <2>4
  <2> QED BY <2>4, <2>5
<1>6. ASSUME NEW i \in 1 .. n - k, NEW j \in 1 .. n - k, i < j PROVE p[i] < p[j]
  <2>1. k + i < k + j
    BY <1>1, <1>6
  <2> QED BY <1>1, <1>2, <1>3, <2>1
<1> HIDE DEF T
<1>7. IsInOrder(p, T)
  BY <1>2, <1>4, <1>5, <1>6 DEF IsInOrder
<1> QED BY <1>7 DEF p, T, n

\* All of it, moved by d.
LEMMA InOrderMoved ==
  ASSUME NEW S, NEW r, IsInOrder(r, S), NEW d \in Int
  PROVE  IsInOrder([i \in 1 .. Len(r) |-> r[i] + d], {x + d : x \in S})
<1> DEFINE n == Len(r)
           p == [i \in 1 .. n |-> r[i] + d]
           T == {x + d : x \in S}
<1>1. /\ n \in Nat
      /\ \A i \in 1 .. n : r[i] \in S /\ r[i] \in Int
      /\ \A i, j \in 1 .. n : i < j => r[i] < r[j]
      /\ \A x \in S : \E i \in 1 .. n : r[i] = x
  BY LenProperties, ElementOfSeq DEF IsInOrder
<1> HIDE DEF n
<1>2. \A i \in 1 .. n : r[i] + d \in Int
  BY <1>1
<1>3. p \in Seq(Int) /\ Len(p) = n /\ \A i \in 1 .. n : p[i] = r[i] + d
  BY <1>1, <1>2
<1> HIDE DEF p
<1>4. \A i \in 1 .. n : p[i] \in T
  BY <1>1, <1>3
<1>5. \A x \in T : \E i \in 1 .. n : p[i] = x
  BY <1>1, <1>3
<1>6. ASSUME NEW i \in 1 .. n, NEW j \in 1 .. n, i < j PROVE p[i] < p[j]
  <2>1. r[i] \in Int /\ r[j] \in Int /\ r[i] < r[j]
    BY <1>1, <1>6
  <2>2. r[i] + d < r[j] + d
    BY <2>1
  <2> QED BY <1>3, <2>2
<1> HIDE DEF T
<1>7. IsInOrder(p, T)
  BY <1>3, <1>4, <1>5, <1>6 DEF IsInOrder
<1> QED BY <1>7 DEF p, T, n

\* How many entries are at most o tells which ones are.
LEMMA CountIs ==
  ASSUME NEW S, NEW r, IsInOrder(r, S), NEW o \in Int,
         NEW f, f = Cardinality({k \in 1 .. Len(r) : r[k] <= o})
  PROVE  f \in 0 .. Len(r) /\ \A i \in 1 .. Len(r) : i <= f <=> r[i] <= o
<1> DEFINE n == Len(r)
           K == {k \in 1 .. n + 1 : k = n + 1 \/ r[k] > o}
<1>1. /\ n \in Nat /\ \A i \in 1 .. n : r[i] \in Int
      /\ \A i, j \in 1 .. n : i < j => r[i] < r[j]
  BY LenProperties, ElementOfSeq DEF IsInOrder
<1> HIDE DEF n
<1>2. PICK k \in K : \A j \in K : k <= j
  <2>1. n + 1 \in K /\ K \in SUBSET Nat
    BY <1>1
  <2> HIDE DEF K
  <2> QED BY <2>1, LeastNumber
<1>3. k \in 1 .. n + 1 /\ k \in Nat /\ k - 1 \in 0 .. n
  BY <1>1
<1>4. ASSUME NEW i \in 1 .. n PROVE i <= k - 1 <=> r[i] <= o
  <2>1. CASE i < k
    <3>1. i \notin K /\ i \in 1 .. n + 1 /\ i # n + 1
      BY <1>1, <1>2, <1>3, <2>1
    <3>2. ~ (r[i] > o)
      BY <3>1
    <3>3. i <= k - 1 /\ r[i] \in Int
      BY <1>1, <1>3, <2>1
    <3> QED BY <3>2, <3>3
  <2>2. CASE ~ (i < k)
    <3>1. k \in 1 .. n /\ r[k] > o /\ (k = i \/ k < i) /\ ~ (i <= k - 1)
      BY <1>1, <1>2, <1>3, <2>2
    <3>2. r[k] \in Int /\ r[i] \in Int /\ (k < i => r[k] < r[i])
      BY <1>1, <3>1
    <3> QED BY <3>1, <3>2
  <2> QED BY <2>1, <2>2
<1>5. {j \in 1 .. n : r[j] <= o} = 1 .. k - 1
  <2>1. \A j \in 1 .. k - 1 : j \in 1 .. n
    BY <1>1, <1>3
  <2>2. \A j \in 1 .. n : r[j] <= o => j \in 1 .. k - 1
    BY <1>3, <1>4
  <2>3. \A j \in 1 .. k - 1 : r[j] <= o
    BY <1>3, <1>4, <2>1
  <2> QED BY <2>1, <2>2, <2>3
<1>6. f = k - 1
  <2>1. k - 1 \in Int /\ 1 \in Int /\ k - 1 >= 0
    BY <1>3
  <2>2. Cardinality(1 .. k - 1) = IF 1 > k - 1 THEN 0 ELSE k - 1 - 1 + 1
    BY <2>1, FS_Interval
  <2>3. f = Cardinality(1 .. k - 1)
    BY <1>5 DEF n
  <2> QED BY <2>1, <2>2, <2>3
<1> QED BY <1>3, <1>4, <1>6 DEF n

\* A set of places moved by d has as many members.
LEMMA MovedCount ==
  ASSUME NEW S, S \in SUBSET Int, IsFiniteSet(S), NEW d \in Int
  PROVE  /\ IsFiniteSet({x + d : x \in S})
         /\ Cardinality({x + d : x \in S}) = Cardinality(S)
<1> DEFINE T == {x + d : x \in S}
           f == [x \in S |-> x + d]
<1>1. f \in [S -> T] /\ \A x \in S : f[x] = x + d /\ x \in Int
  OBVIOUS
<1>2. \A y \in T : \E x \in S : y = x + d
  OBVIOUS
<1> HIDE DEF f, T
<1>3. ASSUME NEW x \in S, NEW y \in S, f[x] = f[y] PROVE x = y
  BY <1>1, <1>3
<1>4. f \in Injection(S, T)
  BY <1>1, <1>3 DEF Injection, IsInjective
<1>5. f \in Surjection(S, T)
  BY <1>1, <1>2 DEF Surjection
<1>6. ExistsBijection(S, T)
  BY <1>4, <1>5 DEF ExistsBijection, Bijection
<1>7. IsFiniteSet(T) /\ Cardinality(T) = Cardinality(S)
  BY <1>6, FS_Bijection
<1> QED BY <1>7 DEF T

-----------------------------------------------------------------------------
(* The rows.                                                                *)

\* The offsets at which the lines of a text start.
Starts(t) == {0} \cup {i \in 1 .. Len(t) : t[i] = NL}

LEMMA StartsAre ==
  ASSUME NEW t, Len(t) \in Nat
  PROVE  IsPlaces(Starts(t)) /\ \A x \in Starts(t) : x \in 0 .. Len(t)
<1>1. \A x \in Starts(t) : x \in 0 .. Len(t)
  BY DEF Starts
<1>2. Starts(t) \in SUBSET (0 .. Len(t)) /\ Len(t) \in Int
  BY <1>1
<1> QED BY <1>1, <1>2 DEF IsPlaces

\* LineStarts gives them in their order.
LEMMA LineStartsAre ==
  ASSUME NEW t, Len(t) \in Nat
  PROVE  LineStarts(t) = InOrder(Starts(t))
<1> DEFINE N == {i \in (0 + 1) .. Len(t) : i <= Len(t) /\ t[i] = NL}
           s == InOrder(N)
<1>1. N \in SUBSET (0 .. Len(t)) /\ Len(t) \in Int /\ \A y \in N : 0 < y
  OBVIOUS
<1>2. IsInOrder(s, N)
  <2>1. IsPlaces(N)
    BY <1>1 DEF IsPlaces
  <2> HIDE DEF N
  <2> QED BY <2>1, InOrderIs
<1>3. LineStarts(t) = << 0 >> \o s
  BY DEF LineStarts, NewLines
<1>4. Starts(t) = {0} \cup N
  BY DEF Starts
<1> HIDE DEF N, s
<1>5. IsInOrder(<< 0 >>, {0})
  <2>1. << 0 >> \in Seq(Int) /\ Len(<< 0 >>) = 1 /\ << 0 >>[1] = 0
    OBVIOUS
  <2> HIDE DEF IsInOrder
  <2>2. PICK r : r = << 0 >>
    OBVIOUS
  <2>3. r \in Seq(Int) /\ Len(r) = 1 /\ r[1] = 0
    BY <2>1, <2>2
  <2>4. IsInOrder(r, {0})
    BY <2>3 DEF IsInOrder
  <2> QED BY <2>2, <2>4
<1>6. \A x \in {0}, y \in N : x < y
  BY <1>1
<1>7. IsInOrder(<< 0 >> \o s, {0} \cup N)
  BY <1>2, <1>5, <1>6, InOrderConcat
<1>8. IsPlaces(Starts(t))
  BY StartsAre
<1> QED BY <1>3, <1>4, <1>7, <1>8, InOrderOnly

\* The text u is t with m other characters in place of the n after offset at.
Edited(u, t, at, n, m) ==
  /\ Len(t) \in Nat /\ Len(u) \in Nat /\ at \in Nat /\ n \in Nat /\ m \in Nat
  /\ at + n <= Len(t) /\ Len(u) = Len(t) - n + m
  /\ \A i \in 1 .. at : u[i] = t[i]
  /\ \A i \in at + m + 1 .. Len(u) : u[i] = t[i - m + n]

\* The lines before the edit start where they did, those behind it moved with the text.
LEMMA EditedStarts ==
  ASSUME NEW u, NEW t, NEW at, NEW n, NEW m, Edited(u, t, at, n, m), NEW x \in Int
  PROVE  /\ x <= at => (x \in Starts(u) <=> x \in Starts(t))
         /\ x > at + m => (x \in Starts(u) <=> x - m + n \in Starts(t))
<1>1. /\ Len(t) \in Nat /\ Len(u) \in Nat /\ at \in Nat /\ n \in Nat /\ m \in Nat
      /\ at + n <= Len(t) /\ Len(u) = Len(t) - n + m
      /\ \A i \in 1 .. at : u[i] = t[i]
      /\ \A i \in at + m + 1 .. Len(u) : u[i] = t[i - m + n]
  BY DEF Edited
<1>2. ASSUME x <= at PROVE x \in Starts(u) <=> x \in Starts(t)
  <2>1. x \in 1 .. Len(u) <=> x \in 1 .. Len(t)
    BY <1>1, <1>2
  <2>2. x \in 1 .. Len(t) => u[x] = t[x]
    <3>1. x \in 1 .. Len(t) => x \in 1 .. at
      BY <1>1, <1>2
    <3>2. \A i \in 1 .. at : u[i] = t[i]
      BY <1>1
    <3> QED BY <3>1, <3>2
  <2> QED BY <2>1, <2>2 DEF Starts
<1>3. ASSUME x > at + m PROVE x \in Starts(u) <=> x - m + n \in Starts(t)
  <2> DEFINE y == x - m + n
  <2>1. /\ x \in 1 .. Len(u) <=> y \in 1 .. Len(t)
        /\ x # 0 /\ y # 0
    BY <1>1, <1>3
  <2>2. x \in 1 .. Len(u) => u[x] = t[y]
    <3>1. x \in 1 .. Len(u) => x \in at + m + 1 .. Len(u)
      BY <1>1, <1>3
    <3> QED BY <1>1, <3>1
  <2> HIDE DEF y
  <2>3. x \in Starts(u) <=> y \in Starts(t)
    BY <2>1, <2>2 DEF Starts
  <2> QED BY <2>3 DEF y
<1> QED BY <1>2, <1>3

\* The rows that an edit repairs are the rows of the new text.
LEMMA RowsAre ==
  ASSUME NEW u, NEW t, NEW at, NEW n, NEW m, Edited(u, t, at, n, m), rowTable = InOrder(Starts(t))
  PROVE  UpdateRows(u, at, at + m, m - n) = InOrder(Starts(u))
<1> DEFINE r == rowTable
           found == FindRowNumber(at)
           start == IF found > 1 THEN found - 1 ELSE 1
           end == FindNextLineFrom(u, at + m)
           rest == FindRowNumber(end - (m - n))
           after == SubSeq(r, rest + 1, Len(r))
           A == {x \in Starts(t) : x <= r[start]}
           N == {i \in r[start] + 1 .. end : i <= Len(u) /\ u[i] = NL}
           B == {x \in Starts(t) : x > end - (m - n)}
           M == {x + (m - n) : x \in B}
<1>1. /\ Len(t) \in Nat /\ Len(u) \in Nat /\ at \in Nat /\ n \in Nat /\ m \in Nat
      /\ at + n <= Len(t) /\ Len(u) = Len(t) - n + m
  BY DEF Edited
<1>2. IsInOrder(r, Starts(t)) /\ \A x \in Starts(t) : x \in 0 .. Len(t)
  BY <1>1, StartsAre, InOrderIs
<1>3. IsPlaces(Starts(u)) /\ \A x \in Starts(u) : x \in 0 .. Len(u)
  BY <1>1, StartsAre
<1>4. found \in 0 .. Len(r) /\ \A i \in 1 .. Len(r) : i <= found <=> r[i] <= at
  <2>1. found = Cardinality({k \in 1 .. Len(r) : r[k] <= at}) /\ at \in Int
    BY <1>1 DEF FindRowNumber
  <2> HIDE DEF found, r
  <2> QED BY <1>2, <2>1, CountIs
<1>5. Len(r) \in Nat /\ \A i \in 1 .. Len(r) : r[i] \in 0 .. Len(t)
  BY <1>2, LenProperties DEF IsInOrder
<1>6. start \in 1 .. Len(r) /\ start <= found
  <2>1. PICK i \in 1 .. Len(r) : r[i] = 0
    BY <1>2 DEF IsInOrder, Starts
  <2>2. found >= 1
    BY <1>1, <1>4, <1>5, <2>1
  <2> HIDE DEF found, r
  <2> QED BY <2>2, <1>4, <1>5
<1>7. r[start] \in Nat /\ r[start] <= at
  <2> HIDE DEF found, start, r
  <2> QED BY <1>4, <1>5, <1>6
<1>8. end \in Nat /\ at + m < end
  <2> DEFINE ahead == {i \in at + m + 1 .. Len(u) : u[i] = NL}
  <2>1. ahead \in SUBSET Nat /\ \A i \in ahead : at + m < i
    BY <1>1
  <2>2. CASE ahead = {}
    <3>1. end = Len(u) + 1
      BY <2>2 DEF FindNextLineFrom
    <3> QED BY <3>1, <1>1
  <2>3. CASE ahead # {}
    <3>1. end = CHOOSE i \in ahead : \A j \in ahead : i <= j
      BY <2>3 DEF FindNextLineFrom
    <3> HIDE DEF end, ahead
    <3>2. end \in ahead
      BY <3>1, <2>1, <2>3, LeastNumber
    <3> QED BY <2>1, <3>2
  <2> QED BY <2>2, <2>3
<1>9. IsInOrder(after, B)
  <2>1. end - (m - n) \in Int
    BY <1>1, <1>8
  <2> HIDE DEF end
  <2>2. rest \in 0 .. Len(r) /\ \A i \in 1 .. Len(r) : i <= rest <=> r[i] <= end - (m - n)
    BY <2>1, <1>2, CountIs DEF FindRowNumber
  <2> HIDE DEF rest, r
  <2> QED BY <2>1, <2>2, <1>2, InOrderSuffix
<1>10. IsInOrder([i \in 1 .. Len(after) |-> after[i] + (m - n)], M)
  <2> HIDE DEF after, B
  <2> QED BY <1>9, <1>1, InOrderMoved
<1>11. IsInOrder(NewLines(u, r[start], end), N)
  <2>1. IsPlaces(N)
    <3> HIDE DEF r, start, end
    <3>1. N \in SUBSET (0 .. end)
      BY <1>7, <1>8
    <3>2. end \in Int
      BY <1>8
    <3> HIDE DEF N
    <3> QED BY <3>1, <3>2 DEF IsPlaces
  <2> HIDE DEF r, start, end
  <2>2. NewLines(u, r[start], end) = InOrder(N)
    BY DEF NewLines
  <2> QED BY <2>1, <2>2, InOrderIs
<1>12. IsInOrder(SubSeq(r, 1, start), A)
  <2> HIDE DEF start
  <2> QED BY <1>2, <1>6, InOrderPrefix
<1> HIDE DEF found, start, end, rest, after, r
<1>13. IsInOrder(SubSeq(r, 1, start) \o NewLines(u, r[start], end), A \cup N)
  <2>1. \A x \in A, y \in N : x < y
    BY <1>2, <1>7, <1>8
  <2> HIDE DEF A, N
  <2> QED BY <2>1, <1>11, <1>12, InOrderConcat
<1>14. IsInOrder((SubSeq(r, 1, start) \o NewLines(u, r[start], end))
                 \o [i \in 1 .. Len(after) |-> after[i] + (m - n)], (A \cup N) \cup M)
  <2>1. \A x \in A \cup N, y \in M : x < y
    <3>1. \A x \in A \cup N : x \in Int /\ x <= end
      BY <1>1, <1>2, <1>7, <1>8
    <3>2. \A y \in M : y \in Int /\ end < y
      BY <1>1, <1>2, <1>8
    <3> HIDE DEF A, N, M
    <3> QED BY <3>1, <3>2, <1>8
  <2> HIDE DEF A, N, M
  <2> QED BY <2>1, <1>10, <1>13, InOrderConcat
<1>15. (A \cup N) \cup M = Starts(u)
  <2>1. ASSUME NEW x \in A PROVE x \in Starts(u)
    <3>1. x \in Int /\ x <= at /\ x \in Starts(t)
      BY <1>2, <1>7, <1>1
    <3> QED BY <3>1, EditedStarts
  <2>2. ASSUME NEW x \in N PROVE x \in Starts(u)
    BY <1>1, <1>7, <1>8 DEF Starts
  <2>3. ASSUME NEW x \in M PROVE x \in Starts(u)
    <3>1. PICK y \in B : x = y + (m - n)
      OBVIOUS
    <3>2. y \in Starts(t) /\ y \in Int /\ y > end - (m - n)
      BY <1>1, <1>2
    <3> HIDE DEF M, B
    <3>3. x \in Int /\ x > at + m /\ x - m + n = y
      BY <3>1, <3>2, <1>1, <1>8
    <3> QED BY <3>2, <3>3, EditedStarts
  <2>4. ASSUME NEW x \in Starts(u) PROVE x \in (A \cup N) \cup M
    <3>1. x \in 0 .. Len(u)
      BY <1>3
    <3>2. CASE x <= r[start]
      <4>1. x \in Int /\ x <= at
        BY <3>1, <3>2, <1>1, <1>7
      <4>2. x \in Starts(t)
        BY <4>1, EditedStarts
      <4> QED BY <3>2, <4>2
    <3>3. CASE r[start] < x /\ x <= end
      <4>1. x \in r[start] + 1 .. end /\ x <= Len(u) /\ x # 0
        BY <3>1, <3>3, <1>7, <1>8
      <4>2. u[x] = NL
        BY <4>1 DEF Starts
      <4> QED BY <4>1, <4>2
    <3>4. CASE end < x
      <4>1. x \in Int /\ x > at + m
        BY <3>1, <3>4, <1>1, <1>8
      <4>2. x - m + n \in Starts(t)
        BY <4>1, EditedStarts
      <4>3. x - m + n > end - (m - n) /\ x = (x - m + n) + (m - n)
        BY <4>1, <3>4, <1>1, <1>8
      <4>4. x - m + n \in B
        BY <4>2, <4>3
      <4> HIDE DEF B
      <4> QED BY <4>3, <4>4
    <3>5. x <= r[start] \/ (r[start] < x /\ x <= end) \/ end < x
      BY <3>1, <1>7, <1>8
    <3> HIDE DEF A, N, M, B
    <3> QED BY <3>2, <3>3, <3>4, <3>5
  <2> HIDE DEF A, N, M
  <2> QED BY <2>1, <2>2, <2>3, <2>4
<1>16. UpdateRows(u, at, at + m, m - n) =
         (SubSeq(r, 1, start) \o NewLines(u, r[start], end))
           \o [i \in 1 .. Len(after) |-> after[i] + (m - n)]
  BY DEF UpdateRows, found, start, end, rest, after, r
<1> HIDE DEF A, N, M
<1> QED BY <1>3, <1>14, <1>15, <1>16, InOrderOnly

\* The newlines among n cells of an array are those of the piece of text they hold.
LEMMA CountInIs ==
  ASSUME NEW c, NEW from \in Int, NEW n \in Nat, NEW t, NEW at \in Int,
         \A i \in 1 .. n : t[at + i] = c[from + i - 1]
  PROVE  /\ CountIn(c, from, n) = Cardinality({i \in at + 1 .. at + n : t[i] = NL})
         /\ CountIn(c, from, n) \in Nat
<1> DEFINE S == {i \in from .. from + n - 1 : c[i] = NL}
           T == {i \in at + 1 .. at + n : t[i] = NL}
           d == at - from + 1
<1>1. IsFiniteSet(S) /\ S \in SUBSET Int
  <2>1. IsFiniteSet(from .. from + n - 1) /\ S \in SUBSET (from .. from + n - 1)
    <3>1. from + n - 1 \in Int
      OBVIOUS
    <3> QED BY <3>1, FS_Interval
  <2>2. S \in SUBSET Int
    OBVIOUS
  <2> HIDE DEF S
  <2> QED BY <2>1, <2>2, FS_Subset
<1>2. {x + d : x \in S} = T
  <2>1. ASSUME NEW x \in S PROVE x + d \in T
    <3>1. x - from + 1 \in 1 .. n /\ at + (x - from + 1) = x + d /\ from + (x - from + 1) - 1 = x
      OBVIOUS
    <3>2. t[x + d] = c[x]
      BY <3>1
    <3> QED BY <3>1, <3>2
  <2>2. ASSUME NEW y \in T PROVE y - d \in S /\ y = (y - d) + d
    <3>1. y - at \in 1 .. n /\ at + (y - at) = y /\ from + (y - at) - 1 = y - d
      OBVIOUS
    <3>2. t[y] = c[y - d]
      BY <3>1
    <3> QED BY <3>1, <3>2
  <2> HIDE DEF S, T, d
  <2> QED BY <2>1, <2>2
<1>3. d \in Int
  OBVIOUS
<1>4. Cardinality(T) = Cardinality(S)
  <2> HIDE DEF S, T, d
  <2> QED BY <1>1, <1>2, <1>3, MovedCount
<1> QED BY <1>1, <1>4, FS_CardinalityType DEF CountIn

\* Two sets, and three, apart from each other.
LEMMA CountTwo ==
  ASSUME NEW A, NEW B, IsFiniteSet(A), IsFiniteSet(B), A \cap B = {}
  PROVE  /\ IsFiniteSet(A \cup B) /\ Cardinality(A \cup B) = Cardinality(A) + Cardinality(B)
         /\ Cardinality(A) \in Nat /\ Cardinality(B) \in Nat
<1>1. IsFiniteSet(A \cup B) /\ Cardinality(A \cup B) = Cardinality(A) + Cardinality(B) - Cardinality(A \cap B)
  BY FS_Union
<1>2. Cardinality(A \cap B) = 0
  BY FS_EmptySet
<1>3. Cardinality(A) \in Nat /\ Cardinality(B) \in Nat
  BY FS_CardinalityType
<1> QED BY <1>1, <1>2, <1>3

LEMMA CountParts ==
  ASSUME NEW A, NEW X, NEW B, IsFiniteSet(A), IsFiniteSet(X), IsFiniteSet(B),
         A \cap X = {}, (A \cup X) \cap B = {}
  PROVE  /\ Cardinality((A \cup X) \cup B) = Cardinality(A) + Cardinality(X) + Cardinality(B)
         /\ Cardinality(A) \in Nat /\ Cardinality(X) \in Nat /\ Cardinality(B) \in Nat
<1> DEFINE D == A \cup X
<1>1. /\ IsFiniteSet(D) /\ Cardinality(D) = Cardinality(A) + Cardinality(X)
      /\ Cardinality(A) \in Nat /\ Cardinality(X) \in Nat
  BY CountTwo
<1>2. D \cap B = {}
  OBVIOUS
<1> HIDE DEF D
<1>3. Cardinality(D \cup B) = Cardinality(D) + Cardinality(B) /\ Cardinality(B) \in Nat
  BY <1>1, <1>2, CountTwo
<1> QED BY <1>1, <1>3 DEF D

\* An edit adds the newlines it brings and takes those it removes.
LEMMA LinesCounted ==
  ASSUME NEW u, NEW t, NEW at, NEW n, NEW m, Edited(u, t, at, n, m)
  PROVE  /\ Cardinality(Starts(u)) = Cardinality(Starts(t))
              - Cardinality({i \in at + 1 .. at + n : t[i] = NL})
              + Cardinality({i \in at + 1 .. at + m : u[i] = NL})
         /\ Cardinality({i \in at + 1 .. at + n : t[i] = NL}) \in Nat
         /\ Cardinality({i \in at + 1 .. at + m : u[i] = NL}) \in Nat
         /\ Cardinality(Starts(t)) \in Nat
<1> DEFINE A == {x \in Starts(t) : x <= at}
           X == {i \in at + 1 .. at + n : t[i] = NL}
           Y == {i \in at + 1 .. at + m : u[i] = NL}
           B == {x \in Starts(t) : x > at + n}
           M == {x + (m - n) : x \in B}
<1>1. /\ Len(t) \in Nat /\ Len(u) \in Nat /\ at \in Nat /\ n \in Nat /\ m \in Nat
      /\ at + n <= Len(t) /\ Len(u) = Len(t) - n + m
  BY DEF Edited
<1>2. IsPlaces(Starts(t)) /\ \A x \in Starts(t) : x \in 0 .. Len(t)
  BY <1>1, StartsAre
<1>3. IsPlaces(Starts(u)) /\ \A x \in Starts(u) : x \in 0 .. Len(u)
  BY <1>1, StartsAre
<1>4. (A \cup X) \cup B = Starts(t)
  <2>1. X \in SUBSET Starts(t)
    BY <1>1 DEF Starts
  <2>2. ASSUME NEW x \in Starts(t), x > at, x <= at + n PROVE x \in X
    <3>1. x \in at + 1 .. at + n /\ x # 0
      BY <1>1, <1>2, <2>2
    <3>2. t[x] = NL
      BY <3>1 DEF Starts
    <3> QED BY <3>1, <3>2
  <2>3. \A x \in Starts(t) : x <= at \/ (x > at /\ x <= at + n) \/ x > at + n
    BY <1>1, <1>2
  <2> HIDE DEF X
  <2> QED BY <2>1, <2>2, <2>3
<1>5. (A \cup Y) \cup M = Starts(u)
  <2>1. ASSUME NEW x \in A PROVE x \in Starts(u)
    <3>1. x \in Int /\ x <= at /\ x \in Starts(t)
      BY <1>2, <1>1
    <3> QED BY <3>1, EditedStarts
  <2>2. Y \in SUBSET Starts(u)
    BY <1>1 DEF Starts
  <2>3. ASSUME NEW x \in M PROVE x \in Starts(u)
    <3>1. PICK y \in B : x = y + (m - n)
      OBVIOUS
    <3>2. y \in Starts(t) /\ y \in Int /\ y > at + n
      BY <1>1, <1>2
    <3> HIDE DEF M, B
    <3>3. x \in Int /\ x > at + m /\ x - m + n = y
      BY <3>1, <3>2, <1>1
    <3> QED BY <3>2, <3>3, EditedStarts
  <2>4. ASSUME NEW x \in Starts(u) PROVE x \in (A \cup Y) \cup M
    <3>1. x \in 0 .. Len(u)
      BY <1>3
    <3>2. CASE x <= at
      <4>1. x \in Int
        BY <3>1
      <4>2. x \in Starts(t)
        BY <4>1, <3>2, EditedStarts
      <4> QED BY <3>2, <4>2
    <3>3. CASE at < x /\ x <= at + m
      <4>1. x \in at + 1 .. at + m /\ x # 0
        BY <3>1, <3>3, <1>1
      <4>2. u[x] = NL
        BY <4>1 DEF Starts
      <4> QED BY <4>1, <4>2
    <3>4. CASE at + m < x
      <4>1. x \in Int /\ x > at + m
        BY <3>1, <3>4, <1>1
      <4>2. x - m + n \in Starts(t)
        BY <4>1, EditedStarts
      <4>3. x - m + n > at + n /\ x = (x - m + n) + (m - n)
        BY <4>1, <3>4, <1>1
      <4>4. x - m + n \in B
        BY <4>2, <4>3
      <4> HIDE DEF B
      <4> QED BY <4>3, <4>4
    <3> QED BY <3>1, <3>2, <3>3, <3>4, <1>1
  <2> HIDE DEF A, Y, M
  <2> QED BY <2>1, <2>2, <2>3, <2>4
<1>6. IsFiniteSet(A) /\ IsFiniteSet(B) /\ IsFiniteSet(X) /\ IsFiniteSet(Y) /\ Cardinality(Starts(t)) \in Nat
  <2>1. X \in SUBSET Starts(t) /\ Y \in SUBSET Starts(u)
    BY <1>4, <1>5
  <2> HIDE DEF X, Y
  <2> QED BY <1>2, <1>3, <2>1, PlacesAre
<1>7. B \in SUBSET Int /\ m - n \in Int
  BY <1>1, <1>2
<1>8. IsFiniteSet(M) /\ Cardinality(M) = Cardinality(B)
  <2> HIDE DEF B
  <2> QED BY <1>6, <1>7, MovedCount
<1>9. /\ A \cap X = {} /\ A \cap Y = {} /\ (A \cup X) \cap B = {} /\ (A \cup Y) \cap M = {}
  <2>1. \A x \in A : x \in Int /\ x <= at
    BY <1>1, <1>2
  <2>2. \A x \in X : x \in Int /\ at < x /\ x <= at + n
    BY <1>1
  <2>3. \A x \in Y : x \in Int /\ at < x /\ x <= at + m
    BY <1>1
  <2>4. \A x \in B : x \in Int /\ at + n < x
    BY <1>1, <1>2
  <2>5. \A x \in M : x \in Int /\ at + m < x
    BY <1>1, <1>2
  <2> HIDE DEF A, X, Y, B, M
  <2> QED BY <1>1, <2>1, <2>2, <2>3, <2>4, <2>5
<1> HIDE DEF A, X, Y, B, M
<1>10. /\ Cardinality(Starts(t)) = Cardinality(A) + Cardinality(X) + Cardinality(B)
       /\ Cardinality(A) \in Nat /\ Cardinality(X) \in Nat /\ Cardinality(B) \in Nat
  BY <1>4, <1>6, <1>9, CountParts
<1>11. /\ Cardinality(Starts(u)) = Cardinality(A) + Cardinality(Y) + Cardinality(M)
       /\ Cardinality(Y) \in Nat
  BY <1>5, <1>6, <1>8, <1>9, CountParts
<1>12. /\ Cardinality(Starts(u)) = Cardinality(Starts(t)) - Cardinality(X) + Cardinality(Y)
       /\ Cardinality(X) \in Nat /\ Cardinality(Y) \in Nat /\ Cardinality(Starts(t)) \in Nat
  BY <1>6, <1>8, <1>10, <1>11
<1> QED BY <1>12 DEF X, Y

-----------------------------------------------------------------------------
(* The cache.                                                               *)

\* The nearest entry is one of the entries: the first of those with the least distance.
LEMMA NearestIs ==
  ASSUME NEW d \in [1 .. CacheSize -> Nat]
  PROVE  Nearest(d) \in 1 .. CacheSize /\ \A j \in 1 .. CacheSize : d[Nearest(d)] <= d[j]
<1> DEFINE V == {d[k] : k \in 1 .. CacheSize}
<1>1. CacheSize \in Nat /\ 1 \in 1 .. CacheSize
  BY SizeAssumption
<1>2. PICK v \in V : \A w \in V : v <= w
  <2>1. V \in SUBSET Nat /\ V # {}
    BY <1>1
  <2> HIDE DEF V
  <2> QED BY <2>1, LeastNumber
<1> DEFINE K == {k \in 1 .. CacheSize : d[k] = v}
<1>3. PICK k \in K : \A j \in K : k <= j
  <2>1. K \in SUBSET Nat /\ K # {}
    BY <1>1, <1>2
  <2> HIDE DEF K
  <2> QED BY <2>1, LeastNumber
<1>4. k \in 1 .. CacheSize /\ d[k] = v /\ v \in Nat
  BY <1>2, <1>3
<1>5. \A j \in 1 .. CacheSize : d[k] < d[j] \/ (d[k] = d[j] /\ k <= j)
  <2>1. ASSUME NEW j \in 1 .. CacheSize PROVE d[k] < d[j] \/ (d[k] = d[j] /\ k <= j)
    <3>1. v <= d[j] /\ d[j] \in Nat
      BY <1>2
    <3>2. CASE d[j] = v
      BY <1>3, <1>4, <3>2
    <3>3. CASE d[j] # v
      BY <1>4, <3>1, <3>3
    <3> QED BY <3>2, <3>3
  <2> QED BY <2>1
<1> DEFINE Is(q) == \A j \in 1 .. CacheSize : d[q] < d[j] \/ (d[q] = d[j] /\ q <= j)
<1>6. Nearest(d) \in 1 .. CacheSize /\ Is(Nearest(d))
  <2>1. \E q \in 1 .. CacheSize : Is(q)
    BY <1>4, <1>5
  <2>2. Nearest(d) = CHOOSE q \in 1 .. CacheSize : Is(q)
    BY DEF Nearest
  <2> HIDE DEF Is
  <2> QED BY <2>1, <2>2
<1>7. \A j \in 1 .. CacheSize : d[j] \in Nat
  OBVIOUS
<1> QED BY <1>6, <1>7

Entry == [line : Int, offset : Int]

\* Entries of lines and offsets, the first one of the start of the text.
IsCache(c) == c \in [1 .. CacheSize -> Entry] /\ c[1] = EmptyCache[1]

CacheInv == IsCache(cache) /\ stale \in BOOLEAN

LEMMA EntryIs ==
  ASSUME NEW c, IsCache(c), NEW k \in 1 .. CacheSize
  PROVE  c[k] \in Entry /\ c[k].line \in Int /\ c[k].offset \in Int
BY DEF IsCache, Entry

LEMMA MakeHeadIs ==
  ASSUME IsCache(cache), NEW k \in 1 .. CacheSize
  PROVE  IsCache(MakeHead(k))
<1>1. CacheSize \in Nat /\ 1 \in 1 .. CacheSize
  BY SizeAssumption
<1> DEFINE e(j) == IF k = 1 \/ j = 1 \/ j > k THEN cache[j] ELSE IF j = 2 THEN cache[k] ELSE cache[j - 1]
<1>2. MakeHead(k) = [j \in 1 .. CacheSize |-> e(j)]
  BY DEF MakeHead
<1>3. ASSUME NEW j \in 1 .. CacheSize PROVE e(j) \in Entry
  <2>1. CASE k = 1 \/ j = 1 \/ j > k
    BY <2>1 DEF IsCache
  <2>2. CASE ~ (k = 1 \/ j = 1 \/ j > k) /\ j = 2
    BY <2>2 DEF IsCache
  <2>3. CASE ~ (k = 1 \/ j = 1 \/ j > k) /\ j # 2
    <3>1. j - 1 \in 1 .. CacheSize
      BY <1>1, <2>3
    <3> QED BY <2>3, <3>1 DEF IsCache
  <2> QED BY <2>1, <2>2, <2>3
<1>4. e(1) = EmptyCache[1]
  BY DEF IsCache
<1> HIDE DEF e
<1> QED BY <1>1, <1>2, <1>3, <1>4 DEF IsCache

LEMMA InvalidateIs ==
  ASSUME IsCache(cache), NEW from
  PROVE  IsCache(Invalidate(from))
<1>1. CacheSize \in Nat /\ 1 \in 1 .. CacheSize
  BY SizeAssumption
<1> DEFINE e(k) == IF k > 1 /\ cache[k].offset >= from THEN NoEntry ELSE cache[k]
<1>2. Invalidate(from) = [k \in 1 .. CacheSize |-> e(k)]
  BY DEF Invalidate
<1>3. ASSUME NEW k \in 1 .. CacheSize PROVE e(k) \in Entry
  BY DEF IsCache, NoEntry, Entry
<1>4. e(1) = EmptyCache[1]
  BY DEF IsCache
<1> HIDE DEF e
<1> QED BY <1>1, <1>2, <1>3, <1>4 DEF IsCache

LEMMA UpdateEntryIs ==
  ASSUME NEW c, IsCache(c), NEW l \in Int, NEW o \in Int
  PROVE  IsCache(UpdateEntry(c, l, o))
<1> DEFINE known == {k \in 2 .. CacheSize : c[k].line = l}
           entry == [line |-> l, offset |-> o]
           p == CHOOSE k \in known : \A j \in known : k <= j
           e(k) == IF k = 1 THEN c[1] ELSE IF k = 2 THEN entry ELSE c[k - 1]
<1>1. CacheSize \in Nat /\ 1 \in 1 .. CacheSize /\ entry \in Entry
  BY SizeAssumption DEF Entry
<1>2. CASE l <= 0
  BY <1>2 DEF UpdateEntry
<1>3. CASE l > 0 /\ known # {}
  <2>1. p \in known
    <3>1. known \in SUBSET Nat
      OBVIOUS
    <3> HIDE DEF known
    <3>2. \E k \in known : \A j \in known : k <= j
      BY <1>3, <3>1, LeastNumber
    <3> QED BY <3>2
  <2>2. p \in 1 .. CacheSize /\ p # 1
    <3> HIDE DEF p
    <3> QED BY <2>1
  <2>3. UpdateEntry(c, l, o) = [c EXCEPT ![p] = entry]
    BY <1>3 DEF UpdateEntry
  <2> HIDE DEF p, entry
  <2>4. [c EXCEPT ![p] = entry] \in [1 .. CacheSize -> Entry] /\ [c EXCEPT ![p] = entry][1] = c[1]
    BY <1>1, <2>2 DEF IsCache
  <2> QED BY <2>3, <2>4 DEF IsCache
<1>4. CASE l > 0 /\ known = {}
  <2>1. UpdateEntry(c, l, o) = [k \in 1 .. CacheSize |-> e(k)]
    BY <1>4 DEF UpdateEntry
  <2> HIDE DEF entry
  <2>2. ASSUME NEW k \in 1 .. CacheSize PROVE e(k) \in Entry
    <3>1. CASE k = 1
      BY <1>1, <3>1 DEF IsCache
    <3>2. CASE k = 2
      BY <1>1, <3>2
    <3>3. CASE k # 1 /\ k # 2
      <4>1. k - 1 \in 1 .. CacheSize
        BY <1>1, <3>3
      <4> QED BY <3>3, <4>1 DEF IsCache
    <3> QED BY <3>1, <3>2, <3>3
  <2>3. e(1) = c[1]
    OBVIOUS
  <2> HIDE DEF e
  <2> QED BY <1>1, <2>1, <2>2, <2>3 DEF IsCache
<1> QED BY <1>2, <1>3, <1>4

\* The nearest entry to a line or an offset.
LEMMA NearestEntryIs ==
  ASSUME IsCache(cache), NEW x \in Int
  PROVE  /\ NearestLine(x) \in 1 .. CacheSize /\ NearestOffset(x) \in 1 .. CacheSize
         /\ x >= 0 => cache[NearestLine(x)] # NoEntry /\ cache[NearestOffset(x)] # NoEntry
<1>1. \A n \in Int : Abs(n) \in Nat
  BY DEF Abs
<1>2. \A k \in 1 .. CacheSize : cache[k].line \in Int /\ cache[k].offset \in Int
  BY EntryIs
<1>3. 1 \in 1 .. CacheSize /\ cache[1].line = 0 /\ cache[1].offset = 0
  BY SizeAssumption DEF IsCache, EmptyCache
<1>4. x >= 0 => Abs(x - 0) = x /\ Abs(x - (-1)) = x + 1
  BY DEF Abs
<1>5. NearestLine(x) \in 1 .. CacheSize /\ (x >= 0 => cache[NearestLine(x)].line # -1)
  <2> DEFINE d == [k \in 1 .. CacheSize |-> Abs(x - cache[k].line)]
  <2>1. \A k \in 1 .. CacheSize : Abs(x - cache[k].line) \in Nat
    BY <1>1, <1>2
  <2>2. d \in [1 .. CacheSize -> Nat] /\ \A k \in 1 .. CacheSize : d[k] = Abs(x - cache[k].line)
    BY <2>1
  <2> HIDE DEF d
  <2>3. Nearest(d) \in 1 .. CacheSize /\ d[Nearest(d)] <= d[1]
    BY <1>3, <2>2, NearestIs
  <2>4. NearestLine(x) = Nearest(d)
    BY DEF NearestLine, d
  <2>5. x >= 0 => d[1] = x
    BY <1>3, <1>4, <2>2
  <2>6. cache[Nearest(d)].line = -1 /\ x >= 0 => d[Nearest(d)] = x + 1
    BY <1>4, <2>2, <2>3
  <2> QED BY <2>3, <2>4, <2>5, <2>6
<1>6. NearestOffset(x) \in 1 .. CacheSize /\ (x >= 0 => cache[NearestOffset(x)].offset # -1)
  <2> DEFINE d == [k \in 1 .. CacheSize |-> Abs(x - cache[k].offset)]
  <2>1. \A k \in 1 .. CacheSize : Abs(x - cache[k].offset) \in Nat
    BY <1>1, <1>2
  <2>2. d \in [1 .. CacheSize -> Nat] /\ \A k \in 1 .. CacheSize : d[k] = Abs(x - cache[k].offset)
    BY <2>1
  <2> HIDE DEF d
  <2>3. Nearest(d) \in 1 .. CacheSize /\ d[Nearest(d)] <= d[1]
    BY <1>3, <2>2, NearestIs
  <2>4. NearestOffset(x) = Nearest(d)
    BY DEF NearestOffset, d
  <2>5. x >= 0 => d[1] = x
    BY <1>3, <1>4, <2>2
  <2>6. cache[Nearest(d)].offset = -1 /\ x >= 0 => d[Nearest(d)] = x + 1
    BY <1>4, <2>2, <2>3
  <2> QED BY <2>3, <2>4, <2>5, <2>6
<1> QED BY <1>5, <1>6 DEF NoEntry

\* The newlines in a part of the text, and the n-th of them.
LEMMA NewLinesInIs ==
  ASSUME NEW from \in Int, NEW to \in Int
  PROVE  /\ IsFiniteSet(NewLinesIn(from, to)) /\ Cardinality(NewLinesIn(from, to)) \in Nat
         /\ NewLinesIn(from, to) # {} => Cardinality(NewLinesIn(from, to)) >= 1
         /\ \A n \in 1 .. Cardinality(NewLinesIn(from, to)) : Nth(NewLinesIn(from, to), n) \in Int
<1> DEFINE N == NewLinesIn(from, to)
<1>1. N \in SUBSET (from + 1 .. to) /\ from + 1 \in Int
  BY DEF NewLinesIn
<1> HIDE DEF N
<1>2. IsFiniteSet(from + 1 .. to)
  BY <1>1, FS_Interval
<1>3. IsFiniteSet(N) /\ Cardinality(N) \in Nat
  <2>1. IsFiniteSet(N)
    BY <1>1, <1>2, FS_Subset
  <2> QED BY <2>1, FS_CardinalityType
<1>4. N # {} => Cardinality(N) >= 1
  <2>1. Cardinality(N) = 0 <=> N = {}
    BY <1>3, FS_EmptySet
  <2> QED BY <1>3, <2>1
<1>5. ASSUME NEW n \in 1 .. Cardinality(N) PROVE Nth(N, n) \in Int
  <2>1. Nth(N, n) \in N
    BY <1>1, NthIs
  <2>2. Nth(N, n) \in from + 1 .. to
    BY <1>1, <2>1, Zenon
  <2> QED BY <2>2
<1> QED BY <1>3, <1>4, <1>5 DEF N

\* A lookup leaves a cache.
LEMMA LookupIs ==
  ASSUME ArrayInv, IsCache(cache), NEW x \in Int
  PROVE  IsCache(GetLineOffset(x).cache) /\ IsCache(FindLineNumber(x).cache)
<1>1. TextLength \in Int
  BY ArrayIs DEF TextLength
<1>2. IsCache(GetLineOffset(x).cache)
  <2> DEFINE k == NearestLine(x)
             from == cache[k]
             o == IF x > from.line THEN CharOffsetForward(x, from)
                  ELSE IF x < from.line THEN CharOffsetBackward(x, from)
                  ELSE from.offset
  <2>1. k \in 1 .. CacheSize
    BY NearestEntryIs
  <2> HIDE DEF k
  <2>2. from.line \in Int /\ from.offset \in Int
    BY <2>1, EntryIs
  <2> HIDE DEF from
  <2>3. IsCache(MakeHead(k))
    BY <2>1, MakeHeadIs
  <2>4. o \in Int
    <3>1. CASE x > from.line
      <4> DEFINE ahead == NewLinesIn(from.offset, TextLength)
                 n == x - from.line
      <4>1. /\ Cardinality(ahead) \in Nat
            /\ \A m \in 1 .. Cardinality(ahead) : Nth(ahead, m) \in Int
        BY <1>1, <2>2, NewLinesInIs
      <4>2. CharOffsetForward(x, from) = IF n <= Cardinality(ahead) THEN Nth(ahead, n) ELSE -1
        BY DEF CharOffsetForward
      <4> HIDE DEF ahead
      <4>3. n \in Nat \ {0}
        BY <2>2, <3>1
      <4>4. CASE n <= Cardinality(ahead)
        <5>1. n \in 1 .. Cardinality(ahead)
          BY <4>1, <4>3, <4>4
        <5> QED BY <3>1, <4>1, <4>2, <4>4, <5>1
      <4>5. CASE ~ (n <= Cardinality(ahead))
        BY <3>1, <4>2, <4>5
      <4> QED BY <4>4, <4>5
    <3>2. CASE ~ (x > from.line) /\ x < from.line
      <4> DEFINE behind == NewLinesIn(0, from.offset)
                 n == Cardinality(behind) - (from.line - x)
      <4>1. /\ Cardinality(behind) \in Nat
            /\ \A m \in 1 .. Cardinality(behind) : Nth(behind, m) \in Int
        <5>1. 0 \in Int /\ from.offset \in Int
          BY <2>2
        <5> QED BY <5>1, NewLinesInIs
      <4>2. CharOffsetBackward(x, from) = IF x = 0 THEN 0 ELSE IF n < 1 THEN Crash ELSE Nth(behind, n)
        BY DEF CharOffsetBackward
      <4> HIDE DEF behind
      <4>3. n \in Int /\ n <= Cardinality(behind)
        BY <2>2, <3>2, <4>1
      <4>4. CASE x = 0 \/ n < 1
        BY <3>2, <4>2, <4>4 DEF Crash
      <4>5. CASE ~ (x = 0 \/ n < 1)
        <5>1. n \in 1 .. Cardinality(behind)
          BY <4>1, <4>3, <4>5
        <5> QED BY <3>2, <4>1, <4>2, <4>5, <5>1
      <4> QED BY <4>4, <4>5
    <3>3. CASE ~ (x > from.line) /\ ~ (x < from.line)
      BY <2>2, <3>3
    <3> QED BY <3>1, <3>2, <3>3
  <2>5. GetLineOffset(x).cache = IF o >= 0 THEN UpdateEntry(MakeHead(k), x, o) ELSE MakeHead(k)
    BY DEF GetLineOffset, k, from
  <2> HIDE DEF o
  <2>6. IsCache(UpdateEntry(MakeHead(k), x, o))
    BY <2>3, <2>4, UpdateEntryIs
  <2> QED BY <2>3, <2>5, <2>6
<1>3. IsCache(FindLineNumber(x).cache)
  <2> DEFINE k == NearestOffset(x)
             from == cache[k]
             ahead == NewLinesIn(from.offset, x)
             behind == NewLinesIn(x, from.offset)
             line == from.line + Cardinality(ahead) - Cardinality(behind)
             head == MakeHead(k)
  <2>0. FindLineNumber(x).cache =
          IF ahead # {} THEN UpdateEntry(head, line, Nth(ahead, Cardinality(ahead)))
          ELSE IF behind # {} THEN UpdateEntry(head, line + 1, Nth(behind, 1))
          ELSE head
    BY DEF FindLineNumber
  <2>1. k \in 1 .. CacheSize
    BY NearestEntryIs
  <2> HIDE DEF k
  <2>2. from.line \in Int /\ from.offset \in Int
    BY <2>1, EntryIs
  <2>3. IsCache(head)
    BY <2>1, MakeHeadIs
  <2> HIDE DEF from, head
  <2>4. /\ Cardinality(ahead) \in Nat /\ (ahead # {} => Cardinality(ahead) >= 1)
        /\ \A m \in 1 .. Cardinality(ahead) : Nth(ahead, m) \in Int
    BY <2>2, NewLinesInIs
  <2>5. /\ Cardinality(behind) \in Nat /\ (behind # {} => Cardinality(behind) >= 1)
        /\ \A m \in 1 .. Cardinality(behind) : Nth(behind, m) \in Int
    BY <2>2, NewLinesInIs
  <2> HIDE DEF ahead, behind
  <2>6. line \in Int
    BY <2>2, <2>4, <2>5
  <2>7. CASE ahead # {}
    <3>1. Nth(ahead, Cardinality(ahead)) \in Int
      BY <2>4, <2>7
    <3>2. IsCache(UpdateEntry(head, line, Nth(ahead, Cardinality(ahead))))
      <4> HIDE DEF line
      <4> QED BY <2>3, <2>6, <3>1, UpdateEntryIs
    <3> QED BY <2>0, <2>7, <3>2
  <2>8. CASE ahead = {} /\ behind # {}
    <3>1. Nth(behind, 1) \in Int /\ line + 1 \in Int
      BY <2>5, <2>6, <2>8
    <3>2. IsCache(UpdateEntry(head, line + 1, Nth(behind, 1)))
      <4> HIDE DEF line
      <4> QED BY <2>3, <3>1, UpdateEntryIs
    <3> QED BY <2>0, <2>8, <3>2
  <2>9. CASE ahead = {} /\ behind = {}
    BY <2>0, <2>3, <2>9
  <2> QED BY <2>7, <2>8, <2>9
<1> QED BY <1>2, <1>3

-----------------------------------------------------------------------------
(* What an edit does to what is derived from the text.                      *)

\* After offset at, m characters take the place of n: the rows are repaired there, the
\* lines counted, and the entries behind it taken out of the cache.  Only when the gap's
\* characters come back into the text do those among them keep their entries.
Edits(at, n, m) ==
  /\ Edited(Text', Text, at, n, m)
  /\ rowTable' = UpdateRows(Text', at, at + m, m - n)
  /\ lineCount' = lineCount - Cardinality({i \in at + 1 .. at + n : Text[i] = NL})
                            + Cardinality({i \in at + 1 .. at + m : Text'[i] = NL})
  /\ \/ cache' = Invalidate(at)
     \/ cache' = Invalidate(at + m) /\ n = 0 /\ MarkStale(at, at + m)
  /\ \E from, to : MarkStale(from, to)

\* No places, no lines.
LEMMA NoPlaces ==
  ASSUME NEW t, NEW at \in Int
  PROVE  Cardinality({i \in at + 1 .. at + 0 : t[i] = NL}) = 0
<1>1. {i \in at + 1 .. at + 0 : t[i] = NL} = {}
  OBVIOUS
<1> QED BY <1>1, FS_EmptySet

LEMMA InsertEdits ==
  ASSUME ArrayInv, lineCount \in Nat,
         NEW s \in Seq(C), NEW at \in 0 .. Len(Text), insert(s, at)
  PROVE  Edits(at, 0, Len(s))
<1> DEFINE m == Len(s)
<1>1. /\ Text \in Seq(C) /\ Len(Text) \in Nat /\ m \in Nat /\ at \in Nat /\ at <= Len(Text)
  BY CharsAre, LenProperties
<1>2. IsPaste(C, Text', Text, at, s)
  <2>1. Text' = Paste(Text, at, s)
    BY InsertIs
  <2> QED BY <1>1, <2>1, PasteIs
<1> HIDE DEF m, C
<1>3. Edited(Text', Text, at, 0, m)
  <2>1. Len(Text') = Len(Text) - 0 + m
    BY <1>1, <1>2 DEF IsPaste, m
  <2>2. ASSUME NEW i \in 1 .. at PROVE Text'[i] = Text[i]
    <3>1. i \in 1 .. Len(Text) + m /\ i <= at
      BY <1>1
    <3> QED BY <1>2, <3>1 DEF IsPaste, m
  <2>3. ASSUME NEW i \in at + m + 1 .. Len(Text') PROVE Text'[i] = Text[i - m + 0]
    <3>1. i \in 1 .. Len(Text) + m /\ ~ (i <= at) /\ ~ (i <= at + m) /\ i - m + 0 = i - m
      BY <1>1, <2>1
    <3> QED BY <1>2, <3>1 DEF IsPaste, m
  <2> QED BY <1>1, <2>1, <2>2, <2>3 DEF Edited
<1>4. /\ CountIn(s, 1, m) = Cardinality({i \in at + 1 .. at + m : Text'[i] = NL})
      /\ CountIn(s, 1, m) \in Nat
  <2>1. ASSUME NEW i \in 1 .. m PROVE Text'[at + i] = s[1 + i - 1]
    <3>1. at + i \in 1 .. Len(Text) + m /\ ~ (at + i <= at) /\ at + i <= at + m /\ (at + i) - at = i
          /\ 1 + i - 1 = i
      BY <1>1
    <3> QED BY <1>2, <3>1 DEF IsPaste, m
  <2>2. 1 \in Int /\ at \in Int /\ m \in Nat
    BY <1>1
  <2>3. \A i \in 1 .. m : Text'[at + i] = s[1 + i - 1]
    BY <2>1
  <2>4. PICK u : u = Text'
    OBVIOUS
  <2> QED BY <2>2, <2>3, <2>4, CountInIs
<1>5. Cardinality({i \in at + 1 .. at + 0 : Text[i] = NL}) = 0
  BY <1>1, NoPlaces
<1>6. lineCount' = lineCount + CountIn(s, 1, m) /\ cache' = Invalidate(at)
      /\ rowTable' = UpdateRows(Text', at, at + m, m) /\ MarkStale(0, 0)
  BY DEF insert, m
<1>7. lineCount' = lineCount - 0 + CountIn(s, 1, m) /\ m = m - 0
  <2>1. lineCount + CountIn(s, 1, m) = lineCount - 0 + CountIn(s, 1, m)
    BY <1>4
  <2> QED BY <1>1, <1>6, <2>1
<1> QED BY <1>3, <1>4, <1>5, <1>6, <1>7 DEF Edits, m

LEMMA DeleteEdits ==
  ASSUME ArrayInv, lineCount \in Nat,
         NEW at \in Nat, NEW n \in Nat, at + n <= Len(Text), delete(at, n)
  PROVE  Edits(at, n, 0)
<1>1. Text \in Seq(C) /\ Len(Text) \in Nat
  BY CharsAre
<1>2. IsCut(C, Text', Text, at, n)
  <2>1. Text' = Cut(Text, at, n)
    BY DeleteIs
  <2> QED BY <1>1, <2>1, CutIs
<1>3. Edited(Text', Text, at, n, 0)
  <2> HIDE DEF C
  <2>1. Len(Text') = Len(Text) - n /\ Len(Text) - n = Len(Text) - n + 0 /\ Len(Text) - n \in Nat
    BY <1>1, <1>2 DEF IsCut
  <2>2. ASSUME NEW i \in 1 .. at PROVE Text'[i] = Text[i]
    <3>1. i \in 1 .. Len(Text) - n /\ i <= at
      BY <1>1
    <3> QED BY <1>2, <3>1 DEF IsCut
  <2>3. ASSUME NEW i \in at + 0 + 1 .. Len(Text') PROVE Text'[i] = Text[i - 0 + n]
    <3>1. i \in 1 .. Len(Text) - n /\ ~ (i <= at) /\ i - 0 + n = i + n
      BY <1>1, <2>1
    <3> QED BY <1>2, <3>1 DEF IsCut
  <2> QED BY <1>1, <2>1, <2>2, <2>3 DEF Edited
<1>4. /\ CountIn(contents', at, n) = Cardinality({i \in at + 1 .. at + n : Text[i] = NL})
      /\ CountIn(contents', at, n) \in Nat
  <2>1. PICK c : c = contents'
    OBVIOUS
  <2>2. c = ShiftGapTo(at + n)
    BY <2>1 DEF delete
  <2>3. \A i \in 1 .. at + n : ShiftGapTo(at + n)[i - 1] = Text[i]
    <3>1. at + n \in 0 .. Len(Text)
      BY <1>1
    <3> QED BY <3>1, ShiftIs
  <2>4. \A i \in 1 .. n : Text[at + i] = c[at + i - 1]
    <3>1. ASSUME NEW i \in 1 .. n PROVE Text[at + i] = c[at + i - 1]
      <4>1. PICK j \in 1 .. at + n : j = at + i
        OBVIOUS
      <4>2. ShiftGapTo(at + n)[j - 1] = Text[j]
        BY <2>3
      <4> QED BY <2>2, <4>1, <4>2
    <3> QED BY <3>1
  <2>5. PICK t : t = Text
    OBVIOUS
  <2>6. at \in Int
    OBVIOUS
  <2> QED BY <2>1, <2>4, <2>5, <2>6, CountInIs
<1>5. Cardinality({i \in at + 1 .. at + 0 : Text'[i] = NL}) = 0
  <2>1. PICK t : t = Text'
    OBVIOUS
  <2> QED BY <2>1, NoPlaces
<1>6. lineCount' = lineCount - CountIn(contents', at, n) /\ cache' = Invalidate(at)
      /\ rowTable' = UpdateRows(Text', at, at, -n) /\ MarkStale(0, 0)
  BY DEF delete
<1>7. lineCount - CountIn(contents', at, n) = lineCount - CountIn(contents', at, n) + 0
      /\ at + 0 = at /\ 0 - n = -n
  BY <1>4
<1> QED BY <1>3, <1>4, <1>5, <1>6, <1>7 DEF Edits

\* The gap's start goes back over the last characters before it.
LEMMA ShiftBackEdits ==
  ASSUME ArrayInv, lineCount \in Nat, NEW n \in Nat \ {0}, n <= gapStart, shiftGapStart(-n)
  PROVE  Edits(gapStart - n, n, 0)
<1> DEFINE at == gapStart - n
<1>1. /\ Text \in Seq(C) /\ Len(Text) \in Nat /\ at \in Nat /\ at + n <= Len(Text) /\ at + n = gapStart
      /\ gapStart <= Len(Text) /\ gapStart \in Nat
  <2>1. gapStart \in Nat
    BY DEF ArrayInv
  <2> QED BY <2>1, CharsAre, ShiftBackIs
<1>2. IsCut(C, Text', Text, at, n)
  <2>1. Text' = Cut(Text, at, n)
    BY ShiftBackIs
  <2> QED BY <1>1, <2>1, CutIs
<1> HIDE DEF C, at
<1>3. Edited(Text', Text, at, n, 0)
  <2>1. Len(Text') = Len(Text) - n /\ Len(Text) - n = Len(Text) - n + 0 /\ Len(Text) - n \in Nat
    BY <1>1, <1>2 DEF IsCut
  <2>2. ASSUME NEW i \in 1 .. at PROVE Text'[i] = Text[i]
    <3>1. i \in 1 .. Len(Text) - n /\ i <= at
      BY <1>1
    <3> QED BY <1>2, <3>1 DEF IsCut
  <2>3. ASSUME NEW i \in at + 0 + 1 .. Len(Text') PROVE Text'[i] = Text[i - 0 + n]
    <3>1. i \in 1 .. Len(Text) - n /\ ~ (i <= at) /\ i - 0 + n = i + n
      BY <1>1, <2>1
    <3> QED BY <1>2, <3>1 DEF IsCut
  <2> QED BY <1>1, <2>1, <2>2, <2>3 DEF Edited
<1>4. /\ CountIn(contents, at, n) = Cardinality({i \in at + 1 .. at + n : Text[i] = NL})
      /\ CountIn(contents, at, n) \in Nat
  <2>1. \A i \in 1 .. Len(Text) :
          Text[i] = contents[IF i <= gapStart THEN i - 1 ELSE i - 1 + GapSize]
    BY CharsAre DEF C
  <2>2. \A i \in 1 .. n : Text[at + i] = contents[at + i - 1]
    <3>1. ASSUME NEW i \in 1 .. n PROVE Text[at + i] = contents[at + i - 1]
      <4>1. at + i \in 1 .. Len(Text) /\ at + i <= gapStart
        BY <1>1
      <4>2. PICK j \in 1 .. Len(Text) : j = at + i /\ j <= gapStart
        BY <4>1
      <4>3. Text[j] = contents[j - 1]
        BY <2>1, <4>2
      <4>4. j - 1 = at + i - 1
        BY <1>1, <4>2
      <4> QED BY <4>2, <4>3, <4>4, Zenon
    <3> QED BY <3>1
  <2>3. PICK t, c : t = Text /\ c = contents
    OBVIOUS
  <2>4. at \in Int
    BY <1>1
  <2> QED BY <2>2, <2>3, <2>4, CountInIs
<1>5. Cardinality({i \in at + 1 .. at + 0 : Text'[i] = NL}) = 0
  <2>1. PICK t : t = Text'
    OBVIOUS
  <2> QED BY <1>1, <2>1, NoPlaces
<1>6. /\ -n < 0 /\ -n # 0 /\ ~ (-n > 0) /\ ~ (-n >= 0) /\ -(-n) = n /\ gapStart + -n = at
      /\ at + 0 = at /\ 0 - n = -n
  BY <1>1 DEF at
<1>7. /\ lineCount' = lineCount - CountIn(contents, at, n)
      /\ cache' = Invalidate(at) /\ rowTable' = UpdateRows(Text', at, at, -n)
      /\ MarkStale(gapStart, gapStart + -n)
  BY <1>6 DEF shiftGapStart
<1>8. lineCount - CountIn(contents, at, n) = lineCount - CountIn(contents, at, n) + 0
  BY <1>4
<1> QED BY <1>3, <1>4, <1>5, <1>6, <1>7, <1>8 DEF Edits, at

\* The gap's first characters come back into the text.
LEMMA ShiftForwardEdits ==
  ASSUME ArrayInv, lineCount \in Nat, NEW m \in Nat \ {0}, m < GapSize, shiftGapStart(m)
  PROVE  Edits(gapStart, 0, m)
<1> DEFINE s == Gap(contents, gapStart, m)
           at == gapStart
<1>1. /\ Text \in Seq(C) /\ Len(Text) \in Nat /\ at \in Nat /\ at <= Len(Text)
  <2>1. gapStart \in Nat
    BY DEF ArrayInv
  <2> QED BY <2>1, CharsAre
<1>2. s \in Seq(C) /\ Len(s) = m /\ \A i \in 1 .. m : s[i] = contents[at + i - 1]
  <2>1. /\ Size \in Nat /\ GapSize = gapEnd - gapStart /\ gapStart \in Nat /\ gapEnd \in Nat /\ gapEnd < Size
        /\ \A i \in 0 .. Size - 2 : contents[i] \in C
    BY ArrayIs DEF ArrayInv
  <2>2. \A i \in 1 .. m : gapStart + i - 1 \in 0 .. Size - 2
    BY <2>1
  <2>3. \A i \in 1 .. m : contents[gapStart + i - 1] \in C
    BY <2>1, <2>2
  <2> HIDE DEF C
  <2>4. PICK c, g : c = contents /\ g = gapStart
    OBVIOUS
  <2>5. g \in Nat /\ m \in Nat /\ \A i \in 1 .. m : c[g + i - 1] \in C
    BY <2>1, <2>3, <2>4
  <2>6. /\ Gap(c, g, m) \in Seq(C) /\ Len(Gap(c, g, m)) = m
        /\ \A i \in 1 .. m : Gap(c, g, m)[i] = c[g + i - 1]
    BY <2>5, GapIs
  <2> QED BY <2>4, <2>6
<1>3. IsPaste(C, Text', Text, at, s)
  <2>1. Text' = Paste(Text, at, s)
    BY ShiftForwardIs
  <2> HIDE DEF s, at, C
  <2> QED BY <1>1, <1>2, <2>1, PasteIs
<1> HIDE DEF s, at, C
<1>4. Edited(Text', Text, at, 0, m)
  <2>1. Len(Text') = Len(Text) - 0 + m
    BY <1>1, <1>2, <1>3 DEF IsPaste
  <2>2. ASSUME NEW i \in 1 .. at PROVE Text'[i] = Text[i]
    <3>1. i \in 1 .. Len(Text) + m /\ i <= at
      BY <1>1
    <3> QED BY <1>2, <1>3, <3>1 DEF IsPaste
  <2>3. ASSUME NEW i \in at + m + 1 .. Len(Text') PROVE Text'[i] = Text[i - m + 0]
    <3>1. i \in 1 .. Len(Text) + m /\ ~ (i <= at) /\ ~ (i <= at + m) /\ i - m + 0 = i - m
      BY <1>1, <2>1
    <3> QED BY <1>2, <1>3, <3>1 DEF IsPaste
  <2> QED BY <1>1, <2>1, <2>2, <2>3 DEF Edited
<1>5. /\ CountIn(contents, at, m) = Cardinality({i \in at + 1 .. at + m : Text'[i] = NL})
      /\ CountIn(contents, at, m) \in Nat
  <2>1. ASSUME NEW i \in 1 .. m PROVE Text'[at + i] = contents[at + i - 1]
    <3>1. at + i \in 1 .. Len(Text) + m /\ ~ (at + i <= at) /\ at + i <= at + m /\ (at + i) - at = i
      BY <1>1
    <3>2. Text'[at + i] = s[i]
      BY <1>2, <1>3, <3>1 DEF IsPaste
    <3> QED BY <1>2, <3>2
  <2>2. PICK t, c : t = Text' /\ c = contents
    OBVIOUS
  <2>3. at \in Int /\ m \in Nat
    BY <1>1
  <2>4. \A i \in 1 .. m : t[at + i] = c[at + i - 1]
    BY <2>1, <2>2
  <2> QED BY <2>2, <2>3, <2>4, CountInIs
<1>6. Cardinality({i \in at + 1 .. at + 0 : Text[i] = NL}) = 0
  <2>1. PICK t : t = Text
    OBVIOUS
  <2> QED BY <1>1, <2>1, NoPlaces
<1>7. m > 0 /\ m # 0 /\ m >= 0 /\ m - 0 = m
  OBVIOUS
<1>8. /\ lineCount' = lineCount + CountIn(contents, at, m)
      /\ cache' = Invalidate(at + m) /\ rowTable' = UpdateRows(Text', at, at + m, m)
      /\ MarkStale(at, at + m)
  BY <1>7 DEF shiftGapStart, at
<1>9. lineCount + CountIn(contents, at, m) = lineCount - 0 + CountIn(contents, at, m)
  BY <1>5
<1> QED BY <1>4, <1>5, <1>6, <1>7, <1>8, <1>9 DEF Edits, at

\* Every undo and every redo of a command is one of these edits.
LEMMA UndoEdits ==
  ASSUME ArrayInv, RecordInv, lineCount \in Nat, Undo
  PROVE  \E at, n, m : Edits(at, n, m)
<1> DEFINE c == stack[top]
           v == versions[top]
<1>0. Followed /\ top > 0 /\ UndoCommand(c)
  BY DEF Undo, canUndo
<1>1. /\ c \in Command /\ v \in Seq(C) /\ v \in Seq(Char)
      /\ c.kind \in {"insert", "delete"} /\ c.start \in Nat /\ c.length \in Nat \ {0}
      /\ Len(v) \in Nat /\ Len(Text) \in Nat
      /\ c.kind = "insert" => Len(Text) = Len(v) + c.length /\ c.start <= Len(v)
      /\ c.kind = "delete" => Len(v) = Len(Text) + c.length /\ c.start <= Len(Text)
      /\ c.data = Null /\ c.kind = "insert" => gapStart = c.start + c.length
      /\ c.data = Null /\ c.kind = "delete" => gapStart = c.start /\ c.length < GapSize
  <2>1. Text = versions[top + 1]
    BY <1>0 DEF Followed
  <2> HIDE DEF C
  <2> QED BY <1>0, <2>1, LastIs
<1>2. gapStart \in Nat
  BY DEF ArrayInv
<1>3. c.data \in Seq(C) \cup {Null}
  <2> HIDE DEF C
  <2> QED BY <1>1, CommandIs
<1> HIDE DEF C, c, v
<1>4. CASE c.data = Null /\ c.kind = "insert"
  <2>1. c.length <= gapStart /\ shiftGapStart(-c.length)
    BY <1>0, <1>1, <1>4 DEF UndoCommand
  <2> QED BY <1>1, <2>1, ShiftBackEdits
<1>5. CASE c.data = Null /\ c.kind = "delete"
  <2>1. c.length < GapSize /\ shiftGapStart(c.length)
    BY <1>0, <1>1, <1>5 DEF UndoCommand
  <2> QED BY <1>1, <2>1, ShiftForwardEdits
<1>6. CASE c.data # Null /\ c.kind = "insert"
  <2>1. c.length \in Nat /\ c.start + c.length <= Len(Text) /\ delete(c.start, c.length)
    BY <1>0, <1>1, <1>6 DEF UndoCommand
  <2> QED BY <1>1, <2>1, DeleteEdits
<1>7. CASE c.data # Null /\ c.kind = "delete"
  <2>1. c.data \in Seq(C) /\ c.start \in 0 .. Len(Text) /\ insert(c.data, c.start)
    BY <1>0, <1>1, <1>3, <1>7 DEF UndoCommand
  <2> QED BY <2>1, InsertEdits
<1> QED BY <1>1, <1>4, <1>5, <1>6, <1>7

LEMMA RedoEdits ==
  ASSUME ArrayInv, RecordInv, lineCount \in Nat, Redo
  PROVE  \E at, n, m : Edits(at, n, m)
<1> DEFINE c == stack[top + 1]
           u == versions[top + 1]
           v == versions[top + 2]
<1>1. Followed /\ top < Len(stack) /\ RedoCommand(c)
  BY DEF Redo, canRedo
<1>2. /\ stack \in Seq(Command) /\ top \in 0 .. Len(stack) /\ Len(stack) \in Nat
      /\ Len(versions) = Len(stack) + 1
  BY <1>1, LenProperties DEF RecordInv, StackInv
<1>3. Text = u
  BY <1>1 DEF Followed
<1>4. top + 1 \in 1 .. Len(stack) /\ top + 1 # top /\ (top + 1) + 1 = top + 2
  BY <1>1, <1>2
<1>5. Fits(c, u, v) /\ Reachable(c, top + 1, top, Len(stack), gapStart, GapSize)
  BY <1>4 DEF RecordInv, FitsInv, ReachableInv
<1>6. c \in Command
  BY <1>2, <1>4, ElementOfSeq
<1>7. /\ c.kind \in {"insert", "delete"} /\ c.start \in Nat /\ c.length \in Nat
      /\ c.data \in Seq(C)
  <2>1. c.data # Null
    BY <1>4, <1>5 DEF Reachable
  <2> HIDE DEF C
  <2> QED BY <1>6, <2>1, CommandIs
<1>8. Len(u) \in Nat /\ Len(v) \in Nat
  <2>1. top + 1 \in 1 .. Len(versions) /\ top + 2 \in 1 .. Len(versions) /\ StackInv
    BY <1>2, <1>4 DEF RecordInv
  <2> HIDE DEF C
  <2> QED BY <2>1, VersionIs
<1> HIDE DEF C, c, u, v
<1>9. CASE c.kind = "insert"
  <2>1. c.start \in 0 .. Len(Text) /\ insert(c.data, c.start)
    BY <1>1, <1>3, <1>5, <1>7, <1>8, <1>9 DEF RedoCommand, Fits, Longer, Shorter
  <2> QED BY <1>7, <2>1, InsertEdits
<1>10. CASE c.kind = "delete"
  <2>1. c.start + c.length <= Len(Text) /\ delete(c.start, c.length)
    BY <1>1, <1>3, <1>5, <1>7, <1>8, <1>10 DEF RedoCommand, Fits, Longer, Shorter
  <2> QED BY <1>7, <2>1, DeleteEdits
<1> QED BY <1>7, <1>9, <1>10

\* The rows and the number of lines after an edit.
LEMMA RowsStep ==
  ASSUME RowsMatchText, NEW at, NEW n, NEW m, Edits(at, n, m)
  PROVE  RowsMatchText'
<1> DEFINE S == Starts(Text)
           U == Starts(Text')
<1>1. Edited(Text', Text, at, n, m)
  BY DEF Edits
<1>2. Len(Text) \in Nat /\ Len(Text') \in Nat
  BY <1>1 DEF Edited
<1>3. LineStarts(Text) = InOrder(S) /\ Len(InOrder(S)) = Cardinality(S)
  <2>1. PICK t : t = Text
    OBVIOUS
  <2> QED BY <1>2, <2>1, LineStartsAre, StartsAre, InOrderIs
<1>4. LineStarts(Text') = InOrder(U) /\ Len(InOrder(U)) = Cardinality(U)
  <2>1. PICK u : u = Text'
    OBVIOUS
  <2> QED BY <1>2, <2>1, LineStartsAre, StartsAre, InOrderIs
<1>5. rowTable = InOrder(S) /\ lineCount = Cardinality(S)
  BY <1>3 DEF RowsMatchText
<1>6. UpdateRows(Text', at, at + m, m - n) = InOrder(U)
  <2>1. PICK u, t : u = Text' /\ t = Text
    OBVIOUS
  <2>2. Edited(u, t, at, n, m) /\ rowTable = InOrder(Starts(t))
    BY <1>1, <1>5, <2>1
  <2> QED BY <2>1, <2>2, RowsAre
<1>7. lineCount' = Cardinality(U)
  <2>1. PICK u, t : u = Text' /\ t = Text
    OBVIOUS
  <2>2. Cardinality(Starts(u)) = Cardinality(Starts(t))
              - Cardinality({i \in at + 1 .. at + n : t[i] = NL})
              + Cardinality({i \in at + 1 .. at + m : u[i] = NL})
    BY <1>1, <2>1, LinesCounted
  <2> QED BY <1>5, <2>1, <2>2 DEF Edits
<1>8. rowTable' = InOrder(U)
  BY <1>6 DEF Edits
<1> QED BY <1>4, <1>7, <1>8 DEF RowsMatchText

-----------------------------------------------------------------------------
(* The lookups.                                                             *)

\* The members of a set of places up to x: the number of the line that x is in.
Below(S, x) == Cardinality({j \in S : j <= x})

\* The places from a to b.
Between(S, a, b) == {j \in S : a < j /\ j <= b}

LEMMA BelowIs ==
  ASSUME NEW S, IsPlaces(S)
  PROVE  /\ \A x \in Int : Below(S, x) \in Nat /\ Below(S, x) <= Cardinality(S)
         /\ \A x \in S : Below(S, x) \in 1 .. Cardinality(S) /\ Nth(S, Below(S, x)) = x
         /\ \A n \in 1 .. Cardinality(S) : Nth(S, n) \in S /\ Below(S, Nth(S, n)) = n
<1>1. /\ S \in SUBSET Nat /\ Cardinality(S) \in Nat
      /\ \A T \in SUBSET S : IsFiniteSet(T) /\ Cardinality(T) \in Nat /\ Cardinality(T) <= Cardinality(S)
  BY PlacesAre
<1>0. \A j \in S : j \in Int
  BY <1>1
<1>2. ASSUME NEW x \in Int PROVE Below(S, x) \in Nat /\ Below(S, x) <= Cardinality(S)
  <2>1. {j \in S : j <= x} \in SUBSET S
    OBVIOUS
  <2> QED BY <1>1, <2>1 DEF Below
<1>3. ASSUME NEW x \in S PROVE Below(S, x) = Rank(S, x) + 1
  <2> DEFINE A == {j \in S : j < x}
  <2>1. A \in SUBSET S /\ x \notin A
    BY <1>1
  <2>2. {j \in S : j <= x} = A \cup {x}
    BY <1>0
  <2> HIDE DEF A
  <2>3. IsFiniteSet(A)
    BY <1>1, <2>1
  <2>4. Cardinality(A \cup {x}) = Cardinality(A) + 1
    BY <2>1, <2>3, FS_AddElement
  <2> QED BY <2>2, <2>4 DEF Below, Rank, A
<1>4. /\ \A n \in 1 .. Cardinality(S) : Nth(S, n) \in S /\ Rank(S, Nth(S, n)) = n - 1
      /\ \A x \in S : Rank(S, x) + 1 \in 1 .. Cardinality(S) /\ Nth(S, Rank(S, x) + 1) = x
  BY NthByRank
<1>5. ASSUME NEW x \in S PROVE Below(S, x) \in 1 .. Cardinality(S) /\ Nth(S, Below(S, x)) = x
  BY <1>3, <1>4
<1>6. ASSUME NEW n \in 1 .. Cardinality(S) PROVE Nth(S, n) \in S /\ Below(S, Nth(S, n)) = n
  <2>1. Nth(S, n) \in S /\ Rank(S, Nth(S, n)) = n - 1
    BY <1>4
  <2>2. Below(S, Nth(S, n)) = Rank(S, Nth(S, n)) + 1
    BY <1>3, <2>1
  <2> QED BY <2>1, <2>2
<1> QED BY <1>2, <1>5, <1>6

\* Counting on from a.
LEMMA BetweenIs ==
  ASSUME NEW S, IsPlaces(S), NEW a \in Int, NEW b \in Int
  PROVE  /\ IsPlaces(Between(S, a, b)) /\ Cardinality(Between(S, a, b)) \in Nat
         /\ Between(S, a, b) = {} <=> Cardinality(Between(S, a, b)) = 0
         /\ a <= b => Cardinality(Between(S, a, b)) = Below(S, b) - Below(S, a)
         /\ b <= a => Between(S, a, b) = {}
         /\ \A n \in 1 .. Cardinality(Between(S, a, b)) :
              /\ Nth(Between(S, a, b), n) \in S
              /\ Below(S, Nth(Between(S, a, b), n)) = n + Below(S, a)
<1> DEFINE A == Between(S, a, b)
<1>1. /\ S \in SUBSET Nat
      /\ \A T \in SUBSET S : IsPlaces(T) /\ IsFiniteSet(T) /\ Cardinality(T) \in Nat
  BY PlacesAre
<1>0. \A j \in S : j \in Int
  BY <1>1
<1>2. A \in SUBSET S /\ IsPlaces(A) /\ IsFiniteSet(A) /\ Cardinality(A) \in Nat
  <2>1. A \in SUBSET S
    BY DEF Between
  <2> HIDE DEF A
  <2> QED BY <1>1, <2>1
<1>3. A = {} <=> Cardinality(A) = 0
  <2> HIDE DEF A
  <2> QED BY <1>2, FS_EmptySet
<1>4. ASSUME NEW c \in Int, a <= c
      PROVE  Cardinality(Between(S, a, c)) = Below(S, c) - Below(S, a)
  <2> DEFINE L == {j \in S : j <= a}
             M == Between(S, a, c)
  <2>1. {j \in S : j <= c} = L \cup M /\ L \cap M = {}
    BY <1>0, <1>4 DEF Between
  <2>2. L \in SUBSET S /\ M \in SUBSET S
    BY DEF Between
  <2>3. Below(S, a) = Cardinality(L) /\ Below(S, c) = Cardinality(L \cup M)
    BY <2>1 DEF Below
  <2> HIDE DEF L, M
  <2>4. IsFiniteSet(L) /\ IsFiniteSet(M)
    BY <1>1, <2>2
  <2>5. /\ Cardinality(L \cup M) = Cardinality(L) + Cardinality(M)
        /\ Cardinality(L) \in Nat /\ Cardinality(M) \in Nat
    BY <2>1, <2>4, CountTwo
  <2>6. Cardinality(M) = Below(S, c) - Below(S, a)
    BY <2>3, <2>5
  <2> QED BY <2>6 DEF M
<1>5. b <= a => A = {}
  BY <1>0 DEF Between
<1>6. ASSUME NEW n \in 1 .. Cardinality(A)
      PROVE  Nth(A, n) \in S /\ Below(S, Nth(A, n)) = n + Below(S, a)
  <2>1. Nth(A, n) \in A /\ Below(A, Nth(A, n)) = n
    <3> HIDE DEF A
    <3> QED BY <1>2, BelowIs
  <2>2. PICK y \in A : y = Nth(A, n)
    BY <2>1
  <2>3. y \in S /\ y \in Int /\ a < y /\ y <= b
    BY <1>1, <2>2 DEF Between
  <2>4. {j \in A : j <= y} = Between(S, a, y)
    <3>1. \A j \in S : j <= y => j <= b
      BY <1>0, <2>3
    <3>2. \A j : j \in A /\ j <= y <=> j \in S /\ a < j /\ j <= y
      BY <3>1 DEF Between
    <3> QED BY <3>2 DEF Between
  <2>5. Below(A, y) = Cardinality(Between(S, a, y))
    <3> HIDE DEF A
    <3> QED BY <2>4 DEF Below
  <2>6. Cardinality(Between(S, a, y)) = Below(S, y) - Below(S, a)
    BY <1>4, <2>3
  <2>7. Below(S, y) \in Nat /\ Below(S, a) \in Nat
    BY <2>3, BelowIs
  <2> HIDE DEF A
  <2> QED BY <2>1, <2>2, <2>3, <2>5, <2>6, <2>7
<1> QED BY <1>2, <1>3, <1>4, <1>5, <1>6 DEF A

\* A scan for newlines meets the starts of the lines it passes.
LEMMA NewLinesAre ==
  ASSUME ArrayInv, NEW from \in Nat, NEW to \in Int
  PROVE  NewLinesIn(from, to) = Between(Starts(Text), from, to)
<1>1. /\ Len(Text) \in Nat /\ Len(Text) = Size - GapSize - 1 /\ gapStart \in Nat
      /\ \A i \in 1 .. Len(Text) :
           Text[i] = contents[IF i <= gapStart THEN i - 1 ELSE i - 1 + GapSize]
      /\ Size \in Nat /\ GapSize \in Nat
  BY ArrayIs, CharsAre DEF ArrayInv
<1>2. TextLength = Len(Text) + 1
  BY <1>1 DEF TextLength
<1>3. ASSUME NEW i \in from + 1 .. to
      PROVE  i < TextLength /\ contents[LogicalToReal(i - 1)] = NL <=> i \in Starts(Text)
  <2>1. i \in Nat /\ i # 0 /\ (i < TextLength <=> i \in 1 .. Len(Text))
    BY <1>1, <1>2
  <2>2. ASSUME i \in 1 .. Len(Text) PROVE contents[LogicalToReal(i - 1)] = Text[i]
    <3>1. i - 1 < gapStart <=> i <= gapStart
      BY <1>1, <2>1
    <3> QED BY <1>1, <2>2, <3>1 DEF LogicalToReal
  <2> QED BY <2>1, <2>2 DEF Starts
<1>4. \A x \in Starts(Text) : x \in Int
  BY <1>1, StartsAre
<1> DEFINE S == Starts(Text)
<1> HIDE DEF S
<1>5. ASSUME NEW i PROVE i \in NewLinesIn(from, to) <=> i \in Between(S, from, to)
  <2>1. i \in from + 1 .. to /\ i \in S <=> i \in S /\ from < i /\ i <= to
    BY <1>4 DEF S
  <2>2. i \in NewLinesIn(from, to) <=> i \in from + 1 .. to /\ i \in S
    BY <1>3 DEF NewLinesIn, S
  <2> QED BY <2>1, <2>2 DEF Between
<1> QED BY <1>5 DEF S

\* An entry gives a line of the text t and the offset at which it starts.
Right(e, t) == e = NoEntry \/ (e.offset \in Starts(t) /\ e.line + 1 = Below(Starts(t), e.offset))

\* So do the entries of the cache, but for those that an undo left behind.
EntriesInv == ~ stale => \A k \in 1 .. CacheSize : Right(cache[k], Text)

\* What the cache holds after an edit is right again.
LEMMA EntriesStep ==
  ASSUME CacheInv, EntriesInv, NEW at, NEW n, NEW m, Edits(at, n, m)
  PROVE  EntriesInv'
<1> SUFFICES ASSUME ~ stale', NEW k \in 1 .. CacheSize PROVE Right(cache'[k], Text')
  BY DEF EntriesInv
<1>1. Edited(Text', Text, at, n, m)
  BY DEF Edits
<1>2. at \in Nat /\ m \in Nat
  BY <1>1 DEF Edited
<1>3. PICK t, u : t = Text /\ u = Text'
  OBVIOUS
<1>4. /\ Edited(u, t, at, n, m) /\ IsPlaces(Starts(t)) /\ IsPlaces(Starts(u))
      /\ 0 \in Starts(u) /\ \A x \in Starts(t) \cup Starts(u) : x \in Int /\ x >= 0
  <2>1. Edited(u, t, at, n, m)
    BY <1>1, <1>3
  <2>2. Len(u) \in Nat /\ Len(t) \in Nat
    BY <2>1 DEF Edited
  <2>3. 0 \in Starts(u)
    BY DEF Starts
  <2> QED BY <2>1, <2>2, <2>3, StartsAre
<1>5. ASSUME NEW e \in Entry, Right(e, t), e.offset <= at PROVE Right(e, u)
  <2>1. CASE e = NoEntry
    BY <2>1 DEF Right
  <2>2. CASE e # NoEntry
    <3>1. e.offset \in Starts(t) /\ e.offset \in Int /\ e.line + 1 = Below(Starts(t), e.offset)
      BY <1>4, <1>5, <2>2 DEF Right
    <3>2. e.offset \in Starts(u)
      BY <1>4, <1>5, <3>1, EditedStarts
    <3>3. {j \in Starts(t) : j <= e.offset} = {j \in Starts(u) : j <= e.offset}
      <4>1. ASSUME NEW j \in Int, j <= e.offset PROVE j \in Starts(t) <=> j \in Starts(u)
        <5>1. j <= at
          BY <1>2, <1>5, <3>1, <4>1
        <5> QED BY <1>4, <5>1, EditedStarts
      <4> QED BY <1>4, <4>1
    <3> QED BY <3>1, <3>2, <3>3 DEF Right, Below
  <2> QED BY <2>1, <2>2
<1>6. PICK from, to : MarkStale(from, to)
  BY DEF Edits
<1>7. CASE k = 1
  <2>1. cache'[1] = cache[1] /\ cache[1] = [line |-> 0, offset |-> 0]
    <3>1. cache' = Invalidate(at) \/ cache' = Invalidate(at + m)
      BY DEF Edits
    <3> QED BY <1>7, <3>1, SizeAssumption DEF Invalidate, CacheInv, IsCache, EmptyCache
  <2>2. {j \in Starts(u) : j <= 0} = {0}
    BY <1>4
  <2>3. Below(Starts(u), 0) = 1
    BY <2>2, FS_Singleton DEF Below
  <2> QED BY <1>3, <1>4, <1>7, <2>1, <2>3 DEF Right
<1>8. CASE k # 1 /\ cache'[k] # NoEntry
  <2>1. k \in 2 .. CacheSize
    BY <1>8, SizeAssumption
  <2>2. ~ stale
    BY <1>6, <1>8, <2>1 DEF MarkStale
  <2>3. cache[k] \in Entry /\ cache[k].offset \in Int /\ Right(cache[k], t)
    BY <1>3, <2>2, EntryIs DEF EntriesInv, CacheInv
  <2>4. CASE cache' = Invalidate(at)
    <3>1. cache'[k] = cache[k] /\ ~ (cache[k].offset >= at)
      BY <1>8, <2>1, <2>4 DEF Invalidate
    <3>2. cache[k].offset <= at
      BY <1>2, <2>3, <3>1
    <3> QED BY <1>3, <1>5, <2>3, <3>1, <3>2
  <2>5. CASE cache' = Invalidate(at + m) /\ MarkStale(at, at + m)
    <3>1. cache'[k] = cache[k] /\ ~ (cache[k].offset >= at + m)
      BY <1>8, <2>1, <2>5 DEF Invalidate
    <3>2. ~ (at < cache[k].offset /\ cache[k].offset < at + m)
      BY <1>8, <2>1, <2>5 DEF MarkStale
    <3>3. cache[k].offset <= at
      BY <1>2, <2>3, <3>1, <3>2
    <3> QED BY <1>3, <1>5, <2>3, <3>1, <3>3
  <2> QED BY <2>4, <2>5 DEF Edits
<1>9. CASE cache'[k] = NoEntry
  BY <1>9 DEF Right
<1> QED BY <1>7, <1>8, <1>9

\* The cache of a lookup holds what it held before, and the line just found.
LEMMA MakeHeadKeeps ==
  ASSUME NEW t, \A k \in 1 .. CacheSize : Right(cache[k], t), NEW k \in 1 .. CacheSize
  PROVE  \A j \in 1 .. CacheSize : Right(MakeHead(k)[j], t)
<1> SUFFICES ASSUME NEW j \in 1 .. CacheSize PROVE Right(MakeHead(k)[j], t)
  OBVIOUS
<1>1. MakeHead(k)[j] = IF k = 1 \/ j = 1 \/ j > k THEN cache[j]
                       ELSE IF j = 2 THEN cache[k] ELSE cache[j - 1]
  BY DEF MakeHead
<1>2. j = 1 \/ j - 1 \in 1 .. CacheSize
  BY SizeAssumption
<1> HIDE DEF MakeHead
<1> QED BY <1>1, <1>2

LEMMA UpdateEntryKeeps ==
  ASSUME NEW t, NEW c, IsCache(c), \A k \in 1 .. CacheSize : Right(c[k], t),
         NEW l \in Int, NEW o \in Int, Right([line |-> l, offset |-> o], t)
  PROVE  \A k \in 1 .. CacheSize : Right(UpdateEntry(c, l, o)[k], t)
<1> DEFINE known == {k \in 2 .. CacheSize : c[k].line = l}
           entry == [line |-> l, offset |-> o]
           p == CHOOSE k \in known : \A j \in known : k <= j
<1> SUFFICES ASSUME NEW k \in 1 .. CacheSize PROVE Right(UpdateEntry(c, l, o)[k], t)
  OBVIOUS
<1>1. c = [j \in 1 .. CacheSize |-> c[j]]
  BY DEF IsCache
<1>2. CASE l <= 0
  BY <1>2 DEF UpdateEntry
<1>3. CASE l > 0 /\ known # {}
  <2>1. UpdateEntry(c, l, o) = [c EXCEPT ![p] = entry]
    BY <1>3 DEF UpdateEntry
  <2> HIDE DEF p, entry
  <2>2. [c EXCEPT ![p] = entry][k] = entry \/ [c EXCEPT ![p] = entry][k] = c[k]
    BY <1>1
  <2> QED BY <2>1, <2>2 DEF entry
<1>4. CASE l > 0 /\ known = {}
  <2>1. UpdateEntry(c, l, o)[k] = IF k = 1 THEN c[1] ELSE IF k = 2 THEN entry ELSE c[k - 1]
    BY <1>4 DEF UpdateEntry
  <2>2. 1 \in 1 .. CacheSize /\ (k = 1 \/ k - 1 \in 1 .. CacheSize)
    BY SizeAssumption
  <2> QED BY <2>1, <2>2
<1> QED BY <1>2, <1>3, <1>4

\* From any entries that are right, a line is found where it starts.
LEMMA LineIsFound ==
  ASSUME ArrayInv, IsCache(cache), \A k \in 1 .. CacheSize : Right(cache[k], Text),
         NEW S, S = Starts(Text), NEW l \in 0 .. Cardinality(S)
  PROVE  /\ GetLineOffset(l).answer = IF l < Cardinality(S) THEN Nth(S, l + 1) ELSE -1
         /\ \A k \in 1 .. CacheSize : Right(GetLineOffset(l).cache[k], Text)
<1> DEFINE k == NearestLine(l)
           from == cache[k]
           x == from.offset
           o == IF l > from.line THEN CharOffsetForward(l, from)
                ELSE IF l < from.line THEN CharOffsetBackward(l, from)
                ELSE from.offset
<1>1. /\ Len(Text) \in Nat /\ TextLength = Len(Text) + 1
  BY ArrayIs, CharsAre DEF TextLength
<1>2. IsPlaces(S) /\ 0 \in S /\ \A y \in S : y \in 0 .. Len(Text)
  <2>1. 0 \in S
    BY DEF Starts
  <2>2. PICK t : t = Text
    OBVIOUS
  <2> QED BY <1>1, <2>1, <2>2, StartsAre
<1>3. Cardinality(S) \in Nat
  BY <1>2, PlacesAre
<1>4. l \in Nat /\ l <= Cardinality(S)
  BY <1>3
<1>5. k \in 1 .. CacheSize /\ from # NoEntry
  BY <1>4, NearestEntryIs
<1>6. GetLineOffset(l) = [answer |-> o,
        cache |-> IF o >= 0 THEN UpdateEntry(MakeHead(k), l, o) ELSE MakeHead(k)]
  BY DEF GetLineOffset
<1> HIDE DEF k
<1>7. Right(from, Text) /\ from.line \in Int
  BY <1>5, EntryIs
<1> HIDE DEF from
<1>8. x \in S /\ x \in Nat /\ x <= Len(Text) /\ from.line + 1 = Below(S, x)
  BY <1>2, <1>5, <1>7 DEF Right
<1> HIDE DEF x
<1>9. /\ \A y \in Int : Below(S, y) \in Nat
      /\ \A y \in S : Below(S, y) \in 1 .. Cardinality(S) /\ Nth(S, Below(S, y)) = y
  BY <1>2, BelowIs
<1>10. Below(S, TextLength) = Cardinality(S) /\ Below(S, 0) = 1
  <2>1. \A y \in S : y <= TextLength /\ (y <= 0 <=> y = 0)
    BY <1>1, <1>2
  <2>2. {j \in S : j <= TextLength} = S /\ {j \in S : j <= 0} = {0}
    BY <1>2, <2>1
  <2> QED BY <2>2, FS_Singleton DEF Below
<1> DEFINE found(y) == y \in S /\ Below(S, y) = l + 1
<1>11. found(o) \/ (o = -1 /\ l = Cardinality(S))
  <2>1. CASE l > from.line
    <3> DEFINE ahead == Between(S, x, TextLength)
               n == l - from.line
    <3>1. o = IF n <= Cardinality(ahead) THEN Nth(ahead, n) ELSE -1
      <4>1. NewLinesIn(x, TextLength) = ahead
        BY <1>1, <1>8, NewLinesAre
      <4> QED BY <2>1, <4>1 DEF CharOffsetForward, x
    <3>2. /\ Cardinality(ahead) = Cardinality(S) - (from.line + 1)
          /\ \A i \in 1 .. Cardinality(ahead) :
               Nth(ahead, i) \in S /\ Below(S, Nth(ahead, i)) = i + (from.line + 1)
      <4>1. x \in Int /\ TextLength \in Int /\ x <= TextLength
        BY <1>1, <1>8
      <4> QED BY <1>2, <1>8, <1>10, <4>1, BetweenIs
    <3> HIDE DEF ahead, o
    <3>3. CASE n <= Cardinality(ahead)
      <4>1. n \in 1 .. Cardinality(ahead) /\ n + (from.line + 1) = l + 1
        BY <1>3, <1>4, <1>7, <2>1, <3>2, <3>3
      <4> QED BY <3>1, <3>2, <3>3, <4>1
    <3>4. CASE ~ (n <= Cardinality(ahead))
      <4>1. l = Cardinality(S)
        BY <1>3, <1>4, <1>7, <3>2, <3>4
      <4> QED BY <3>1, <3>4, <4>1
    <3> QED BY <3>3, <3>4
  <2>2. CASE l < from.line /\ l = 0
    <3>1. o = 0
      BY <1>7, <2>2 DEF CharOffsetBackward
    <3> QED BY <1>2, <1>10, <2>2, <3>1
  <2>3. CASE l < from.line /\ l # 0
    <3> DEFINE behind == Between(S, 0, x)
               n == Cardinality(behind) - (from.line - l)
    <3>1. o = IF n < 1 THEN Crash ELSE Nth(behind, n)
      <4>1. NewLinesIn(0, x) = behind
        BY <1>8, NewLinesAre
      <4>2. ~ (l > from.line)
        BY <1>4, <1>7, <2>3
      <4> QED BY <2>3, <4>1, <4>2 DEF CharOffsetBackward, x
    <3>2. /\ Cardinality(behind) = (from.line + 1) - 1
          /\ \A i \in 1 .. Cardinality(behind) :
               Nth(behind, i) \in S /\ Below(S, Nth(behind, i)) = i + 1
      <4>1. x \in Int /\ 0 \in Int /\ 0 <= x
        BY <1>8
      <4> QED BY <1>2, <1>8, <1>10, <4>1, BetweenIs
    <3> HIDE DEF behind, o
    <3>3. n = l /\ n \in 1 .. Cardinality(behind) /\ ~ (n < 1)
      BY <1>4, <1>7, <2>3, <3>2
    <3> QED BY <3>1, <3>2, <3>3
  <2>4. CASE l = from.line
    <3>1. o = x
      BY <1>7, <2>4 DEF x
    <3> QED BY <1>8, <2>4, <3>1
  <2> QED BY <1>4, <1>7, <2>1, <2>2, <2>3, <2>4
<1> HIDE DEF o
<1>12. GetLineOffset(l).answer = IF l < Cardinality(S) THEN Nth(S, l + 1) ELSE -1
  <2>1. CASE found(o)
    <3>1. l + 1 \in 1 .. Cardinality(S) /\ Nth(S, l + 1) = o
      BY <1>9, <2>1
    <3>2. l < Cardinality(S)
      BY <1>3, <1>4, <3>1
    <3> QED BY <1>6, <3>1, <3>2
  <2>2. CASE o = -1 /\ l = Cardinality(S)
    BY <1>3, <1>6, <2>2
  <2> QED BY <1>11, <2>1, <2>2
<1>13. \A j \in 1 .. CacheSize : Right(GetLineOffset(l).cache[j], Text)
  <2>1. PICK t : t = Text
    OBVIOUS
  <2>2. IsCache(MakeHead(k)) /\ \A j \in 1 .. CacheSize : Right(MakeHead(k)[j], t)
    BY <1>5, <2>1, MakeHeadIs, MakeHeadKeeps
  <2>3. CASE found(o)
    <3>1. Right([line |-> l, offset |-> o], t)
      BY <2>1, <2>3 DEF Right
    <3>2. l \in Int /\ o \in Int
      BY <1>2, <1>4, <2>3
    <3>3. \A j \in 1 .. CacheSize : Right(UpdateEntry(MakeHead(k), l, o)[j], t)
      BY <2>2, <3>1, <3>2, UpdateEntryKeeps
    <3> QED BY <1>6, <2>1, <2>2, <3>3
  <2>4. CASE o = -1
    <3>1. ~ (o >= 0)
      BY <2>4
    <3> QED BY <1>6, <2>1, <2>2, <3>1
  <2> QED BY <1>11, <2>3, <2>4
<1> QED BY <1>12, <1>13

\* And the line that an offset is in.
LEMMA OffsetIsFound ==
  ASSUME ArrayInv, IsCache(cache), \A k \in 1 .. CacheSize : Right(cache[k], Text),
         NEW S, S = Starts(Text), NEW o \in 0 .. Len(Text)
  PROVE  /\ FindLineNumber(o).answer = Below(S, o) - 1
         /\ \A k \in 1 .. CacheSize : Right(FindLineNumber(o).cache[k], Text)
<1> DEFINE k == NearestOffset(o)
           from == cache[k]
           x == from.offset
           ahead == Between(S, x, o)
           behind == Between(S, o, x)
           line == from.line + Cardinality(ahead) - Cardinality(behind)
           head == MakeHead(k)
           i == Nth(ahead, Cardinality(ahead))
           j == Nth(behind, 1)
<1>1. Len(Text) \in Nat
  BY CharsAre
<1>2. IsPlaces(S) /\ \A y \in S : y \in 0 .. Len(Text)
  <2>1. PICK t : t = Text
    OBVIOUS
  <2> QED BY <1>1, <2>1, StartsAre
<1>3. o \in Nat /\ o \in Int /\ o >= 0
  BY <1>1
<1>4. k \in 1 .. CacheSize /\ from # NoEntry
  BY <1>3, NearestEntryIs
<1>5. Right(from, Text) /\ from.line \in Int
  <2> HIDE DEF k
  <2> QED BY <1>4, EntryIs
<1>6. x \in S /\ x \in Nat /\ x \in Int /\ from.line + 1 = Below(S, x)
  <2> HIDE DEF from
  <2> QED BY <1>2, <1>4, <1>5 DEF Right
<1>7. FindLineNumber(o) = [answer |-> line,
        cache |-> IF ahead # {} THEN UpdateEntry(head, line, i)
                  ELSE IF behind # {} THEN UpdateEntry(head, line + 1, j)
                  ELSE head]
  <2>1. NewLinesIn(x, o) = ahead /\ NewLinesIn(o, x) = behind
    <3> HIDE DEF from, ahead, behind
    <3> QED BY <1>3, <1>6, NewLinesAre DEF ahead, behind
  <2> HIDE DEF ahead, behind
  <2> QED BY <2>1 DEF FindLineNumber
<1> HIDE DEF k, from, head
<1>8. /\ Cardinality(ahead) \in Nat /\ (ahead = {} <=> Cardinality(ahead) = 0)
      /\ x <= o => Cardinality(ahead) = Below(S, o) - Below(S, x)
      /\ o <= x => ahead = {}
      /\ \A n \in 1 .. Cardinality(ahead) :
           Nth(ahead, n) \in S /\ Below(S, Nth(ahead, n)) = n + Below(S, x)
  <2> HIDE DEF x
  <2> QED BY <1>2, <1>3, <1>6, BetweenIs
<1>9. /\ Cardinality(behind) \in Nat /\ (behind = {} <=> Cardinality(behind) = 0)
      /\ o <= x => Cardinality(behind) = Below(S, x) - Below(S, o)
      /\ x <= o => behind = {}
      /\ \A n \in 1 .. Cardinality(behind) :
           Nth(behind, n) \in S /\ Below(S, Nth(behind, n)) = n + Below(S, o)
  <2> HIDE DEF x
  <2> QED BY <1>2, <1>3, <1>6, BetweenIs
<1>10. Below(S, o) \in Nat /\ Below(S, x) \in Nat
  <2> HIDE DEF x
  <2> QED BY <1>2, <1>3, <1>6, BelowIs
<1> HIDE DEF ahead, behind, x
<1>11. line = Below(S, o) - 1
  <2>1. from.line = Below(S, x) - 1
    BY <1>5, <1>6, <1>10
  <2>2. CASE x <= o
    <3>1. Cardinality(ahead) = Below(S, o) - Below(S, x) /\ Cardinality(behind) = 0
      BY <1>8, <1>9, <2>2
    <3> QED BY <1>10, <2>1, <3>1
  <2>3. CASE o <= x
    <3>1. Cardinality(behind) = Below(S, x) - Below(S, o) /\ Cardinality(ahead) = 0
      BY <1>8, <1>9, <2>3
    <3> QED BY <1>10, <2>1, <3>1
  <2> QED BY <1>3, <1>6, <2>2, <2>3
<1>12. \A q \in 1 .. CacheSize : Right(FindLineNumber(o).cache[q], Text)
  <2>1. PICK t : t = Text
    OBVIOUS
  <2>2. IsCache(head) /\ \A q \in 1 .. CacheSize : Right(head[q], t)
    BY <1>4, <2>1, MakeHeadIs, MakeHeadKeeps DEF head
  <2> HIDE DEF line, i, j
  <2>3. CASE ahead # {}
    <3>1. Cardinality(ahead) \in 1 .. Cardinality(ahead) /\ x <= o
      BY <1>3, <1>6, <1>8, <2>3
    <3>2. i \in S /\ Below(S, i) = line + 1
      BY <1>8, <1>10, <1>11, <3>1 DEF i
    <3>3. line \in Int /\ i \in Int /\ Right([line |-> line, offset |-> i], t)
      BY <1>2, <1>10, <1>11, <2>1, <3>2 DEF Right
    <3>4. \A q \in 1 .. CacheSize : Right(UpdateEntry(head, line, i)[q], t)
      BY <2>2, <3>3, UpdateEntryKeeps
    <3> QED BY <1>7, <2>1, <2>3, <3>4
  <2>4. CASE ahead = {} /\ behind # {}
    <3>1. 1 \in 1 .. Cardinality(behind)
      BY <1>9, <2>4
    <3>2. j \in S /\ Below(S, j) = (line + 1) + 1
      BY <1>9, <1>10, <1>11, <3>1 DEF j
    <3>3. line + 1 \in Int /\ j \in Int /\ Right([line |-> line + 1, offset |-> j], t)
      BY <1>2, <1>10, <1>11, <2>1, <3>2 DEF Right
    <3>4. \A q \in 1 .. CacheSize : Right(UpdateEntry(head, line + 1, j)[q], t)
      <4> DEFINE next == line + 1
      <4> HIDE DEF next
      <4>1. next \in Int /\ Right([line |-> next, offset |-> j], t)
        BY <3>3 DEF next
      <4>2. \A q \in 1 .. CacheSize : Right(UpdateEntry(head, next, j)[q], t)
        BY <2>2, <3>3, <4>1, UpdateEntryKeeps
      <4> QED BY <4>2 DEF next
    <3> QED BY <1>7, <2>1, <2>4, <3>4
  <2>5. CASE ahead = {} /\ behind = {}
    BY <1>7, <2>1, <2>2, <2>5
  <2> QED BY <2>3, <2>4, <2>5
<1> QED BY <1>7, <1>11, <1>12

\* The lookups answer as a scan of the text does.
LEMMA LookupsAre ==
  ASSUME ArrayInv, CacheInv, EntriesInv
  PROVE  LookupsMatchText
<1> SUFFICES ASSUME ~ stale
             PROVE  /\ \A l \in 0 .. Len(LineStarts(Text)) : GetLineOffset(l).answer =
                         IF l < Len(LineStarts(Text)) THEN LineStarts(Text)[l + 1] ELSE -1
                    /\ \A o \in 0 .. Len(Text) : FindLineNumber(o).answer = Len(NewLines(Text, 0, o))
  BY DEF LookupsMatchText
<1> DEFINE S == Starts(Text)
<1>1. IsCache(cache) /\ \A k \in 1 .. CacheSize : Right(cache[k], Text)
  BY DEF CacheInv, EntriesInv
<1>2. Len(Text) \in Nat
  BY CharsAre
<1>3. PICK t : t = Text
  OBVIOUS
<1>4. IsPlaces(S) /\ 0 \in S /\ \A y \in S : y \in Int /\ y >= 0
  <2>1. 0 \in S
    BY DEF Starts
  <2>2. IsPlaces(S) /\ \A y \in S : y \in 0 .. Len(t)
    BY <1>2, <1>3, StartsAre
  <2> HIDE DEF S
  <2> QED BY <1>2, <1>3, <2>1, <2>2
<1>5. /\ LineStarts(Text) = InOrder(S) /\ Len(InOrder(S)) = Cardinality(S) /\ Cardinality(S) \in Nat
      /\ \A q \in 1 .. Cardinality(S) : InOrder(S)[q] = Nth(S, q)
  <2> HIDE DEF S
  <2>1. LineStarts(Text) = InOrder(S)
    BY <1>2, <1>3, LineStartsAre DEF S
  <2> QED BY <1>4, <2>1, InOrderIs, PlacesAre
<1>6. ASSUME NEW l \in 0 .. Len(LineStarts(Text))
      PROVE  GetLineOffset(l).answer = IF l < Len(LineStarts(Text)) THEN LineStarts(Text)[l + 1] ELSE -1
  <2> HIDE DEF S
  <2>1. l \in 0 .. Cardinality(S)
    BY <1>5
  <2>2. GetLineOffset(l).answer = IF l < Cardinality(S) THEN Nth(S, l + 1) ELSE -1
    BY <1>1, <2>1, LineIsFound DEF S
  <2>3. l < Cardinality(S) => l + 1 \in 1 .. Cardinality(S)
    BY <1>5, <2>1
  <2> QED BY <1>5, <2>2, <2>3
<1>7. ASSUME NEW o \in 0 .. Len(Text) PROVE FindLineNumber(o).answer = Len(NewLines(Text, 0, o))
  <2> DEFINE N == {i \in 0 + 1 .. o : i <= Len(Text) /\ Text[i] = NL}
  <2>1. N = Between(S, 0, o)
    <3>1. \A i : i \in 0 + 1 .. o => i \in 1 .. Len(Text) /\ i # 0
      BY <1>2
    <3>2. \A i \in S : i \in Int
      BY <1>4
    <3>3. \A i : i \in N <=> i \in S /\ 0 < i /\ i <= o
      BY <1>2, <3>1, <3>2 DEF Starts
    <3> HIDE DEF N, S
    <3> QED BY <3>3 DEF Between
  <2> HIDE DEF N, S
  <2>2. 0 \in Int /\ o \in Int /\ 0 <= o
    BY <1>2
  <2>3. IsPlaces(N) /\ Cardinality(N) = Below(S, o) - Below(S, 0)
    BY <1>4, <2>1, <2>2, BetweenIs
  <2>4. NewLines(Text, 0, o) = InOrder(N)
    BY DEF NewLines, N
  <2>5. Len(NewLines(Text, 0, o)) = Cardinality(N)
    BY <2>3, <2>4, InOrderIs
  <2>6. Below(S, 0) = 1
    <3>1. {y \in S : y <= 0} = {0}
      BY <1>4
    <3> QED BY <3>1, FS_Singleton DEF Below
  <2>7. FindLineNumber(o).answer = Below(S, o) - 1
    BY <1>1, OffsetIsFound DEF S
  <2> QED BY <2>3, <2>5, <2>6, <2>7
<1> QED BY <1>6, <1>7

-----------------------------------------------------------------------------
(* The invariant.                                                           *)

DerivedInv == RowsMatchText /\ EntriesInv

\* Between two calls the stack is never cut between two commands of one group.
CutsBetweenGroups ==
  walk = "none" /\ canUndo /\ canRedo => stack[top].group # stack[top + 1].group

IInv == ArrayInv /\ CacheInv /\ RecordInv /\ TextIsVersionUnlessSpoilt /\ CutsBetweenGroups /\ DerivedInv

\* Each change of the text only takes entries out of the cache.
LEMMA CacheStep ==
  ASSUME CacheInv,
         (\E s, at : insert(s, at)) \/ (\E at, n : delete(at, n)) \/ (\E d : shiftGapStart(d))
  PROVE  CacheInv'
<1>1. PICK from, a, b : cache' = Invalidate(from) /\ MarkStale(a, b)
  BY DEF insert, delete, shiftGapStart
<1>2. IsCache(cache')
  BY <1>1, InvalidateIs DEF CacheInv
<1>3. stale' \in BOOLEAN
  BY <1>1, Zenon DEF MarkStale
<1> QED BY <1>2, <1>3 DEF CacheInv

\* What the steps that leave the text and the commands alone keep.
LEMMA SameStep ==
  ASSUME ArrayInv, RecordInv,
         UNCHANGED <<contents, gapStart, gapEnd, allocMultiplier, stack, top, versions, spoilt>>,
         batch' \in BOOLEAN, groupId' \in Nat, walk' \in {"none", "undo", "redo"}
  PROVE  ArrayInv' /\ RecordInv' /\ Text' = Text
<1>1. Size' = Size /\ GapSize' = GapSize
  BY DEF Size, GapSize
<1>2. ArrayInv'
  BY <1>1 DEF ArrayInv
<1>3. Text' = Text
  BY <1>1, TextIs
<1>4. StackInv'
  BY DEF RecordInv, StackInv
<1>5. FitsInv' /\ RoomInv' /\ ReachableInv' /\ DescribesInv'
  BY <1>1 DEF RecordInv, FitsInv, RoomInv, ReachableInv, DescribesInv
<1> QED BY <1>2, <1>3, <1>4, <1>5 DEF RecordInv

\* The array of a document that has just been loaded.
LEMMA LoadedIs ==
  ASSUME NEW t \in Seq(Char), setText(t)
  PROVE  ArrayInv /\ CacheInv /\ Text = t /\ Len(t) + 2 <= Size
<1> DEFINE n == Len(t)
           size == n + MinGap + 1
           e(i) == IF i = n + MinGap THEN EOF
                   ELSE IF i < MinGap THEN IF i < n THEN t[i + 1] ELSE NUL
                   ELSE t[i - MinGap + 1]
<1>1. n \in Nat /\ MinGap \in Nat \ {0} /\ \A i \in 1 .. n : t[i] \in C
  <2>1. n \in Nat /\ MinGap \in Nat \ {0}
    BY LenProperties, SizeAssumption
  <2>2. \A i \in 1 .. n : t[i] \in Char
    BY ElementOfSeq
  <2> QED BY <2>1, <2>2 DEF C
<1>2. /\ contents = [i \in 0 .. (n + MinGap) |-> e(i)]
      /\ gapStart = 0 /\ gapEnd = MinGap /\ allocMultiplier = 1 /\ cache = EmptyCache /\ stale = FALSE
  BY DEF setText
<1> HIDE DEF n
<1>3. DOMAIN contents = 0 .. size - 1 /\ size \in Nat /\ \A i \in 0 .. size - 1 : contents[i] = e(i)
  <2>1. size \in Nat /\ size - 1 = n + MinGap
    BY <1>1
  <2> HIDE DEF e
  <2> QED BY <1>2, <2>1
<1>4. Size = size
  <2>1. Cardinality(0 .. size - 1) = size
    BY <1>3, SizeIs
  <2> QED BY <1>3, <2>1 DEF Size
<1>5. ASSUME NEW i \in 0 .. size - 2 PROVE contents[i] \in C
  <2>1. contents[i] = e(i) /\ i # n + MinGap
    BY <1>1, <1>3
  <2>2. CASE i < MinGap /\ i < n
    <3>1. i + 1 \in 1 .. n
      BY <1>1, <2>2
    <3> QED BY <1>1, <2>1, <2>2, <3>1
  <2>3. CASE i < MinGap /\ ~ (i < n)
    BY <2>1, <2>3 DEF C
  <2>4. CASE ~ (i < MinGap)
    <3>1. i - MinGap + 1 \in 1 .. n
      BY <1>1, <2>4
    <3> QED BY <1>1, <2>1, <2>4, <3>1
  <2> QED BY <2>2, <2>3, <2>4
<1>6. contents[size - 1] = EOF
  <2>1. size - 1 \in 0 .. size - 1 /\ size - 1 = n + MinGap
    BY <1>1
  <2> QED BY <1>3, <2>1
<1>7. ArrayInv
  <2>1. /\ gapStart \in Nat /\ gapEnd \in Nat /\ gapStart < gapEnd /\ gapEnd < Size
        /\ allocMultiplier \in Nat \ {0}
    BY <1>1, <1>2, <1>4
  <2> HIDE DEF e, C, size
  <2> QED BY <1>3, <1>4, <1>5, <1>6, <2>1 DEF ArrayInv
<1>8. Len(Text) = n /\ Text \in Seq(C) /\ \A i \in 1 .. n : Text[i] = contents[i - 1 + MinGap]
  <2>1. /\ Text \in Seq(C) /\ Len(Text) \in Nat /\ Len(Text) = Size - GapSize - 1
        /\ \A i \in 1 .. Len(Text) :
             Text[i] = contents[IF i <= gapStart THEN i - 1 ELSE i - 1 + GapSize]
    <3> HIDE DEF C
    <3> QED BY <1>7, CharsAre
  <2>2. GapSize = MinGap
    BY <1>1, <1>2 DEF GapSize
  <2>3. Len(Text) = n
    BY <1>1, <1>4, <2>1, <2>2
  <2>4. \A i \in 1 .. n : ~ (i <= gapStart)
    BY <1>1, <1>2
  <2> HIDE DEF C
  <2> QED BY <2>1, <2>2, <2>3, <2>4
<1>9. ASSUME NEW i \in 1 .. n PROVE Text[i] = t[i]
  <2>1. i - 1 + MinGap \in 0 .. size - 1 /\ i - 1 + MinGap # n + MinGap /\ ~ (i - 1 + MinGap < MinGap)
        /\ i - 1 + MinGap - MinGap + 1 = i
    BY <1>1
  <2>2. contents[i - 1 + MinGap] = t[i - 1 + MinGap - MinGap + 1]
    <3>1. PICK j \in 0 .. size - 1 : j = i - 1 + MinGap
      BY <2>1
    <3>2. contents[j] = t[j - MinGap + 1]
      BY <1>3, <2>1, <3>1
    <3>3. i - 1 + MinGap - MinGap + 1 = j - MinGap + 1
      BY <1>1, <3>1
    <3> HIDE DEF size
    <3>4. contents[i - 1 + MinGap] = contents[j]
      BY <3>1
    <3> QED BY <3>2, <3>3, <3>4
  <2> QED BY <1>8, <2>1, <2>2
<1>10. Text = t
  <2>1. t \in Seq(C) /\ Len(t) = n
    BY DEF C, n
  <2> HIDE DEF C
  <2> QED BY <1>8, <1>9, <2>1, SeqEqual
<1>11. CacheInv
  <2>1. \A k \in 1 .. CacheSize : (IF k = 1 THEN [line |-> 0, offset |-> 0] ELSE NoEntry) \in Entry
    BY DEF NoEntry, Entry
  <2>2. EmptyCache \in [1 .. CacheSize -> Entry]
    BY <2>1 DEF EmptyCache
  <2> QED BY <1>2, <2>2 DEF CacheInv, IsCache
<1>12. Len(t) + 2 <= Size
  BY <1>1, <1>4 DEF n
<1> QED BY <1>7, <1>10, <1>11, <1>12

\* The rows, the count of lines and the cache of that document.
LEMMA LoadedDerived ==
  ASSUME NEW t \in Seq(Char), setText(t), Text = t
  PROVE  DerivedInv
<1>1. Len(t) \in Nat
  BY LenProperties
<1>2. RowsMatchText
  <2> DEFINE N == {i \in (0 + 1) .. Len(t) : i <= Len(t) /\ t[i] = NL}
  <2>1. IsPlaces(N)
    <3>1. N \in SUBSET (0 .. Len(t))
      BY <1>1
    <3> HIDE DEF N
    <3> QED BY <1>1, <3>1 DEF IsPlaces
  <2>2. NewLines(t, 0, Len(t)) = InOrder(N)
    BY DEF NewLines
  <2> HIDE DEF N
  <2>3. NewLines(t, 0, Len(t)) \in Seq(Int)
    BY <2>1, <2>2, InOrderIs DEF IsInOrder
  <2>4. <<0>> \in Seq(Int) /\ Len(<<0>>) = 1
    OBVIOUS
  <2>5. Len(<<0>> \o NewLines(t, 0, Len(t))) = 1 + Len(NewLines(t, 0, Len(t)))
    BY <2>3, <2>4, ConcatProperties
  <2>6. rowTable = LineStarts(t) /\ lineCount = 1 + Len(NewLines(t, 0, Len(t)))
    BY DEF setText
  <2> QED BY <2>5, <2>6 DEF RowsMatchText, LineStarts
<1>3. EntriesInv
  <2> SUFFICES ASSUME NEW k \in 1 .. CacheSize PROVE Right(cache[k], t)
    BY DEF EntriesInv
  <2>1. cache[k] = IF k = 1 THEN [line |-> 0, offset |-> 0] ELSE NoEntry
    BY DEF setText, EmptyCache
  <2>2. 0 \in Starts(t) /\ \A y \in Starts(t) : y \in Int /\ y >= 0
    <3>1. 0 \in Starts(t)
      BY DEF Starts
    <3> QED BY <1>1, <3>1, StartsAre
  <2>3. Below(Starts(t), 0) = 1
    <3>1. {y \in Starts(t) : y <= 0} = {0}
      BY <2>2
    <3> QED BY <3>1, FS_Singleton DEF Below
  <2> QED BY <2>1, <2>2, <2>3 DEF Right
<1> QED BY <1>2, <1>3 DEF DerivedInv

LEMMA InitInv == Init => IInv
<1> SUFFICES ASSUME Init PROVE IInv
  OBVIOUS
<1>1. PICK t \in InitialText : setText(t) /\ versions = <<t>>
  BY DEF Init
<1>2. t \in Seq(Char)
  BY EditAssumption
<1>3. ArrayInv /\ CacheInv /\ Text = t /\ Len(t) + 2 <= Size
  BY <1>1, <1>2, LoadedIs
<1>4. /\ stack = <<>> /\ top = 0 /\ groupId = 0
      /\ batch = FALSE /\ walk = "none" /\ spoilt = FALSE
  BY DEF Init
<1>5. stack \in Seq(Command) /\ Len(stack) = 0
  BY <1>4, EmptySeq
<1>6. versions \in Seq(Seq(Char)) /\ Len(versions) = 1 /\ versions[1] = t
  BY <1>1, <1>2
<1>7. RecordInv
  <2>1. StackInv
    <3>1. top \in 0 .. Len(stack) /\ Len(versions) = Len(stack) + 1
      BY <1>4, <1>5, <1>6
    <3>2. batch \in BOOLEAN /\ groupId \in Nat /\ walk \in {"none", "undo", "redo"} /\ spoilt \in BOOLEAN
      BY <1>4
    <3> QED BY <1>5, <1>6, <3>1, <3>2 DEF StackInv
  <2>2. FitsInv /\ ReachableInv /\ DescribesInv
    BY <1>5 DEF FitsInv, ReachableInv, DescribesInv
  <2>3. RoomInv
    BY <1>3, <1>6 DEF RoomInv
  <2> QED BY <2>1, <2>2, <2>3 DEF RecordInv
<1>8. TextIsVersionUnlessSpoilt
  BY <1>3, <1>4, <1>6 DEF TextIsVersionUnlessSpoilt, TextIsVersion
<1>9. CutsBetweenGroups
  BY <1>4 DEF CutsBetweenGroups, canUndo
<1>10. DerivedInv
  BY <1>1, <1>2, <1>3, LoadedDerived
<1> QED BY <1>3, <1>7, <1>8, <1>9, <1>10 DEF IInv

\* What the steps do to the array and the record.
LEMMA RecordStep ==
  ASSUME IInv, Next
  PROVE  ArrayInv' /\ CacheInv' /\ RecordInv' /\ (~ spoilt' => Text' = versions'[top' + 1])
<1>1. ArrayInv /\ CacheInv /\ RecordInv /\ (~ spoilt => Text = versions[top + 1])
  BY DEF IInv, TextIsVersionUnlessSpoilt, TextIsVersion
<1>2. StackInv
  BY <1>1 DEF RecordInv
<1>3. ASSUME NEW s \in Inserts, NEW at \in 0 .. MaxText, NEW soon \in BOOLEAN, Insert(s, at, soon)
      PROVE  ArrayInv' /\ CacheInv' /\ RecordInv' /\ (~ spoilt' => Text' = versions'[top' + 1])
  <2>1. insert(s, at)
    BY <1>3 DEF Insert
  <2>2. CacheInv'
    BY <1>1, <2>1, CacheStep
  <2>3. ArrayInv' /\ RecordInv' /\ Text' = versions'[top' + 1]
    BY <1>1, <1>3, InsertStep
  <2> QED BY <2>2, <2>3
<1>4. ASSUME NEW n \in 1 .. MaxDelete, NEW at \in 0 .. MaxText, NEW soon \in BOOLEAN, Delete(at, n, soon)
      PROVE  ArrayInv' /\ CacheInv' /\ RecordInv' /\ (~ spoilt' => Text' = versions'[top' + 1])
  <2>1. delete(at, n)
    BY <1>4 DEF Delete
  <2>2. CacheInv'
    BY <1>1, <2>1, CacheStep
  <2>3. ArrayInv' /\ RecordInv' /\ Text' = versions'[top' + 1]
    BY <1>1, <1>4, DeleteStep
  <2> QED BY <2>2, <2>3
<1>5. CASE BeginBatchEdit
  <2>1. /\ UNCHANGED <<contents, gapStart, gapEnd, allocMultiplier, stack, top, versions, spoilt>>
        /\ UNCHANGED <<cache, stale, walk, groupId>> /\ batch' = TRUE
    BY <1>5 DEF BeginBatchEdit, bufferVars
  <2>2. batch' \in BOOLEAN /\ groupId' \in Nat /\ walk' \in {"none", "undo", "redo"}
    BY <1>2, <2>1 DEF StackInv
  <2>3. ArrayInv' /\ RecordInv' /\ Text' = Text
    BY <1>1, <2>1, <2>2, SameStep
  <2> QED BY <1>1, <2>1, <2>3 DEF CacheInv
<1>6. CASE EndBatchEdit
  <2>1. /\ UNCHANGED <<contents, gapStart, gapEnd, allocMultiplier, stack, top, versions, spoilt>>
        /\ UNCHANGED <<cache, stale, walk>> /\ batch' = FALSE /\ groupId' = groupId + 1
    BY <1>6 DEF EndBatchEdit, bufferVars
  <2>4. groupId \in Nat /\ walk \in {"none", "undo", "redo"}
    BY <1>2 DEF StackInv
  <2>5. groupId' \in Nat /\ batch' = FALSE /\ walk' = walk
    BY <2>1, <2>4
  <2>2. batch' \in BOOLEAN /\ groupId' \in Nat /\ walk' \in {"none", "undo", "redo"}
    BY <2>4, <2>5
  <2>3. ArrayInv' /\ RecordInv' /\ Text' = Text
    BY <1>1, <2>1, <2>2, SameStep
  <2> QED BY <1>1, <2>1, <2>3 DEF CacheInv
<1>7. CASE Undo
  <2>1. UndoCommand(stack[top])
    BY <1>7 DEF Undo
  <2>2. (\E s, at : insert(s, at)) \/ (\E at, n : delete(at, n)) \/ (\E d : shiftGapStart(d))
    BY <2>1, Zenon DEF UndoCommand
  <2>3. CacheInv'
    BY <1>1, <2>2, CacheStep
  <2>4. ArrayInv' /\ RecordInv' /\ (~ spoilt' => Text' = versions'[top' + 1])
    BY <1>1, <1>7, UndoStep
  <2> QED BY <2>3, <2>4
<1>8. CASE Redo
  <2>1. RedoCommand(stack[top + 1])
    BY <1>8 DEF Redo
  <2>2. (\E s, at : insert(s, at)) \/ (\E at, n : delete(at, n)) \/ (\E d : shiftGapStart(d))
    BY <2>1, Zenon DEF RedoCommand
  <2>3. CacheInv'
    BY <1>1, <2>2, CacheStep
  <2>4. ArrayInv' /\ RecordInv' /\ (~ spoilt' => Text' = versions'[top' + 1])
    BY <1>1, <1>8, RedoStep
  <2> QED BY <2>3, <2>4
<1>9. CASE Lookup
  <2>1. /\ UNCHANGED <<contents, gapStart, gapEnd, allocMultiplier, stack, top, versions, spoilt>>
        /\ UNCHANGED <<stale, walk, groupId, batch>>
    BY <1>9 DEF Lookup, LookupLine, LookupOffset, undoVars
  <2>2. batch' \in BOOLEAN /\ groupId' \in Nat /\ walk' \in {"none", "undo", "redo"}
    BY <1>2, <2>1 DEF StackInv
  <2>3. ArrayInv' /\ RecordInv' /\ Text' = Text
    BY <1>1, <2>1, <2>2, SameStep
  <2>4. PICK x \in Int : cache' = GetLineOffset(x).cache \/ cache' = FindLineNumber(x).cache
    BY <1>9 DEF Lookup, LookupLine, LookupOffset
  <2>5. IsCache(cache')
    BY <1>1, <2>4, LookupIs DEF CacheInv
  <2> QED BY <1>1, <2>1, <2>3, <2>5 DEF CacheInv
<1> QED BY <1>3, <1>4, <1>5, <1>6, <1>7, <1>8, <1>9 DEF Next

\* Where the stack may be cut.
LEMMA CutsStep ==
  ASSUME IInv, Next
  PROVE  CutsBetweenGroups'
<1>1. ArrayInv /\ RecordInv /\ CutsBetweenGroups
  BY DEF IInv
<1>2. top \in 0 .. Len(stack) /\ Len(stack) \in Nat
  BY <1>1, LenProperties DEF RecordInv, StackInv
<1>3. ASSUME Len(stack') = top' PROVE CutsBetweenGroups'
  <2>1. RecordInv'
    BY RecordStep
  <2>2. Len(stack') \in Nat
    BY <2>1, LenProperties DEF RecordInv, StackInv
  <2>3. ~ (top' < Len(stack'))
    BY <1>3, <2>2
  <2> QED BY <2>3 DEF CutsBetweenGroups, canRedo
<1>4. CASE UNCHANGED <<stack, top, walk>>
  BY <1>1, <1>4 DEF CutsBetweenGroups, canUndo, canRedo
<1>5. ASSUME NEW s \in Inserts, NEW at \in 0 .. MaxText, NEW soon \in BOOLEAN, Insert(s, at, soon)
      PROVE  CutsBetweenGroups'
  BY <1>1, <1>3, <1>5, InsertStep
<1>6. ASSUME NEW n \in 1 .. MaxDelete, NEW at \in 0 .. MaxText, NEW soon \in BOOLEAN, Delete(at, n, soon)
      PROVE  CutsBetweenGroups'
  BY <1>1, <1>3, <1>6, DeleteStep
<1>7. CASE Undo
  <2>1. /\ top' = top - 1 /\ top > 0
        /\ walk' = IF top > 1 /\ stack[top - 1].group = stack[top].group THEN "undo" ELSE "none"
    BY <1>7 DEF Undo, canUndo
  <2>2. \A i \in 1 .. Len(stack) : stack'[i].group = stack[i].group
    BY <1>1, <1>7, UndoStep
  <2>3. ASSUME walk' = "none", top' > 0 PROVE stack'[top'].group # stack'[top' + 1].group
    <3>1. top > 1 /\ stack[top - 1].group # stack[top].group
      BY <1>2, <2>1, <2>3
    <3>2. top' = top - 1 /\ top' + 1 = top /\ top - 1 \in 1 .. Len(stack) /\ top \in 1 .. Len(stack)
      BY <1>2, <2>1, <3>1
    <3> QED BY <2>2, <3>1, <3>2
  <2> QED BY <2>3 DEF CutsBetweenGroups, canUndo
<1>8. CASE Redo
  <2>1. /\ top' = top + 1 /\ stack' = stack
        /\ walk' = IF top + 2 <= Len(stack) /\ stack[top + 2].group = stack[top + 1].group
                     THEN "redo" ELSE "none"
    BY <1>8 DEF Redo
  <2>2. ASSUME walk' = "none", top' < Len(stack') PROVE stack'[top'].group # stack'[top' + 1].group
    <3>1. top + 2 <= Len(stack) /\ top' + 1 = top + 2
      BY <1>2, <2>1, <2>2
    <3>2. stack[top + 2].group # stack[top + 1].group
      BY <2>1, <2>2, <3>1
    <3> QED BY <2>1, <3>1, <3>2
  <2> QED BY <2>2 DEF CutsBetweenGroups, canRedo
<1>9. CASE BeginBatchEdit \/ EndBatchEdit \/ Lookup
  BY <1>4, <1>9 DEF BeginBatchEdit, EndBatchEdit, Lookup, undoVars
<1> QED BY <1>5, <1>6, <1>7, <1>8, <1>9 DEF Next

\* What is derived from the text follows it, or stays with it.
LEMMA DerivedSame ==
  ASSUME UNCHANGED <<contents, gapStart, gapEnd, lineCount, rowTable, stale>>
  PROVE  /\ Text' = Text
         /\ RowsMatchText => RowsMatchText'
         /\ cache' = cache /\ EntriesInv => EntriesInv'
<1>1. Text' = Text
  BY TextIs DEF Size
<1>2. RowsMatchText => RowsMatchText'
  BY <1>1 DEF RowsMatchText
<1>3. cache' = cache /\ EntriesInv => EntriesInv'
  BY <1>1 DEF EntriesInv
<1> QED BY <1>1, <1>2, <1>3

LEMMA DerivedStep ==
  ASSUME IInv, Next
  PROVE  DerivedInv'
<1>1. ArrayInv /\ CacheInv /\ RecordInv /\ RowsMatchText /\ EntriesInv
  BY DEF IInv, DerivedInv
<1>2. Len(Text) \in Nat /\ lineCount \in Nat /\ lineCount = Cardinality(Starts(Text))
  <2>1. Len(Text) \in Nat
    BY <1>1, CharsAre
  <2>2. PICK t : t = Text
    OBVIOUS
  <2>3. /\ LineStarts(t) = InOrder(Starts(t)) /\ Len(InOrder(Starts(t))) = Cardinality(Starts(t))
        /\ Cardinality(Starts(t)) \in Nat
    BY <2>1, <2>2, LineStartsAre, StartsAre, InOrderIs, PlacesAre
  <2> QED BY <1>1, <2>1, <2>2, <2>3 DEF RowsMatchText
<1>3. ASSUME \E at, n, m : Edits(at, n, m) PROVE DerivedInv'
  <2>1. PICK at, n, m : Edits(at, n, m)
    BY <1>3
  <2> QED BY <1>1, <2>1, RowsStep, EntriesStep DEF DerivedInv
<1>4. ASSUME NEW s \in Inserts, NEW at \in 0 .. MaxText, NEW soon \in BOOLEAN, Insert(s, at, soon)
      PROVE  DerivedInv'
  <2>1. insert(s, at) /\ at \in 0 .. Len(Text)
    BY <1>4 DEF Insert
  <2>2. s \in Seq(C)
    BY EditAssumption DEF C
  <2>3. Edits(at, 0, Len(s))
    BY <1>1, <1>2, <2>1, <2>2, InsertEdits
  <2> QED BY <1>3, <2>3
<1>5. ASSUME NEW n \in 1 .. MaxDelete, NEW at \in 0 .. MaxText, NEW soon \in BOOLEAN, Delete(at, n, soon)
      PROVE  DerivedInv'
  <2>1. delete(at, n) /\ at + n <= Len(Text)
    BY <1>5 DEF Delete
  <2>2. at \in Nat /\ n \in Nat
    BY EditAssumption
  <2>3. Edits(at, n, 0)
    BY <1>1, <1>2, <2>1, <2>2, DeleteEdits
  <2> QED BY <1>3, <2>3
<1>6. CASE BeginBatchEdit \/ EndBatchEdit
  <2>1. UNCHANGED <<contents, gapStart, gapEnd, lineCount, rowTable, stale>> /\ cache' = cache
    BY <1>6 DEF BeginBatchEdit, EndBatchEdit, bufferVars
  <2> QED BY <1>1, <2>1, DerivedSame DEF DerivedInv
<1>7. CASE Undo
  BY <1>1, <1>2, <1>3, <1>7, UndoEdits
<1>8. CASE Redo
  BY <1>1, <1>2, <1>3, <1>8, RedoEdits
<1>9. CASE Lookup
  <2>1. UNCHANGED <<contents, gapStart, gapEnd, lineCount, rowTable, stale>>
    BY <1>9 DEF Lookup, LookupLine, LookupOffset
  <2>2. Text' = Text /\ RowsMatchText'
    BY <1>1, <2>1, DerivedSame
  <2>3. ASSUME ~ stale PROVE \A k \in 1 .. CacheSize : Right(cache'[k], Text)
    <3>1. IsCache(cache) /\ \A k \in 1 .. CacheSize : Right(cache[k], Text)
      BY <1>1, <2>3 DEF CacheInv, EntriesInv
    <3>2. ASSUME NEW l \in 0 .. lineCount, LookupLine(l) PROVE \A k \in 1 .. CacheSize : Right(cache'[k], Text)
      <4>1. l \in 0 .. Cardinality(Starts(Text))
        BY <1>2
      <4> QED BY <1>1, <3>1, <3>2, <4>1, LineIsFound DEF LookupLine
    <3>3. ASSUME NEW o \in 0 .. Len(Text), LookupOffset(o) PROVE \A k \in 1 .. CacheSize : Right(cache'[k], Text)
      BY <1>1, <3>1, <3>3, OffsetIsFound DEF LookupOffset
    <3> QED BY <1>9, <3>2, <3>3 DEF Lookup
  <2>4. EntriesInv'
    BY <2>1, <2>2, <2>3 DEF EntriesInv
  <2> QED BY <2>2, <2>4 DEF DerivedInv
<1> QED BY <1>4, <1>5, <1>6, <1>7, <1>8, <1>9 DEF Next

LEMMA InvStep == IInv /\ [Next]_vars => IInv'
<1>1. ASSUME IInv, Next PROVE IInv'
  <2>1. ArrayInv' /\ CacheInv' /\ RecordInv' /\ (~ spoilt' => Text' = versions'[top' + 1])
    BY <1>1, RecordStep
  <2>2. CutsBetweenGroups'
    BY <1>1, CutsStep
  <2>3. DerivedInv'
    BY <1>1, DerivedStep
  <2> QED BY <2>1, <2>2, <2>3 DEF IInv, TextIsVersionUnlessSpoilt, TextIsVersion
<1>2. ASSUME IInv, UNCHANGED vars PROVE IInv'
  <2>1. UNCHANGED bufferVars /\ UNCHANGED undoVars
    BY <1>2 DEF vars
  <2>2. Size' = Size /\ GapSize' = GapSize /\ Text' = Text
    BY <2>1, TextIs DEF Size, GapSize, bufferVars
  <2>3. ArrayInv' /\ CacheInv'
    BY <1>2, <2>1, <2>2 DEF IInv, ArrayInv, CacheInv, bufferVars
  <2>4. RecordInv'
    BY <1>2, <2>1, <2>2 DEF IInv, RecordInv, StackInv, FitsInv, RoomInv, ReachableInv, DescribesInv,
                           bufferVars, undoVars
  <2>5. TextIsVersionUnlessSpoilt' /\ CutsBetweenGroups'
    BY <1>2, <2>1, <2>2 DEF IInv, TextIsVersionUnlessSpoilt, TextIsVersion, CutsBetweenGroups,
                           canUndo, canRedo, undoVars
  <2>6. DerivedInv'
    BY <1>2, <2>1, DerivedSame DEF IInv, DerivedInv, bufferVars
  <2> QED BY <2>3, <2>4, <2>5, <2>6 DEF IInv
<1> QED BY <1>1, <1>2

LEMMA Invariant == Spec => []IInv
BY InitInv, InvStep, PTL DEF Spec

-----------------------------------------------------------------------------
(* Batches.  A command is never of a later group than a batch it holds     *)
(* edits of, and those above it are of no earlier group than that batch:   *)
(* so all that hold edits of one batch are of its group, except for the    *)
(* first of them, which may be older.                                      *)

BatchInv ==
  /\ batches \in Seq(SUBSET Nat) /\ Len(batches) = Len(stack)
  /\ \A i \in 1 .. Len(stack) : /\ stack[i].group <= groupId
                                /\ \A g \in batches[i] : stack[i].group <= g /\ g <= groupId
  /\ \A i, j \in 1 .. Len(stack) : i < j =>
       stack[i].group <= stack[j].group /\ \A g \in batches[i] : g <= stack[j].group

\* The groups of the commands and the batches are numbers.
LEMMA GroupsAre ==
  ASSUME StackInv, BatchInv
  PROVE  /\ Len(stack) \in Nat /\ groupId \in Nat
         /\ \A i \in 1 .. Len(stack) : stack[i].group \in Nat /\ batches[i] \in SUBSET Nat
<1>1. stack \in Seq(Command) /\ Len(stack) \in Nat /\ groupId \in Nat
  BY LenProperties DEF StackInv
<1>2. ASSUME NEW i \in 1 .. Len(stack) PROVE stack[i].group \in Nat
  BY <1>1, ElementOfSeq, CommandIs
<1>3. ASSUME NEW i \in 1 .. Len(stack) PROVE batches[i] \in SUBSET Nat
  <2>1. batches \in Seq(SUBSET Nat) /\ i \in 1 .. Len(batches)
    BY DEF BatchInv
  <2> QED BY <2>1, ElementOfSeq
<1> QED BY <1>1, <1>2, <1>3

\* The commands from m + 1 on are replaced by one of group top0 with edits of the
\* batches of b.
LEMMA TailOfBatches ==
  ASSUME StackInv, BatchInv, NEW m \in 0 .. Len(stack), NEW b \in SUBSET Nat, NEW top0 \in Nat,
         batches' = Append(SubSeq(batches, 1, m), b),
         Len(stack') = m + 1, stack'[m + 1].group = top0,
         \A i \in 1 .. m : /\ stack'[i].group = stack[i].group /\ stack[i].group <= top0
                          /\ \A g \in batches[i] : g <= top0,
         groupId' \in Nat, groupId <= groupId', top0 <= groupId',
         \A g \in b : top0 <= g /\ g <= groupId'
  PROVE  BatchInv'
<1>1. /\ Len(stack) \in Nat /\ groupId \in Nat /\ m \in Nat
      /\ \A i \in 1 .. Len(stack) : stack[i].group \in Nat /\ batches[i] \in SUBSET Nat
  BY GroupsAre
<1>2. /\ batches' \in Seq(SUBSET Nat) /\ Len(batches') = m + 1
      /\ \A i \in 1 .. m : batches'[i] = batches[i]
      /\ batches'[m + 1] = b
  <2>1. batches \in Seq(SUBSET Nat) /\ m \in 0 .. Len(batches)
    BY DEF BatchInv
  <2> QED BY <2>1, ReplacedTail
<1>3. ASSUME NEW i \in 1 .. m
      PROVE  /\ i \in 1 .. Len(stack) /\ stack[i].group <= groupId
             /\ \A g \in batches[i] : g \in Nat /\ stack[i].group <= g /\ g <= groupId
  BY <1>1 DEF BatchInv
<1>4. ASSUME NEW i \in 1 .. m + 1
      PROVE  /\ stack'[i].group <= groupId'
             /\ \A g \in batches'[i] : stack'[i].group <= g /\ g <= groupId'
  <2>1. CASE i = m + 1
    BY <1>2, <2>1
  <2>2. CASE i \in 1 .. m
    <3>1. stack'[i].group = stack[i].group /\ batches'[i] = batches[i] /\ stack[i].group \in Nat
      BY <1>1, <1>2, <1>3, <2>2
    <3>2. stack[i].group <= groupId /\ \A g \in batches[i] : g \in Nat /\ stack[i].group <= g /\ g <= groupId
      BY <1>3, <2>2
    <3>3. stack[i].group <= groupId'
      BY <1>1, <3>1, <3>2
    <3>4. ASSUME NEW g \in batches[i] PROVE stack[i].group <= g /\ g <= groupId'
      BY <1>1, <3>1, <3>2
    <3> QED BY <3>1, <3>3, <3>4
  <2> QED BY <1>1, <2>1, <2>2
<1>5. ASSUME NEW i \in 1 .. m + 1, NEW j \in 1 .. m + 1, i < j
      PROVE  stack'[i].group <= stack'[j].group /\ \A g \in batches'[i] : g <= stack'[j].group
  <2>1. i \in 1 .. m
    BY <1>1, <1>5
  <2>2. stack'[i].group = stack[i].group /\ batches'[i] = batches[i]
    BY <1>2, <2>1
  <2>3. CASE j = m + 1
    BY <2>1, <2>2, <2>3
  <2>4. CASE j \in 1 .. m
    <3>1. stack'[j].group = stack[j].group /\ i \in 1 .. Len(stack) /\ j \in 1 .. Len(stack)
      BY <1>3, <2>1, <2>4
    <3>2. stack[i].group <= stack[j].group /\ \A g \in batches[i] : g <= stack[j].group
      BY <1>5, <3>1 DEF BatchInv
    <3> QED BY <2>2, <3>1, <3>2
  <2> QED BY <1>1, <2>3, <2>4
<1> QED BY <1>2, <1>4, <1>5 DEF BatchInv

\* An edit that is recorded, pushed or merged.
LEMMA CaptureKeepsBatches ==
  ASSUME ArrayInv, RecordInv, BatchInv, Followed,
         NEW kind \in {"insert", "delete"}, NEW at \in Nat, NEW n \in Nat \ {0}, NEW soon, NEW t,
         capture(kind, at, n, soon), Remember(kind, at, n, soon, t), Len(stack') = top'
  PROVE  BatchInv'
<1>1. /\ stack \in Seq(Command) /\ Len(stack) \in Nat /\ top \in Nat /\ top \in 0 .. Len(stack)
      /\ groupId \in Nat /\ batch \in BOOLEAN /\ Text = versions[top + 1] /\ StackInv
  BY FollowedIs, LenProperties DEF RecordInv, StackInv
<1>2. \A i \in 1 .. Len(stack) : stack[i].group \in Nat /\ batches[i] \in SUBSET Nat /\ stack[i] \in Command
  BY <1>1, GroupsAre, ElementOfSeq
<1>3. BatchOf \in SUBSET Nat /\ \A g \in BatchOf : g = groupId /\ batch
  BY <1>1 DEF BatchOf
<1>4. CASE Merges(kind, at, n, soon)
  <2> DEFINE c == Merged(stack[top], at, n)
             b == batches[top] \cup BatchOf
  <2>1. /\ stack' = Append(SubSeq(stack, 1, top - 1), c) /\ top' = top /\ groupId' = groupId
        /\ batches' = Append(SubSeq(batches, 1, top - 1), b)
        /\ top > 0
    BY <1>4 DEF capture, Remember, Merges, canUndo
  <2>2. top \in 1 .. Len(stack)
    BY <1>1, <2>1
  <2>3. c \in Command /\ c.group = stack[top].group
    BY <1>2, <2>2, MergedIs
  <2>4. /\ stack[top].group \in Nat /\ stack[top].group <= groupId
        /\ \A g \in batches[top] : stack[top].group <= g /\ g <= groupId
    BY <1>2, <2>2 DEF BatchInv
  <2>5. b \in SUBSET Nat /\ \A g \in b : stack[top].group <= g /\ g <= groupId
    <3>1. b \in SUBSET Nat
      BY <1>2, <1>3, <2>2, Zenon
    <3>2. ASSUME NEW g \in BatchOf PROVE stack[top].group <= g /\ g <= groupId
      <4>1. g = groupId
        BY <1>3
      <4> QED BY <1>1, <2>4, <4>1
    <3> QED BY <2>4, <3>1, <3>2
  <2> HIDE DEF c, b
  <2>6. PICK m \in Nat : m = top - 1
    BY <1>1, <2>1
  <2>7. m \in 0 .. Len(stack) /\ m + 1 = top
    BY <1>1, <2>6
  <2>8. /\ Append(SubSeq(stack, 1, m), c) = stack'
        /\ \A i \in 1 .. m : stack'[i] = stack[i]
        /\ stack'[m + 1] = c
    <3>1. stack' = Append(SubSeq(stack, 1, m), c)
      BY <2>1, <2>6
    <3>2. /\ \A i \in 1 .. m : Append(SubSeq(stack, 1, m), c)[i] = stack[i]
          /\ Append(SubSeq(stack, 1, m), c)[m + 1] = c
      BY <1>1, <2>3, <2>7, ReplacedTail
    <3> QED BY <3>1, <3>2
  <2>9. ASSUME NEW i \in 1 .. m
        PROVE  stack[i].group <= stack[top].group /\ \A g \in batches[i] : g <= stack[top].group
    <3>1. i \in 1 .. Len(stack) /\ i < top
      BY <1>1, <2>7
    <3> QED BY <2>2, <3>1 DEF BatchInv
  <2>10. batches' = Append(SubSeq(batches, 1, m), b)
    BY <2>1, <2>6
  <2>11. Len(stack') = m + 1 /\ stack'[m + 1].group = stack[top].group
    BY <2>1, <2>3, <2>7, <2>8
  <2>12. groupId' \in Nat /\ groupId <= groupId' /\ stack[top].group <= groupId'
         /\ \A g \in b : stack[top].group <= g /\ g <= groupId'
    BY <1>1, <2>1, <2>4, <2>5
  <2>13. \A i \in 1 .. m : /\ stack'[i].group = stack[i].group /\ stack[i].group <= stack[top].group
                          /\ \A g \in batches[i] : g <= stack[top].group
    BY <2>8, <2>9
  <2> QED BY <1>1, <2>4, <2>5, <2>7, <2>10, <2>11, <2>12, <2>13, TailOfBatches
<1>5. CASE ~ Merges(kind, at, n, soon)
  <2> DEFINE c == [kind |-> kind, start |-> at, length |-> n, data |-> Null, group |-> groupId]
             q == [i \in 1 .. top |-> IF i = top THEN Recorded(stack[i]) ELSE stack[i]]
  <2>1. /\ stack' = Append(q, c) /\ top' = top + 1
        /\ groupId' = (IF batch THEN groupId ELSE groupId + 1)
        /\ batches' = Append(SubSeq(batches, 1, top), BatchOf)
    BY <1>5 DEF capture, Remember
  <2>2. c \in Command /\ c.group = groupId
    BY <1>1 DEF Command
  <2>3. ASSUME NEW i \in 1 .. top PROVE q[i] \in Command /\ q[i].group = stack[i].group
    <3>1. i \in 1 .. Len(stack) /\ q[i] = IF i = top THEN Recorded(stack[i]) ELSE stack[i]
      BY <1>1
    <3> HIDE DEF q
    <3>2. CASE i = top
      <4>1. top > 0 /\ q[i] = Recorded(stack[top])
        BY <1>1, <3>1, <3>2
      <4>2. Copied(Recorded(stack[top]), stack[top])
        BY <1>1, <4>1, RecordedIs
      <4> QED BY <3>2, <4>1, <4>2 DEF Copied
    <3>3. CASE i # top
      BY <1>2, <3>1, <3>3
    <3> QED BY <3>2, <3>3
  <2>4. q \in Seq(Command) /\ Len(q) = top
    <3>1. q \in [1 .. top -> Command]
      BY <2>3
    <3> QED BY SMTT(60), <1>1, <3>1
  <2> HIDE DEF q, c
  <2>5. \A i \in 1 .. top : stack'[i] = q[i]
    BY <2>1, <2>2, <2>4, AppendProperties
  <2>6. stack'[top + 1] = c /\ Len(stack') = top + 1
    BY <2>1, <2>2, <2>4, AppendProperties
  <2>7. \A i \in 1 .. top : /\ stack'[i].group = stack[i].group /\ stack[i].group <= groupId
                            /\ \A g \in batches[i] : g <= groupId
    <3>1. ASSUME NEW i \in 1 .. top PROVE i \in 1 .. Len(stack)
      BY <1>1
    <3> QED BY <2>3, <2>5, <3>1 DEF BatchInv
  <2>8. groupId' \in Nat /\ groupId <= groupId'
    BY <1>1, <2>1
  <2>9. \A g \in BatchOf : groupId <= g /\ g <= groupId'
    BY <1>1, <1>3, <2>8
  <2>10. stack'[top + 1].group = groupId
    BY <2>2, <2>6
  <2> QED BY <1>1, <1>3, <2>1, <2>6, <2>7, <2>8, <2>9, <2>10, TailOfBatches
<1> QED BY <1>4, <1>5

LEMMA BatchStep ==
  ASSUME IInv, BatchInv, [Next]_vars
  PROVE  BatchInv'
<1>1. ArrayInv /\ RecordInv /\ StackInv 
  BY DEF IInv, RecordInv
<1>2. /\ Len(stack) \in Nat /\ groupId \in Nat
      /\ \A i \in 1 .. Len(stack) : stack[i].group \in Nat /\ batches[i] \in SUBSET Nat
  BY <1>1, GroupsAre
<1>3. ASSUME batches' = batches, Len(stack') = Len(stack), groupId' \in Nat, groupId <= groupId',
             \A i \in 1 .. Len(stack) : stack'[i].group = stack[i].group
      PROVE  BatchInv'
  <2>1. ASSUME NEW i \in 1 .. Len(stack)
        PROVE  /\ stack'[i].group <= groupId'
               /\ \A g \in batches[i] : stack'[i].group <= g /\ g <= groupId'
    <3>1. stack[i].group <= groupId /\ \A g \in batches[i] : g \in Nat /\ stack[i].group <= g /\ g <= groupId
      BY <1>2 DEF BatchInv
    <3>2. stack'[i].group = stack[i].group /\ stack[i].group \in Nat
      BY <1>2, <1>3
    <3>3. stack'[i].group <= groupId'
      BY <1>2, <1>3, <3>1, <3>2
    <3>4. ASSUME NEW g \in batches[i] PROVE stack'[i].group <= g /\ g <= groupId'
      BY <1>2, <1>3, <3>1, <3>2
    <3> QED BY <3>3, <3>4
  <2>2. ASSUME NEW i \in 1 .. Len(stack), NEW j \in 1 .. Len(stack), i < j
        PROVE  stack'[i].group <= stack'[j].group /\ \A g \in batches[i] : g <= stack'[j].group
    BY <1>3, <2>2 DEF BatchInv
  <2>3. batches' \in Seq(SUBSET Nat) /\ Len(batches') = Len(stack')
    BY <1>3 DEF BatchInv
  <2> QED BY <1>3, <2>1, <2>2, <2>3 DEF BatchInv
<1>4. ASSUME NEW s \in Inserts, NEW at \in 0 .. MaxText, NEW soon \in BOOLEAN, Insert(s, at, soon)
      PROVE  BatchInv'
  <2>1. /\ Followed /\ capture("insert", at, Len(s), soon)
        /\ Remember("insert", at, Len(s), soon, Splice(versions[top + 1], at, 0, s))
    BY <1>4 DEF Insert
  <2>2. Len(stack') = top'
    BY <1>1, <1>4, InsertStep
  <2>3. at \in Nat /\ Len(s) \in Nat \ {0}
    <3>1. s \in Seq(Char) /\ s # <<>>
      BY EditAssumption
    <3> QED BY <3>1, LenProperties, EmptySeq, EditAssumption
  <2> QED BY <1>1, <2>1, <2>2, <2>3, CaptureKeepsBatches
<1>5. ASSUME NEW n \in 1 .. MaxDelete, NEW at \in 0 .. MaxText, NEW soon \in BOOLEAN, Delete(at, n, soon)
      PROVE  BatchInv'
  <2>1. /\ Followed /\ capture("delete", at, n, soon)
        /\ Remember("delete", at, n, soon, Splice(versions[top + 1], at, n, <<>>))
    BY <1>5 DEF Delete
  <2>2. Len(stack') = top'
    BY <1>1, <1>5, DeleteStep
  <2>3. at \in Nat /\ n \in Nat \ {0}
    BY EditAssumption
  <2> QED BY <1>1, <2>1, <2>2, <2>3, CaptureKeepsBatches
<1>6. CASE BeginBatchEdit \/ EndBatchEdit \/ Lookup \/ UNCHANGED vars
  <2>1. batches' = batches /\ stack' = stack /\ (groupId' = groupId \/ groupId' = groupId + 1)
    BY <1>6 DEF BeginBatchEdit, EndBatchEdit, Lookup, undoVars, vars
  <2>2. groupId' \in Nat /\ groupId <= groupId'
    BY <1>2, <2>1
  <2> QED BY <1>3, <2>1, <2>2
<1>7. CASE Undo
  <2>1. batches' = batches /\ groupId' = groupId
    BY <1>7 DEF Undo
  <2>2. Len(stack') = Len(stack) /\ \A i \in 1 .. Len(stack) : stack'[i].group = stack[i].group
    BY <1>1, <1>7, UndoStep
  <2> QED BY <1>2, <1>3, <2>1, <2>2
<1>8. CASE Redo
  <2>1. batches' = batches /\ groupId' = groupId /\ stack' = stack
    BY <1>8 DEF Redo
  <2> QED BY <1>2, <1>3, <2>1
<1> QED BY <1>4, <1>5, <1>6, <1>7, <1>8 DEF Next

LEMMA BatchInvariant == Spec => []BatchInv
<1>1. Init => BatchInv
  <2> SUFFICES ASSUME Init PROVE BatchInv
    OBVIOUS
  <2>1. batches = <<>> /\ stack = <<>>
    BY DEF Init
  <2>2. batches \in Seq(SUBSET Nat) /\ Len(batches) = 0 /\ Len(stack) = 0
    BY <2>1, EmptySeq
  <2> QED BY <2>2 DEF BatchInv
<1>2. IInv /\ BatchInv /\ [Next]_vars => BatchInv'
  BY BatchStep
<1> QED BY <1>1, <1>2, Invariant, PTL DEF Spec

-----------------------------------------------------------------------------
(* Theorems.                                                                *)

\* The gap stays inside the array, which ends in EOF, the cache holds lines and
\* offsets, and the stack and the versions go together, whatever is typed, deleted,
\* undone and redone; text that was never typed shows only where a record was spoilt.
THEOREM TypeCorrect == Spec => []TypeOK
<1>1. IInv /\ BatchInv => TypeOK
  <2> SUFFICES ASSUME IInv, BatchInv PROVE TypeOK
    OBVIOUS
  <2>1. ArrayInv /\ CacheInv /\ StackInv /\ (~ spoilt => Text = versions[top + 1])
    BY DEF IInv, RecordInv, TextIsVersionUnlessSpoilt, TextIsVersion
  <2>2. BufferTypeOK
    <3>1. Size \in Nat /\ DOMAIN contents = 0 .. Size - 1
      BY <2>1, ArrayIs
    <3>2. /\ \A i \in 0 .. Size - 2 : contents[i] \in Char \cup {NUL}
          /\ contents[Size - 1] = EOF
          /\ gapStart \in Nat /\ gapEnd \in Nat /\ gapStart < gapEnd /\ gapEnd < Size
          /\ allocMultiplier \in Nat \ {0}
      BY <2>1 DEF ArrayInv, C
    <3>3. gapStart \in 0 .. gapEnd
      BY <3>2
    <3>4. /\ cache \in [1 .. CacheSize -> [line : Int, offset : Int]] /\ cache[1] = EmptyCache[1]
          /\ stale \in BOOLEAN
      BY <2>1 DEF CacheInv, IsCache, Entry
    <3> QED BY <3>1, <3>2, <3>3, <3>4 DEF BufferTypeOK
  <2>3. ASSUME ~ spoilt PROVE Text \in Seq(Char)
    <3>1. top + 1 \in 1 .. Len(versions)
      <4>1. Len(stack) \in Nat
        BY <2>1, LenProperties DEF StackInv
      <4> QED BY <2>1, <4>1 DEF StackInv
    <3> QED BY <2>1, <2>3, <3>1, VersionIs
  <2> QED BY <2>1, <2>2, <2>3 DEF TypeOK, StackInv, BatchInv
<1> QED BY <1>1, Invariant, BatchInvariant, PTL

\* Until a record is spoilt, the text is the one the edits made, also after any number
\* of undone and redone commands: the gap and the late copies never show in it.
THEOREM TextIsRight == Spec => []TextIsVersionUnlessSpoilt
<1>1. IInv => TextIsVersionUnlessSpoilt
  BY DEF IInv
<1> QED BY <1>1, Invariant, PTL

\* A command without a copy of its text is the last one, not undone, and the gap is
\* where undo and the late copy look for that text.
THEOREM LateCopiesAreFound == Spec => []LazyCopyIsReachable
<1>1. IInv => LazyCopyIsReachable
  <2> SUFFICES ASSUME IInv, NEW i \in 1 .. Len(stack), stack[i].data = Null
               PROVE  /\ i = top /\ i = Len(stack)
                      /\ stack[i].kind = "insert" => gapStart = stack[i].start + stack[i].length
                      /\ stack[i].kind = "delete" => gapStart = stack[i].start /\ stack[i].length <= GapSize
    BY DEF LazyCopyIsReachable
  <2>1. Reachable(stack[i], i, top, Len(stack), gapStart, GapSize)
    BY DEF IInv, RecordInv, ReachableInv
  <2>2. stack[i] \in Command
    <3>1. stack \in Seq(Command)
      BY DEF IInv, RecordInv, StackInv
    <3> QED BY <3>1, ElementOfSeq
  <2>3. stack[i].length \in Nat /\ GapSize \in Nat
    BY <2>2, CommandIs, ArrayIs DEF IInv
  <2> QED BY <2>1, <2>3 DEF Reachable
<1> QED BY <1>1, Invariant, PTL

\* Between two calls no batch is undone in one part only, unless its first edits went
\* into the command before it, which is then all that is left of it in the text.
THEOREM GroupsStayWhole == Spec => []BatchesStayWhole
<1>1. IInv /\ BatchInv => BatchesStayWhole
  <2> SUFFICES ASSUME IInv, BatchInv, walk = "none",
                      NEW i \in 1 .. top, NEW k \in top + 1 .. Len(stack),
                      NEW g \in batches[i] \cap batches[k]
               PROVE  i = top /\ stack[i].group # g
    BY DEF BatchesStayWhole
  <2>1. StackInv /\ CutsBetweenGroups
    BY DEF IInv, RecordInv
  <2>2. /\ Len(stack) \in Nat
        /\ \A j \in 1 .. Len(stack) : stack[j].group \in Nat /\ batches[j] \in SUBSET Nat
    BY <2>1, GroupsAre
  <2>3. /\ top \in 1 .. Len(stack) /\ top + 1 \in 1 .. Len(stack)
        /\ i \in 1 .. Len(stack) /\ k \in 1 .. Len(stack) /\ i < k /\ i < top + 1 /\ top + 1 <= k
    BY <2>1, <2>2 DEF StackInv
  <2>4. stack[top].group # stack[top + 1].group
    BY <2>1, <2>3 DEF CutsBetweenGroups, canUndo, canRedo
  <2>5. stack[top].group \in Nat /\ stack[top + 1].group \in Nat /\ stack[k].group \in Nat /\ g \in Nat
    BY <2>2, <2>3
  <2>6. g <= stack[k].group /\ stack[k].group <= g /\ stack[i].group <= g
    BY <2>3 DEF BatchInv
  <2>7. ASSUME NEW j \in 1 .. Len(stack), i < j, j <= k PROVE stack[j].group = g
    <3>1. g <= stack[j].group /\ stack[j].group \in Nat
      BY <2>2, <2>3, <2>7 DEF BatchInv
    <3>2. CASE j = k
      BY <2>5, <2>6, <3>2
    <3>3. CASE j < k
      BY <2>3, <2>5, <2>6, <3>1, <3>3 DEF BatchInv
    <3> QED BY <2>3, <2>7, <3>2, <3>3
  <2>8. stack[top + 1].group = g
    BY <2>3, <2>7
  <2>9. i = top
    <3>1. ASSUME i # top PROVE FALSE
      <4>1. i < top /\ top <= k
        BY <2>3, <3>1
      <4>2. stack[top].group = g
        BY <2>3, <2>7, <4>1
      <4> QED BY <2>4, <2>8, <4>2
    <3> QED BY <3>1
  <2> QED BY <2>4, <2>8, <2>9
<1> QED BY <1>1, Invariant, BatchInvariant, PTL

\* The rows that each edit, undo or redo repairs in part, and the lines it counts, are
\* those a scan of the whole text would give, also where a record was spoilt.
THEOREM RowsAreRight == Spec => []RowsMatchText
<1>1. IInv => RowsMatchText
  BY DEF IInv, DerivedInv
<1> QED BY <1>1, Invariant, PTL

\* However the edits and lookups before it left the cache, and whatever its size, a
\* lookup of any line or offset answers as a scan of the text would, unless an undo
\* brought characters back under an entry.
THEOREM LookupsAreRight == Spec => []LookupsMatchText
<1>1. IInv => LookupsMatchText
  BY LookupsAre DEF IInv, DerivedInv
<1> QED BY <1>1, Invariant, PTL

-----------------------------------------------------------------------------
(* The history.                                                             *)

Past == SubSeq(versions, 1, top)
Future == SubSeq(versions, top + 2, Len(versions))

\* The first k elements of a sequence, and those from the k-th on.
LEMMA StartIs ==
  ASSUME NEW S, NEW q \in Seq(S), NEW k \in 0 .. Len(q)
  PROVE  /\ SubSeq(q, 1, k) \in Seq(S) /\ Len(SubSeq(q, 1, k)) = k
         /\ \A i \in 1 .. k : SubSeq(q, 1, k)[i] = q[i]
<1>1. Len(q) \in Nat /\ \A i \in 1 .. Len(q) : q[i] \in S
  BY LenProperties, ElementOfSeq
<1>2. k \in Nat /\ \A i \in 1 .. k : q[i] \in S
  BY <1>1
<1>3. /\ SubSeq(q, 1, k) \in Seq(S)
      /\ Len(SubSeq(q, 1, k)) = IF 1 <= k THEN k - 1 + 1 ELSE 0
      /\ \A i \in 1 .. k - 1 + 1 : SubSeq(q, 1, k)[i] = q[1 + i - 1]
  BY <1>2, SubSeqProperties
<1> QED BY <1>2, <1>3

LEMMA EndIs ==
  ASSUME NEW S, NEW q \in Seq(S), NEW k \in 1 .. Len(q) + 1
  PROVE  /\ SubSeq(q, k, Len(q)) \in Seq(S) /\ Len(SubSeq(q, k, Len(q))) = Len(q) - k + 1
         /\ \A i \in 1 .. Len(q) - k + 1 : SubSeq(q, k, Len(q))[i] = q[k + i - 1]
<1>1. Len(q) \in Nat /\ \A i \in 1 .. Len(q) : q[i] \in S
  BY LenProperties, ElementOfSeq
<1>2. k \in Nat /\ \A i \in k .. Len(q) : q[i] \in S
  BY <1>1
<1>3. /\ SubSeq(q, k, Len(q)) \in Seq(S)
      /\ Len(SubSeq(q, k, Len(q))) = IF k <= Len(q) THEN Len(q) - k + 1 ELSE 0
      /\ \A i \in 1 .. Len(q) - k + 1 : SubSeq(q, k, Len(q))[i] = q[k + i - 1]
  BY <1>1, <1>2, SubSeqProperties
<1> QED BY <1>1, <1>2, <1>3

\* One more version in the past.
LEMMA OneMore ==
  ASSUME NEW S, NEW q \in Seq(S), NEW k \in 0 .. Len(q) - 1
  PROVE  SubSeq(q, 1, k + 1) = Append(SubSeq(q, 1, k), q[k + 1])
<1> DEFINE a == SubSeq(q, 1, k + 1)
           b == SubSeq(q, 1, k)
           e == q[k + 1]
           d == Append(b, e)
<1>1. Len(q) \in Nat /\ k \in 0 .. Len(q) /\ k + 1 \in 0 .. Len(q) /\ k + 1 \in 1 .. Len(q) /\ k \in Nat
  BY LenProperties
<1>2. a \in Seq(S) /\ Len(a) = k + 1 /\ \A i \in 1 .. k + 1 : a[i] = q[i]
  <2> HIDE DEF a
  <2>1. /\ SubSeq(q, 1, k + 1) \in Seq(S) /\ Len(SubSeq(q, 1, k + 1)) = k + 1
        /\ \A i \in 1 .. k + 1 : SubSeq(q, 1, k + 1)[i] = q[i]
    BY <1>1, StartIs
  <2> QED BY <2>1 DEF a
<1>3. b \in Seq(S) /\ Len(b) = k /\ \A i \in 1 .. k : b[i] = q[i]
  BY <1>1, StartIs
<1>4. e \in S
  BY <1>1, ElementOfSeq
<1> HIDE DEF a, b, e
<1>5. d \in Seq(S) /\ Len(d) = k + 1 /\ (\A i \in 1 .. k : d[i] = b[i]) /\ d[k + 1] = e
  <2>1. /\ Append(b, e) \in Seq(S) /\ Len(Append(b, e)) = Len(b) + 1
        /\ \A i \in 1 .. Len(b) : Append(b, e)[i] = b[i]
        /\ Append(b, e)[Len(b) + 1] = e
    BY <1>3, <1>4, AppendProperties
  <2> QED BY <1>3, <2>1
<1> HIDE DEF d
<1>6. ASSUME NEW i \in 1 .. Len(a) PROVE a[i] = d[i]
  <2>1. CASE i \in 1 .. k
    BY <1>2, <1>3, <1>5, <1>6, <2>1
  <2>2. CASE i = k + 1
    BY <1>1, <1>2, <1>5, <2>2 DEF e
  <2> QED BY <1>1, <1>2, <2>1, <2>2
<1>7. a = d
  BY <1>2, <1>5, <1>6, SeqEqual
<1> QED BY <1>7 DEF a, d, b, e

\* One more version in the future.
LEMMA OneBefore ==
  ASSUME NEW S, NEW q \in Seq(S), NEW k \in 1 .. Len(q)
  PROVE  /\ SubSeq(q, k, Len(q)) = <<q[k]>> \o SubSeq(q, k + 1, Len(q))
         /\ SubSeq(q, k, Len(q)) # <<>>
         /\ Head(SubSeq(q, k, Len(q))) = q[k]
         /\ Tail(SubSeq(q, k, Len(q))) = SubSeq(q, k + 1, Len(q))
<1> DEFINE a == SubSeq(q, k, Len(q))
           b == SubSeq(q, k + 1, Len(q))
           e == q[k]
           o == <<e>>
           d == o \o b
<1>1. Len(q) \in Nat /\ k \in 1 .. Len(q) + 1 /\ k + 1 \in 1 .. Len(q) + 1 /\ k \in Nat
  BY LenProperties
<1>2. a \in Seq(S) /\ Len(a) = Len(q) - k + 1 /\ \A i \in 1 .. Len(q) - k + 1 : a[i] = q[k + i - 1]
  BY <1>1, EndIs
<1>3. b \in Seq(S) /\ Len(b) = Len(q) - k /\ \A i \in 1 .. Len(q) - k : b[i] = q[k + i]
  <2>1. PICK m \in 1 .. Len(q) + 1 : m = k + 1
    BY <1>1
  <2>2. /\ SubSeq(q, m, Len(q)) \in Seq(S) /\ Len(SubSeq(q, m, Len(q))) = Len(q) - m + 1
        /\ \A i \in 1 .. Len(q) - m + 1 : SubSeq(q, m, Len(q))[i] = q[m + i - 1]
    BY EndIs
  <2>3. Len(q) - m + 1 = Len(q) - k /\ \A i \in 1 .. Len(q) - k : m + i - 1 = k + i
    BY <1>1, <2>1
  <2>4. b = SubSeq(q, m, Len(q))
    BY <2>1
  <2> HIDE DEF b
  <2> QED BY <2>2, <2>3, <2>4
<1>4. e \in S
  BY ElementOfSeq
<1> HIDE DEF a, b, e
<1>5. o \in Seq(S) /\ Len(o) = 1 /\ o[1] = e
  BY <1>4
<1> HIDE DEF o
<1>6. d \in Seq(S) /\ Len(d) = Len(q) - k + 1
      /\ \A i \in 1 .. Len(q) - k + 1 : d[i] = IF i <= 1 THEN o[i] ELSE b[i - 1]
  <2>1. /\ d \in Seq(S) /\ Len(d) = Len(o) + Len(b)
        /\ \A i \in 1 .. Len(o) + Len(b) : d[i] = IF i <= Len(o) THEN o[i] ELSE b[i - Len(o)]
    BY <1>3, <1>5, ConcatProperties
  <2>2. Len(o) + Len(b) = Len(q) - k + 1
    BY <1>1, <1>3, <1>5
  <2> HIDE DEF d
  <2> QED BY <1>5, <2>1, <2>2
<1> HIDE DEF d
<1>7. ASSUME NEW i \in 1 .. Len(q) - k + 1 PROVE a[i] = d[i]
  <2>1. CASE i = 1
    <3>1. k + i - 1 = k
      BY <1>1, <2>1
    <3> QED BY <1>2, <1>5, <1>6, <2>1, <3>1 DEF e
  <2>2. CASE i # 1
    <3>1. i - 1 \in 1 .. Len(q) - k /\ k + (i - 1) = k + i - 1 /\ ~ (i <= 1)
      BY <1>1, <2>2
    <3> QED BY <1>2, <1>3, <1>6, <3>1
  <2> QED BY <2>1, <2>2
<1>8. a = d
  BY <1>2, <1>6, <1>7, SeqEqual
<1>9. Len(a) >= 1
  BY <1>1, <1>2
<1>10. a # <<>>
  BY <1>9
<1>11. Head(a) = e
  <2>1. 1 \in 1 .. Len(q) - k + 1 /\ k + 1 - 1 = k
    BY <1>1
  <2>2. a[1] = e
    BY <1>2, <2>1 DEF e
  <2>3. Head(a) = a[1]
    BY <1>2, <1>10, HeadTailProperties
  <2> QED BY <2>2, <2>3
<1>12. Tail(a) = b
  <2> DEFINE t == Tail(a)
  <2>1. t \in Seq(S) /\ Len(t) = Len(a) - 1 /\ \A i \in 1 .. Len(t) : t[i] = a[i + 1]
    BY <1>2, <1>10, HeadTailProperties
  <2> HIDE DEF t
  <2>2. Len(t) = Len(q) - k /\ Len(t) = Len(b)
    BY <1>1, <1>2, <1>3, <2>1
  <2>3. ASSUME NEW i \in 1 .. Len(t) PROVE t[i] = b[i]
    <3>1. i + 1 \in 1 .. Len(q) - k + 1 /\ k + (i + 1) - 1 = k + i /\ i \in 1 .. Len(q) - k
      BY <1>1, <2>2
    <3> QED BY <1>2, <1>3, <2>1, <3>1
  <2>4. t = b
    BY <1>3, <2>1, <2>2, <2>3, SeqEqual
  <2> QED BY <2>4 DEF t
<1> QED BY <1>8, <1>10, <1>11, <1>12 DEF a, b, d, e, o

\* Sequences that agree in their first k elements.
LEMMA SameStart ==
  ASSUME NEW S, NEW q \in Seq(S), NEW r \in Seq(S), NEW k \in Nat, k <= Len(q), k <= Len(r),
         \A i \in 1 .. k : r[i] = q[i]
  PROVE  SubSeq(r, 1, k) = SubSeq(q, 1, k)
<1> DEFINE a == SubSeq(q, 1, k)
           b == SubSeq(r, 1, k)
<1>1. k \in 0 .. Len(q) /\ k \in 0 .. Len(r)
  BY LenProperties
<1>2. a \in Seq(S) /\ Len(a) = k /\ \A i \in 1 .. k : a[i] = q[i]
  BY <1>1, StartIs
<1>3. b \in Seq(S) /\ Len(b) = k /\ \A i \in 1 .. k : b[i] = r[i]
  BY <1>1, StartIs
<1> HIDE DEF a, b
<1>4. ASSUME NEW i \in 1 .. k PROVE b[i] = a[i]
  BY <1>2, <1>3
<1>5. b = a
  BY <1>2, <1>3, <1>4, SeqEqual
<1> QED BY <1>5 DEF a, b

\* An edit of the history: pushed, it leaves one more version behind; merged, it takes
\* the place of the newest.  Nothing can be redone after it.
LEMMA EditIsEdit ==
  ASSUME RecordInv, RecordInv', Text = versions[top + 1], Text' = versions'[top' + 1],
         Len(stack') = top', NEW k \in {top, top + 1}, k # 0, top' = k, NEW t \in Seq(Char),
         versions' = Append(SubSeq(versions, 1, k), t)
  PROVE  History!Edit
<1>1. /\ stack \in Seq(Command) /\ top \in 0 .. Len(stack) /\ Len(stack) \in Nat
      /\ versions \in Seq(Seq(Char)) /\ Len(versions) = Len(stack) + 1
  BY LenProperties DEF RecordInv, StackInv
<1>2. /\ versions' \in Seq(Seq(Char)) /\ Len(versions') = Len(stack') + 1 /\ spoilt' \in BOOLEAN
      /\ Len(versions') = top' + 1
  BY DEF RecordInv, StackInv
<1>3. k \in 1 .. Len(versions) /\ k \in 0 .. Len(versions) /\ k \in Nat /\ top \in 0 .. Len(versions) - 1
  BY <1>1
<1>4. \A i \in 1 .. k : versions'[i] = versions[i]
  <2>1. \A i \in 1 .. k : Append(SubSeq(versions, 1, k), t)[i] = versions[i]
    BY <1>1, <1>3, ReplacedTail
  <2> QED BY <2>1
<1>5. Past' = SubSeq(versions, 1, k)
  <2>1. PICK w \in Seq(Seq(Char)) : w = versions' /\ Len(w) = k + 1
    BY <1>2
  <2>2. SubSeq(w, 1, k) = SubSeq(versions, 1, k)
    <3>1. k <= Len(versions) /\ k <= Len(w) /\ \A i \in 1 .. k : w[i] = versions[i]
      BY <1>3, <1>4, <2>1
    <3> QED BY <1>1, <1>3, <3>1, SameStart
  <2> QED BY <2>1, <2>2 DEF Past
<1>6. Past' = Append(Past, Text) \/ (Past # <<>> /\ Past' = Past)
  <2>1. CASE k = top + 1
    <3>1. SubSeq(versions, 1, top + 1) = Append(SubSeq(versions, 1, top), versions[top + 1])
      BY <1>1, <1>3, OneMore
    <3> QED BY <1>5, <2>1, <3>1 DEF Past
  <2>2. CASE k = top
    <3>1. Len(SubSeq(versions, 1, top)) = top
      BY <1>1, <1>3, <2>2, StartIs
    <3>2. SubSeq(versions, 1, top) # <<>>
      BY <2>2, <3>1, EmptySeq
    <3> QED BY <1>5, <2>2, <3>2 DEF Past
  <2> QED BY <2>1, <2>2
<1>7. Future' = <<>>
  <2>1. PICK w \in Seq(Seq(Char)) : w = versions' /\ Len(w) = k + 1
    BY <1>2
  <2>2. PICK j \in 1 .. Len(w) + 1 : j = top' + 2 /\ j = Len(w) + 1
    BY <1>3, <2>1
  <2>3. SubSeq(w, j, Len(w)) \in Seq(Seq(Char)) /\ Len(SubSeq(w, j, Len(w))) = Len(w) - j + 1
    BY EndIs
  <2>4. Len(SubSeq(w, j, Len(w))) = 0
    BY <1>3, <2>1, <2>2, <2>3
  <2>5. SubSeq(w, j, Len(w)) = <<>>
    BY <2>3, <2>4, EmptySeq
  <2> QED BY <2>1, <2>2, <2>5 DEF Future
<1>8. Text' \in Seq(Char)
  <2>1. top' + 1 \in 1 .. Len(versions')
    BY <1>2, <1>3
  <2> QED BY <1>2, <2>1, ElementOfSeq
<1> QED BY <1>2, <1>6, <1>7, <1>8 DEF History!Edit, Past, Future

\* An undone command takes the last version of the past back, which the text joins the
\* future for.
LEMMA UndoIsUndo ==
  ASSUME RecordInv, Text = versions[top + 1], Text' = versions[top], top > 0,
         top' = top - 1, versions' = versions, spoilt' = spoilt
  PROVE  History!Undo
<1>1. /\ stack \in Seq(Command) /\ top \in 0 .. Len(stack) /\ Len(stack) \in Nat
      /\ versions \in Seq(Seq(Char)) /\ Len(versions) = Len(stack) + 1
  BY LenProperties DEF RecordInv, StackInv
<1>2. PICK k \in 0 .. Len(versions) - 1 : k = top - 1 /\ k + 1 = top /\ k = top'
  BY <1>1
<1>3. /\ SubSeq(versions, 1, top) \in Seq(Seq(Char)) /\ Len(SubSeq(versions, 1, top)) = top
      /\ \A i \in 1 .. top : SubSeq(versions, 1, top)[i] = versions[i]
  <2>1. top \in 0 .. Len(versions)
    BY <1>1
  <2> QED BY <1>1, <2>1, StartIs
<1>4. Past # <<>> /\ Past[Len(Past)] = versions[top]
  BY <1>2, <1>3, EmptySeq DEF Past
<1>5. Past' = SubSeq(Past, 1, Len(Past) - 1)
  <2>1. PICK q \in Seq(Seq(Char)) : q = Past /\ Len(q) = top /\ \A i \in 1 .. top : q[i] = versions[i]
    BY <1>3 DEF Past
  <2>2. SubSeq(q, 1, k) = SubSeq(versions, 1, k)
    <3>1. k \in Nat /\ k <= Len(versions) /\ k <= Len(q) /\ \A i \in 1 .. k : q[i] = versions[i]
      BY <1>1, <1>2, <2>1
    <3> QED BY <1>1, <2>1, <3>1, SameStart
  <2>3. Len(q) - 1 = k
    BY <1>2, <2>1
  <2> QED BY <1>2, <2>1, <2>2, <2>3 DEF Past
<1>6. Future' = <<Text>> \o Future
  <2>1. PICK j \in 1 .. Len(versions) : j = top + 1 /\ j + 1 = top + 2 /\ j = top' + 2
    BY <1>1
  <2>2. SubSeq(versions, j, Len(versions)) = <<versions[j]>> \o SubSeq(versions, j + 1, Len(versions))
    BY <1>1, OneBefore
  <2>3. Future' = SubSeq(versions, j, Len(versions)) /\ Future = SubSeq(versions, j + 1, Len(versions))
    BY <2>1 DEF Future
  <2> QED BY <2>1, <2>2, <2>3
<1> QED BY <1>4, <1>5, <1>6 DEF History!Undo, Past, Future

\* A redone command takes the first version of the future back.
LEMMA RedoIsRedo ==
  ASSUME RecordInv, Text = versions[top + 1], Text' = versions[top + 2], top < Len(stack),
         top' = top + 1, versions' = versions, spoilt' = spoilt
  PROVE  History!Redo
<1>1. /\ stack \in Seq(Command) /\ top \in 0 .. Len(stack) /\ Len(stack) \in Nat
      /\ versions \in Seq(Seq(Char)) /\ Len(versions) = Len(stack) + 1
  BY LenProperties DEF RecordInv, StackInv
<1>2. PICK j \in 1 .. Len(versions) : j = top + 2 /\ j + 1 = top' + 2
  BY <1>1
<1>3. /\ SubSeq(versions, j, Len(versions)) # <<>>
      /\ Head(SubSeq(versions, j, Len(versions))) = versions[j]
      /\ Tail(SubSeq(versions, j, Len(versions))) = SubSeq(versions, j + 1, Len(versions))
  BY <1>1, OneBefore
<1>4. Future = SubSeq(versions, j, Len(versions)) /\ Future' = SubSeq(versions, j + 1, Len(versions))
  BY <1>2 DEF Future
<1>5. Future # <<>> /\ Head(Future) = versions[top + 2] /\ Future' = Tail(Future)
  BY <1>2, <1>3, <1>4
<1>6. Past' = Append(Past, Text)
  <2>1. top \in 0 .. Len(versions) - 1
    BY <1>1
  <2>2. SubSeq(versions, 1, top + 1) = Append(SubSeq(versions, 1, top), versions[top + 1])
    BY <1>1, <2>1, OneMore
  <2> QED BY <2>2 DEF Past
<1> QED BY <1>5, <1>6 DEF History!Redo, Past, Future

\* The steps that neither edit nor walk leave the history as it is.
HistoryStays == UNCHANGED <<Text, Past, Future, spoilt>>

\* A spoilt record stays spoilt; until then every step is one of the history's.
LEMMA HistoryStep ==
  ASSUME IInv, Next
  PROVE  \/ IF spoilt THEN spoilt' = TRUE ELSE History!Edit \/ History!Undo \/ History!Redo
         \/ HistoryStays
<1>1. ArrayInv /\ RecordInv /\ (~ spoilt => Text = versions[top + 1])
  BY DEF IInv, TextIsVersionUnlessSpoilt, TextIsVersion
<1>2. RecordInv' /\ (~ spoilt' => Text' = versions'[top' + 1])
  BY RecordStep
<1>3. /\ stack \in Seq(Command) /\ top \in 0 .. Len(stack) /\ Len(stack) \in Nat
      /\ versions \in Seq(Seq(Char)) /\ spoilt \in BOOLEAN
  BY <1>1, LenProperties DEF RecordInv, StackInv
<1>4. ASSUME NEW kind, NEW at, NEW n, NEW soon, NEW t, capture(kind, at, n, soon),
             Remember(kind, at, n, soon, t), t \in Seq(Char),
             Followed, Text' = versions'[top' + 1], Len(stack') = top'
      PROVE  History!Edit /\ (spoilt => spoilt' = TRUE)
  <2>1. Text = versions[top + 1]
    BY <1>4 DEF Followed
  <2>2. spoilt => spoilt' = TRUE
    BY <1>4 DEF Remember
  <2>3. CASE Merges(kind, at, n, soon)
    <3>1. top' = top /\ top # 0 /\ versions' = Append(SubSeq(versions, 1, top), t)
      BY <1>3, <1>4, <2>3 DEF capture, Remember, Merges, canUndo
    <3>2. History!Edit
      BY <1>1, <1>2, <1>4, <2>1, <3>1, EditIsEdit
    <3> QED BY <2>2, <3>2
  <2>4. CASE ~ Merges(kind, at, n, soon)
    <3>1. top' = top + 1 /\ top + 1 # 0 /\ versions' = Append(SubSeq(versions, 1, top + 1), t)
      BY <1>3, <1>4, <2>4 DEF capture, Remember
    <3>2. History!Edit
      BY <1>1, <1>2, <1>4, <2>1, <3>1, EditIsEdit
    <3> QED BY <2>2, <3>2
  <2> QED BY <2>3, <2>4
<1>5. ASSUME NEW s \in Inserts, NEW at \in 0 .. MaxText, NEW soon \in BOOLEAN, Insert(s, at, soon)
      PROVE  History!Edit /\ (spoilt => spoilt' = TRUE)
  <2>1. /\ Followed /\ at \in 0 .. Len(Text) /\ capture("insert", at, Len(s), soon)
        /\ Remember("insert", at, Len(s), soon, Splice(versions[top + 1], at, 0, s))
    BY <1>5 DEF Insert
  <2>2. Text' = versions'[top' + 1] /\ Len(stack') = top'
    BY <1>1, <1>5, InsertStep
  <2>3. Splice(versions[top + 1], at, 0, s) \in Seq(Char)
    <3>1. PICK u \in Seq(Char) : u = versions[top + 1] /\ Len(u) = Len(Text)
      BY <1>1, <2>1, FollowedIs
    <3>2. s \in Seq(Char) /\ at \in Nat /\ at + 0 <= Len(u)
      <4>1. s \in Seq(Char)
        BY EditAssumption
      <4>2. Len(u) \in Nat
        BY LenProperties
      <4> QED BY <2>1, <3>1, <4>1, <4>2
    <3>3. Splice(u, at, 0, s) \in Seq(Char)
      BY <3>2, SpliceIs
    <3> QED BY <3>1, <3>3
  <2> QED BY <1>4, <2>1, <2>2, <2>3
<1>6. ASSUME NEW n \in 1 .. MaxDelete, NEW at \in 0 .. MaxText, NEW soon \in BOOLEAN, Delete(at, n, soon)
      PROVE  History!Edit /\ (spoilt => spoilt' = TRUE)
  <2>1. /\ Followed /\ at + n <= Len(Text) /\ capture("delete", at, n, soon)
        /\ Remember("delete", at, n, soon, Splice(versions[top + 1], at, n, <<>>))
    BY <1>6 DEF Delete
  <2>2. Text' = versions'[top' + 1] /\ Len(stack') = top'
    BY <1>1, <1>6, DeleteStep
  <2>3. Splice(versions[top + 1], at, n, <<>>) \in Seq(Char)
    <3>1. PICK u \in Seq(Char) : u = versions[top + 1] /\ Len(u) = Len(Text)
      BY <1>1, <2>1, FollowedIs
    <3>2. at \in Nat /\ n \in Nat /\ at + n <= Len(u) /\ <<>> \in Seq(Char)
      BY <2>1, <3>1, EmptySeq, EditAssumption
    <3>3. Splice(u, at, n, <<>>) \in Seq(Char)
      BY <3>2, SpliceIs
    <3> QED BY <3>1, <3>3
  <2> QED BY <1>4, <2>1, <2>2, <2>3
<1>7. CASE BeginBatchEdit \/ EndBatchEdit \/ Lookup
  <2>1. UNCHANGED <<contents, gapStart, gapEnd, top, versions, spoilt>>
    BY <1>7 DEF BeginBatchEdit, EndBatchEdit, Lookup, LookupLine, LookupOffset, undoVars, bufferVars
  <2>2. Text' = Text
    BY <2>1, TextIs DEF Size
  <2> QED BY <2>1, <2>2 DEF HistoryStays, Past, Future
<1>8. CASE Undo
  <2>1. Followed /\ top > 0 /\ top' = top - 1 /\ versions' = versions /\ spoilt' = spoilt
    BY <1>8 DEF Undo, canUndo
  <2>2. ASSUME ~ spoilt PROVE History!Undo
    <3>1. top' + 1 = top
      BY <1>3, <2>1
    <3>2. Text = versions[top + 1] /\ Text' = versions[top]
      BY <1>1, <1>2, <2>1, <2>2, <3>1
    <3> QED BY <1>1, <2>1, <3>2, UndoIsUndo
  <2> QED BY <2>1, <2>2
<1>9. CASE Redo
  <2>1. Followed /\ top < Len(stack) /\ top' = top + 1 /\ versions' = versions /\ spoilt' = spoilt
    BY <1>9 DEF Redo, canRedo
  <2>2. ASSUME ~ spoilt PROVE History!Redo
    <3>1. top' + 1 = top + 2
      BY <1>3, <2>1
    <3>2. Text = versions[top + 1] /\ Text' = versions[top + 2]
      BY <1>1, <1>2, <2>1, <2>2, <3>1
    <3> QED BY <1>1, <2>1, <3>2, RedoIsRedo
  <2> QED BY <2>1, <2>2
<1> QED BY <1>5, <1>6, <1>7, <1>8, <1>9 DEF Next

\* Edits, undo and redo, command by command, behave as the editor's history of texts
\* for as long as no edit has spoilt the record.
THEOREM Implements == Spec => ImplementsEditHistory
<1>1. Init => History!Init
  <2> SUFFICES ASSUME Init PROVE History!Init
    OBVIOUS
  <2>1. PICK t \in InitialText : setText(t) /\ versions = <<t>>
    BY DEF Init
  <2>2. t \in Seq(Char) /\ top = 0 /\ spoilt = FALSE
    BY EditAssumption DEF Init
  <2>3. Text = t
    BY <2>1, <2>2, LoadedIs
  <2>4. versions \in Seq(Seq(Char)) /\ Len(versions) = 1
    BY <2>1, <2>2
  <2>5. SubSeq(versions, 1, 0) = <<>>
    BY <2>4, StartIs, EmptySeq
  <2>6. SubSeq(versions, 2, 1) = <<>>
    BY <2>4, EndIs, EmptySeq
  <2> QED BY <2>2, <2>3, <2>4, <2>5, <2>6 DEF History!Init
<1>2. IInv /\ [Next]_vars => [History!Next]_<<Text, Past, Future, spoilt>>
  <2>1. ASSUME IInv, Next
        PROVE  (IF spoilt THEN spoilt' = TRUE ELSE History!Edit \/ History!Undo \/ History!Redo)
               \/ HistoryStays
    BY <2>1, HistoryStep
  <2>2. ASSUME UNCHANGED vars PROVE HistoryStays
    <3>1. UNCHANGED bufferVars /\ UNCHANGED undoVars
      BY <2>2 DEF vars
    <3>2. Text' = Text
      BY <3>1, TextIs DEF Size, bufferVars
    <3> QED BY <3>1, <3>2 DEF HistoryStays, Past, Future, undoVars
  <2> QED BY <2>1, <2>2 DEF History!Next, HistoryStays
<1> QED BY <1>1, <1>2, Invariant, PTL DEF Spec, ImplementsEditHistory, History!Spec, Past, Future
=============================================================================
