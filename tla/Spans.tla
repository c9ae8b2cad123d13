-------------------------------- MODULE Spans --------------------------------
(***************************************************************************)
(* The spans of the editor's text, com.myopicmobile.textwarrior.common.    *)
(* TextBuffer: a list of the lengths of runs of characters that are drawn  *)
(* alike (the kind of each run is left out).  The lexer replaces the list; *)
(* between two of its results every edit adjusts it in place.  A list is a *)
(* sequence, so Java's index i is i + 1 here.                              *)
(***************************************************************************)
EXTENDS Integers, Sequences, SequencesExt

Total(spans) ==
  LET sum[i \in 0 .. Len(spans)] == IF i = 0 THEN 0 ELSE sum[i - 1] + spans[i]
  IN sum[Len(spans)]
UpTo(spans, i) == Total(SubSeq(spans, 1, i))

\* What an edit leaves when spans.get() or spans.remove() throws: the exception
\* ends the edit between the text and its rows.
Broken == <<-1, -1>>

\* clearSpans: one span over the whole text.
Cleared(length) == <<length>>

Least(S) == CHOOSE i \in S : \A j \in S : i <= j

\* findSpan and findSpan2: the first span that reaches, or goes past, an offset,
\* and where it starts; the first span, at 0, when the list is too short.
FirstWith(spans, Reaches(_)) ==
  LET found == {i \in DOMAIN spans : Reaches(UpTo(spans, i))}
  IN IF found = {} THEN [index |-> 1, start |-> 0]
     ELSE [index |-> Least(found), start |-> UpTo(spans, Least(found) - 1)]

findSpan(spans, offset) == FirstWith(spans, LAMBDA end : end >= offset)
findSpan2(spans, offset) == FirstWith(spans, LAMBDA end : end > offset)

onAdd(spans, offset, n) ==
  IF spans = << >> THEN spans
  ELSE [spans EXCEPT ![findSpan(spans, offset).index] = @ + n]

\* spans.remove(i)
Dropped(spans, i) == RemoveAt(spans, i)

\* (a mutant of the next definition) A span that has no character loses one.
TakeAlways(spans, i) == [spans EXCEPT ![i] = @ - 1]

\* The branch of onDel for one character: it comes out of the span it lies in.
TakeOne(spans, i) ==
  IF spans[i] > 1 THEN [spans EXCEPT ![i] = @ - 1] ELSE Dropped(spans, i)

\* The loop of onDel: rest characters come out of span i and the ones before it.
TakeBackwards(spans, i, rest) ==
  LET from == {k \in 1 .. i : Total(SubSeq(spans, k, i)) >= rest}
      k == CHOOSE k \in from : \A j \in from : j <= k
  IN IF from = {} THEN SubSeq(spans, i + 1, Len(spans))
     ELSE SubSeq(spans, 1, k - 1)
            \o << Total(SubSeq(spans, k, i)) - rest >>
            \o SubSeq(spans, i + 1, Len(spans))

\* (a mutant of the next definition) What was taken is not subtracted from the rest.
TakeTwice(spans, s, offset, n) ==
  LET l == offset - s.start
      cut == [spans EXCEPT ![s.index] = @ - l]
  IN IF n <= l THEN cut ELSE TakeBackwards(cut, s.index, n)

\* The branch for several: the span loses what it has before the offset, and the
\* rest is taken from it and the spans before it.
TakeMany(spans, s, offset, n) ==
  LET l == offset - s.start
      cut == IF spans[s.index] > l THEN [spans EXCEPT ![s.index] = @ - l]
             ELSE RemoveAt(spans, s.index)
  IN IF n <= l THEN cut
     ELSE IF s.index > Len(cut) THEN Broken
     ELSE TakeBackwards(cut, s.index, n - l)

\* onDel, where length is what length() says when it runs.
onDel(spans, offset, n, length) ==
  LET s == findSpan2(spans, offset)
  IN IF length = 0 THEN Cleared(0)
     ELSE IF spans = << >> THEN Broken
     ELSE IF n = 1 THEN TakeOne(spans, s.index)
     ELSE TakeMany(spans, s, offset, n)

\* The edits of which onDel takes the right number: one character out of a span that
\* has one, or several that are no fewer than the characters of their span before
\* them, which it takes first, and no more than there are up to its end.
TakesAll(spans, offset, n) ==
  LET s == findSpan2(spans, offset)
  IN \/ n = 1 /\ spans[s.index] > 0
     \/ /\ offset < Total(spans)
        /\ offset - s.start <= n /\ n <= UpTo(spans, s.index)
=============================================================================
