----------------------------- MODULE TextBuffer -----------------------------
(***************************************************************************)
(* TextBuffer, TextBufferCache and the row table of Document (word wrap    *)
(* off, its default): the text of the editor in an array with a gap, a     *)
(* cache of line offsets, a count of lines and a table of row offsets, all *)
(* kept up to date by the three operations that change the text.  The code *)
(* moves characters one at a time; here each move is its result.  The      *)
(* array ends in the EOF cell, and the EOF is not part of Text.            *)
(***************************************************************************)
EXTENDS Integers, Sequences, FiniteSets

CONSTANTS
  Char,         \* the characters a text is made of
  NL,           \* Language.NEWLINE
  EOF,          \* Language.EOF
  NUL,          \* what a fresh array cell holds
  MinGap,       \* MIN_GAP_SIZE, 50 in the code
  CacheSize     \* CACHE_SIZE, 4 in the code

ASSUME CharAssumption == NL \in Char /\ EOF \notin Char /\ NUL \notin Char /\ EOF # NUL
ASSUME SizeAssumption == MinGap \in Nat \ {0} /\ CacheSize \in Nat \ {0, 1}

VARIABLES
  contents,         \* _contents, a function on 0..length-1
  gapStart,         \* _gapStartIndex
  gapEnd,           \* _gapEndIndex, one past the gap
  lineCount,        \* _lineCount
  allocMultiplier,  \* _allocMultiplier
  cache,            \* _cache: the entries, the most recently used first after (0, 0)
  rowTable,         \* Document._rowTable: the offset of every row
  stale             \* history: the cache kept an entry for text that moved

bufferVars == <<contents, gapStart, gapEnd, lineCount, allocMultiplier, cache, rowTable, stale>>

(* Indices.  "Real" indices are those of the array, the others of the text. *)
Size == Cardinality(DOMAIN contents)
GapSize == gapEnd - gapStart
TextLength == Size - GapSize
LogicalToReal(i) == IF i < gapStart THEN i ELSE i + GapSize

\* The text from offset from, n characters of it.
TextAt(from, n) == [i \in 1..n |-> contents[LogicalToReal(from + i - 1)]]

\* What the user sees: all but the EOF.
Text == TextAt(0, TextLength - 1)

\* subSequence: at most n characters, none from outside the text.
SubSequence(from, n) ==
  IF from \in 0..(TextLength - 1) /\ n > 0
    THEN TextAt(from, IF from + n > TextLength THEN TextLength - from ELSE n)
    ELSE <<>>

\* gapSubSequence: the n cells at the start of the gap.
GapSubSequence(n) == [i \in 1..n |-> contents[gapStart + i - 1]]

\* The position in the set S that has n - 1 positions below it.
Nth(S, n) == CHOOSE i \in S : Cardinality({j \in S : j < i}) = n - 1

\* A set of positions as the sequence in which a scan meets them.
InOrder(S) == [k \in 1..Cardinality(S) |-> Nth(S, k)]

(* The reference: what the derived state should say of a text t. *)
Splice(t, from, n, s) == SubSeq(t, 1, from) \o s \o SubSeq(t, from + n + 1, Len(t))
NewLines(t, from, to) == InOrder({i \in (from + 1)..to : i <= Len(t) /\ t[i] = NL})
LineStarts(t) == <<0>> \o NewLines(t, 0, Len(t))

-----------------------------------------------------------------------------
(* TextBufferCache *)
NoEntry == [line |-> -1, offset |-> -1]
EmptyCache == [k \in 1..CacheSize |-> IF k = 1 THEN [line |-> 0, offset |-> 0] ELSE NoEntry]

\* makeHead: the first entry keeps its place.
MakeHead(k) ==
  [j \in 1..CacheSize |-> IF k = 1 \/ j = 1 \/ j > k THEN cache[j]
                          ELSE IF j = 2 THEN cache[k] ELSE cache[j - 1]]

Abs(n) == IF n < 0 THEN -n ELSE n

\* The first entry with the smallest distance d[k].
Nearest(d) == CHOOSE k \in 1..CacheSize :
                \A j \in 1..CacheSize : d[k] < d[j] \/ (d[k] = d[j] /\ k <= j)
NearestLine(l) == Nearest([k \in 1..CacheSize |-> Abs(l - cache[k].line)])
NearestOffset(o) == Nearest([k \in 1..CacheSize |-> Abs(o - cache[k].offset)])

\* updateEntry on the cache c: line 0 is never entered, a known line is replaced.
UpdateEntry(c, l, o) ==
  LET known == {k \in 2..CacheSize : c[k].line = l}
      entry == [line |-> l, offset |-> o]
  IN IF l <= 0 THEN c
     ELSE IF known # {}
       THEN [c EXCEPT ![CHOOSE k \in known : \A j \in known : k <= j] = entry]
       ELSE [k \in 1..CacheSize |-> IF k = 1 THEN c[1] ELSE IF k = 2 THEN entry ELSE c[k - 1]]

\* invalidateCache: entry (0, 0) stays.
Invalidate(from) ==
  [k \in 1..CacheSize |-> IF k > 1 /\ cache[k].offset >= from THEN NoEntry ELSE cache[k]]

-----------------------------------------------------------------------------
(* Lookups by line and by offset.  Each starts from the nearest cached      *)
(* entry, counts newlines from there, and gives the answer and the cache it *)
(* leaves.  Crash stands for an index below the array, which the backward   *)
(* search of an entry that is wrong can reach.                              *)
Crash == -2

\* The 1-based positions of newlines among the characters from..to-1.
NewLinesIn(from, to) ==
  {i \in (from + 1)..to : i < TextLength /\ contents[LogicalToReal(i - 1)] = NL}

\* findCharOffset
CharOffsetForward(l, from) ==
  LET ahead == NewLinesIn(from.offset, TextLength)
      n == l - from.line
  IN IF n <= Cardinality(ahead) THEN Nth(ahead, n) ELSE -1

\* findCharOffsetBackward: to just after the newline before the line.
CharOffsetBackward(l, from) ==
  LET behind == NewLinesIn(0, from.offset)
      n == Cardinality(behind) - (from.line - l)
  IN IF l = 0 THEN 0 ELSE IF n < 1 THEN Crash ELSE Nth(behind, n)

\* getLineOffset
GetLineOffset(l) ==
  LET k == NearestLine(l)
      from == cache[k]
      o == IF l > from.line THEN CharOffsetForward(l, from)
           ELSE IF l < from.line THEN CharOffsetBackward(l, from)
           ELSE from.offset
  IN [answer |-> o,
      cache |-> IF o >= 0 THEN UpdateEntry(MakeHead(k), l, o) ELSE MakeHead(k)]

\* (a mutant of the next definition) Behind, the line start is entered one line early.
FindLineNumberLate(o) ==
  LET k == NearestOffset(o)
      from == cache[k]
      ahead == NewLinesIn(from.offset, o)
      behind == NewLinesIn(o, from.offset)
      line == from.line + Cardinality(ahead) - Cardinality(behind)
      head == MakeHead(k)
  IN [answer |-> line,
      cache |-> IF ahead # {} THEN UpdateEntry(head, line, Nth(ahead, Cardinality(ahead)))
                ELSE IF behind # {} THEN UpdateEntry(head, line, Nth(behind, 1))
                ELSE head]

\* findLineNumber: the line start nearest to the target is entered.
FindLineNumber(o) ==
  LET k == NearestOffset(o)
      from == cache[k]
      ahead == NewLinesIn(from.offset, o)
      behind == NewLinesIn(o, from.offset)
      line == from.line + Cardinality(ahead) - Cardinality(behind)
      head == MakeHead(k)
  IN [answer |-> line,
      cache |-> IF ahead # {} THEN UpdateEntry(head, line, Nth(ahead, Cardinality(ahead)))
                ELSE IF behind # {} THEN UpdateEntry(head, line + 1, Nth(behind, 1))
                ELSE head]

LookupLine(l) ==
  /\ cache' = GetLineOffset(l).cache
  /\ UNCHANGED <<contents, gapStart, gapEnd, lineCount, allocMultiplier, rowTable, stale>>

LookupOffset(o) ==
  /\ cache' = FindLineNumber(o).cache
  /\ UNCHANGED <<contents, gapStart, gapEnd, lineCount, allocMultiplier, rowTable, stale>>

-----------------------------------------------------------------------------
(* Document: the rows of a text without word wrap are its lines. *)

\* findRowNumber, the row's place in the sorted rowTable.
FindRowNumber(o) == Cardinality({r \in 1..Len(rowTable) : rowTable[r] <= o})

\* findNextLineFrom: just after the next newline of t, or after the EOF.
FindNextLineFrom(t, from) ==
  LET ahead == {i \in (from + 1)..Len(t) : t[i] = NL}
  IN IF ahead = {} THEN Len(t) + 1 ELSE CHOOSE i \in ahead : \A j \in ahead : i <= j

\* (a mutant of the next definition) The rows to drop are those of the new text.
RowsUnshifted(t, at, next, delta) ==
  LET found == FindRowNumber(at)
      start == IF found > 1 THEN found - 1 ELSE 1
      end == FindNextLineFrom(t, next)
      after == SubSeq(rowTable, FindRowNumber(end) + 1, Len(rowTable))
  IN SubSeq(rowTable, 1, start) \o NewLines(t, rowTable[start], end)
     \o [r \in 1..Len(after) |-> after[r] + delta]

\* updateWordWrapAfterEdit: t is the new text, at where it changed, next where
\* the unchanged part goes on, delta what was added to its length.
UpdateRows(t, at, next, delta) ==
  LET found == FindRowNumber(at)
      start == IF found > 1 THEN found - 1 ELSE 1
      end == FindNextLineFrom(t, next)
      after == SubSeq(rowTable, FindRowNumber(end - delta) + 1, Len(rowTable))
  IN SubSeq(rowTable, 1, start) \o NewLines(t, rowTable[start], end)
     \o [r \in 1..Len(after) |-> after[r] + delta]

-----------------------------------------------------------------------------
(* The three operations that change the text. *)
CountIn(c, from, n) == Cardinality({i \in from..(from + n - 1) : c[i] = NL})

\* shiftGapLeft, shiftGapRight: the array when the gap is moved to start at g.
ShiftGapTo(g) ==
  [i \in DOMAIN contents |->
     IF g + GapSize <= i /\ i < gapEnd THEN contents[i - GapSize]
     ELSE IF gapStart <= i /\ i < g THEN contents[i + GapSize]
     ELSE contents[i]]

\* (a mutant of the next definition) A gap that is just filled is left empty.
GrowthWhenOver(n) == IF n > GapSize THEN n - GapSize + MinGap * allocMultiplier ELSE 0

\* growBufferBy: what it adds when n characters do not fit, and the array c,
\* whose gap starts at g, with that added to its gap.  The gap's cells are lost.
Growth(n) == IF n >= GapSize THEN n - GapSize + MinGap * allocMultiplier ELSE 0
GrowBuffer(c, g, increase) ==
  IF increase = 0 THEN c
  ELSE [i \in 0..(Size + increase - 1) |->
          IF i < g THEN c[i]
          ELSE IF i >= g + GapSize + increase THEN c[i - increase]
          ELSE NUL]

\* Entries that were right before are wrong when they lie inside from..to.
MarkStale(from, to) ==
  stale' = /\ \/ stale
              \/ \E k \in 2..CacheSize : from < cache[k].offset /\ cache[k].offset < to
           /\ \E k \in 2..CacheSize : cache'[k] # NoEntry

insert(s, at) ==
  LET increase == Growth(Len(s))
      roomy == GrowBuffer(ShiftGapTo(at), at, increase)
  IN /\ contents' = [i \in DOMAIN roomy |->
                       IF i \in at..(at + Len(s) - 1) THEN s[i - at + 1] ELSE roomy[i]]
     /\ gapStart' = at + Len(s)
     /\ gapEnd' = at + GapSize + increase
     /\ allocMultiplier' = IF increase > 0 THEN 2 * allocMultiplier ELSE allocMultiplier
     /\ lineCount' = lineCount + CountIn(s, 1, Len(s))
     /\ cache' = Invalidate(at)
     /\ rowTable' = UpdateRows(Text', at, at + Len(s), Len(s))
     /\ MarkStale(0, 0)

delete(at, n) ==
  /\ contents' = ShiftGapTo(at + n)
  /\ gapStart' = at
  /\ gapEnd' = at + n + GapSize
  /\ lineCount' = lineCount - CountIn(contents', at, n)
  /\ cache' = Invalidate(at)
  /\ rowTable' = UpdateRows(Text', at, at, -n)
  /\ MarkStale(0, 0)
  /\ UNCHANGED allocMultiplier

\* shiftGapStart(displacement): the last characters before the gap go into it,
\* or its first cells come back into the text.
shiftGapStart(d) ==
  /\ UNCHANGED <<contents, gapEnd, allocMultiplier>>
  /\ gapStart' = gapStart + d
  /\ lineCount' = IF d >= 0 THEN lineCount + CountIn(contents, gapStart, d)
                            ELSE lineCount - CountIn(contents, gapStart + d, -d)
  /\ cache' = Invalidate(gapStart + d)
  /\ rowTable' = IF d = 0 THEN rowTable
                 ELSE UpdateRows(Text', IF d > 0 THEN gapStart ELSE gapStart + d, gapStart + d, d)
  /\ MarkStale(gapStart, gapStart + d)

\* Document(metrics).setText(t) and analyzeWordWrap(): the gap comes first.
setText(t) ==
  /\ contents = [i \in 0..(Len(t) + MinGap) |->
                   IF i = Len(t) + MinGap THEN EOF
                   ELSE IF i < MinGap THEN IF i < Len(t) THEN t[i + 1] ELSE NUL
                   ELSE t[i - MinGap + 1]]
  /\ gapStart = 0
  /\ gapEnd = MinGap
  /\ lineCount = 1 + Len(NewLines(t, 0, Len(t)))
  /\ allocMultiplier = 1
  /\ cache = EmptyCache
  /\ rowTable = LineStarts(t)
  /\ stale = FALSE

-----------------------------------------------------------------------------
(* Properties *)

\* The gap lies inside the array, whose last cell holds the one EOF.
BufferTypeOK ==
  /\ DOMAIN contents = 0..(Size - 1)
  /\ \A i \in 0..(Size - 2) : contents[i] \in Char \cup {NUL}
  /\ contents[Size - 1] = EOF
  /\ gapStart \in 0..gapEnd /\ gapStart < gapEnd /\ gapEnd < Size
  /\ allocMultiplier \in Nat \ {0}
  /\ cache \in [1..CacheSize -> [line : Int, offset : Int]] /\ cache[1] = EmptyCache[1]
  /\ stale \in BOOLEAN

\* Each edit repairs the row table and the line count from the rows it touched;
\* what results is what a scan of the whole text would give.
RowsMatchText == rowTable = LineStarts(Text) /\ lineCount = Len(LineStarts(Text))

\* Every lookup through the cache, of any line or offset and from whatever the
\* edits and lookups before it left there, answers as a scan of the text would,
\* unless the cache kept an entry for characters an undo has moved (stale).
LookupsMatchText ==
  ~stale =>
    /\ LET starts == LineStarts(Text)
       IN \A l \in 0..Len(starts) :
            GetLineOffset(l).answer = IF l < Len(starts) THEN starts[l + 1] ELSE -1
    /\ \A o \in 0..Len(Text) :
         FindLineNumber(o).answer = Len(NewLines(Text, 0, o))
=============================================================================
