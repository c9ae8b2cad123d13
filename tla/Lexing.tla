-------------------------------- MODULE Lexing --------------------------------
(***************************************************************************)
(* How the editor keeps its text coloured: Lexer and its LexThread, the    *)
(* lexDone() of the text field's controller and the spans of the text.     *)
(*                                                                         *)
(* Every edit ends with determineSpans(): the UI thread cancels the worker *)
(* it has noted in _workerThread, notes a new one and starts it.  Workers  *)
(* read the living text without a lock, post their result to the UI thread *)
(* and then forget _workerThread, whichever worker it names by then.  The  *)
(* field is not volatile and no lock guards it, so each of its reads and   *)
(* writes is a step.  A text is the number of edits that made it.          *)
(***************************************************************************)
EXTENDS Spans, FiniteSets

CONSTANTS
  None,        \* null
  Edits,       \* the edits the user makes: <<what, offset, number of characters>>
  MaxLength,   \* bound on the length of the text
  MaxCalls     \* bound on the calls of tokenize(), each with a thread of its own

ASSUME LexingAssumption ==
  /\ MaxLength \in Nat \ {0} /\ MaxCalls \in Nat \ {0}
  /\ Edits \subseteq {"insert", "delete", "shift back"} \X Nat \X (Nat \ {0})
  /\ None \notin 0 .. MaxCalls

VARIABLES
  lengths,        \* length() of the first text, the second, ... and the one there is
  spans,          \* _spans of the text
  ui,             \* where the UI thread is in tokenize() or cancelTokenize()
  calls,          \* how many calls of tokenize() there were; the latest thread
  _workerThread,  \* of the Lexer
  pc,             \* where each thread is
  _abort,         \* of each thread
  read,           \* of each thread: the texts it saw first and last, and whether it threw
  posted,         \* the results posted to the UI thread, oldest first
  shown,          \* history: the thread and the texts the spans come from
  seen,           \* history: the latest text a delivered scan began with
  exact,          \* history: the spans are adjusted from a result that was exact, by
                  \*   edits that onDel takes out in full
  disturbed,      \* history: a thread began after it was aborted, or was past its
                  \*   last look at _abort, and not done, with the UI in tokenize()
  closed          \* history: cancelSpanning() was called

textVars == <<lengths, spans>>
lexVars == <<_workerThread, pc, _abort, read>>
historyVars == <<shown, seen, exact, closed>>
progVars == <<textVars, ui, calls, lexVars, posted, historyVars>>
vars == <<progVars, disturbed>>

version == Len(lengths)
length == lengths[version]

LexThread == 1 .. MaxCalls
NoResult == [by |-> 0, from |-> 0]
NoScan == [from |-> 0, to |-> 0, threw |-> FALSE]

\* setDocumentProvider has cleared the spans and calls determineSpans().
Init ==
  /\ lengths = <<MaxLength>>
  /\ spans = Cleared(MaxLength)
  /\ ui = "tokenize" /\ calls = 0
  /\ _workerThread = None
  /\ pc = [t \in LexThread |-> "none"]
  /\ _abort = [t \in LexThread |-> FALSE]
  /\ read = [t \in LexThread |-> NoScan]
  /\ posted = << >>
  /\ shown = NoResult /\ seen = 0 /\ exact = TRUE
  /\ disturbed = FALSE /\ closed = FALSE

-----------------------------------------------------------------------------
(* The UI thread: edits.                                                   *)

\* The spans after an edit; determineSpans() comes next unless the edit threw.
Edited(l, after) ==
  /\ lengths' = Append(lengths, l)
  /\ IF after = Broken THEN ui' = "crashed" /\ UNCHANGED spans
                       ELSE ui' = "tokenize" /\ spans' = after
  /\ UNCHANGED <<calls, lexVars, posted, shown, seen, closed>>

CanEdit == ui = "idle" /\ calls < MaxCalls

\* An insertion, or a redo that moves the gap over characters it still holds.
Insert(offset, n) ==
  /\ CanEdit /\ offset <= length /\ length + n <= MaxLength
  /\ Edited(length + n, onAdd(spans, offset, n))
  /\ UNCHANGED exact

Delete(offset, n) ==
  /\ CanEdit /\ offset + n <= length
  /\ Edited(length - n, onDel(spans, offset, n, length - n))
  /\ exact' = (length = n \/ (exact /\ TakesAll(spans, offset, n)))

\* An undo by shiftGapStart: the spans are told the end of what goes, and before
\* the gap has moved.
ShiftGapBack(offset, n) ==
  /\ CanEdit /\ n <= offset /\ offset <= length
  /\ Edited(length - n, onDel(spans, offset, n, length))
  /\ exact' = (exact /\ n < length /\ TakesAll(spans, offset, n))

\* respan: the text is as it was.
respan ==
  /\ CanEdit
  /\ ui' = "tokenize"
  /\ UNCHANGED <<textVars, calls, lexVars, posted, historyVars>>

\* onDestroy of the field: cancelSpanning().
cancelSpanning ==
  /\ ui = "idle" /\ ~closed
  /\ ui' = "close" /\ closed' = TRUE
  /\ UNCHANGED <<textVars, calls, lexVars, posted, shown, seen, exact>>

-----------------------------------------------------------------------------
(* The UI thread: tokenize() and cancelTokenize().                         *)

AfterCancel == IF closed THEN "closed" ELSE "create"

\* (a mutant of the next definition) tokenize() without cancelTokenize().
LeaveWorker ==
  /\ ui \in {"tokenize", "close"}
  /\ ui' = AfterCancel
  /\ UNCHANGED <<textVars, calls, lexVars, posted, historyVars>>

\* The first look of cancelTokenize at the field.
FindWorker ==
  /\ ui \in {"tokenize", "close"}
  /\ ui' = IF _workerThread = None THEN AfterCancel ELSE "abort"
  /\ UNCHANGED <<textVars, calls, lexVars, posted, historyVars>>

\* (a mutant of the next definition) The field is cleared and the flag is not set.
DropWorker ==
  /\ ui = "abort"
  /\ _workerThread' = None
  /\ ui' = AfterCancel
  /\ UNCHANGED <<textVars, calls, _abort, pc, read, posted, historyVars>>

\* The second look, which may find null by now.
AbortWorker ==
  /\ ui = "abort"
  /\ IF _workerThread = None
     THEN ui' = "crashed" /\ UNCHANGED <<_abort, _workerThread>>
     ELSE /\ _abort' = [_abort EXCEPT ![_workerThread] = TRUE]
          /\ _workerThread' = None
          /\ ui' = AfterCancel
  /\ UNCHANGED <<textVars, calls, pc, read, posted, historyVars>>

CreateWorker ==
  /\ ui = "create"
  /\ calls' = calls + 1
  /\ _workerThread' = calls'
  /\ ui' = "start"
  /\ UNCHANGED <<textVars, pc, _abort, read, posted, historyVars>>

\* start() of what the field names, unless a worker has set it to null: tokenize()
\* catches that exception and the thread never runs.
StartWorker ==
  /\ ui = "start"
  /\ IF _workerThread = None
     THEN UNCHANGED pc
     ELSE pc' = [pc EXCEPT ![_workerThread] = "started"]
  /\ ui' = "idle"
  /\ UNCHANGED <<textVars, calls, _workerThread, _abort, read, posted, historyVars>>

\* What a scan of a text of this length finds: two tokens, where there is room.
Tokenized(l) == IF l < 2 THEN <<l>> ELSE <<1, l - 1>>

\* What a scan found, chosen when it is shown.  The text may have changed under it,
\* and its length is then one between; a script that makes the scan throw ends it
\* early, with the tokens it has; if it threw elsewhere it has none.
Found(scan) ==
  LET before == lengths[scan.from]
      now == lengths[scan.to]
  IN IF scan.threw THEN {<< >>}
     ELSE {Tokenized(l) : l \in (before .. now) \union (now .. before)}
            \union (IF now > 1 THEN {<<1>>} ELSE {})

\* The Runnable of lexDone: the result becomes the spans, whatever it is.
Deliver ==
  /\ ui \in {"idle", "closed"} /\ posted # << >>
  /\ LET r == Head(posted) IN
       /\ spans' \in Found(r)
       /\ shown' = [by |-> r.by, from |-> r.from]
       /\ seen' = IF r.from > seen THEN r.from ELSE seen
       /\ exact' = (~r.threw /\ r.from = version /\ r.to = version
                      /\ Total(spans') = length)
  /\ posted' = Tail(posted)
  /\ UNCHANGED <<lengths, ui, calls, lexVars, closed>>

\* paint() of the field, which cannot do without a span.
Paint ==
  /\ ui = "idle" /\ spans = << >>
  /\ spans' = <<0>>
  /\ UNCHANGED <<lengths, ui, calls, lexVars, posted, historyVars>>

-----------------------------------------------------------------------------
(* A worker: LexThread.run().                                              *)

\* _abort.clear() comes first, whatever was set before.
Begin(t) ==
  /\ pc[t] = "started"
  /\ pc' = [pc EXCEPT ![t] = "scanning"]
  /\ _abort' = [_abort EXCEPT ![t] = FALSE]
  /\ read' = [read EXCEPT ![t] =
                [from |-> version, to |-> version, threw |-> FALSE]]
  /\ UNCHANGED <<textVars, ui, calls, _workerThread, posted, historyVars>>

\* A scan can throw outside its own handler only while another one goes on: in the
\* lists of names that all of them share.
MayThrow(t) == \E o \in LexThread \ {t} : pc[o] = "scanning"

\* (a mutant of the next definition) No look at _abort.
ScanAnyway(t) ==
  /\ pc[t] = "scanning"
  /\ pc' = [pc EXCEPT ![t] = "posting"]
  /\ read' = [read EXCEPT ![t].to = version]
  /\ UNCHANGED <<textVars, ui, calls, _workerThread, _abort, posted, historyVars>>

\* The end of the scan and the look at _abort after it; a thread that sees the flag
\* in the scan sees it there too.
Scan(t) ==
  /\ pc[t] = "scanning"
  /\ IF _abort[t]
     THEN pc' = [pc EXCEPT ![t] = "done"] /\ read' = [read EXCEPT ![t] = NoScan]
     ELSE /\ pc' = [pc EXCEPT ![t] = "posting"]
          /\ \E threw \in {FALSE, MayThrow(t)} :
               read' = [read EXCEPT ![t] = [from |-> @.from, to |-> version, threw |-> threw]]
  /\ UNCHANGED <<textVars, ui, calls, _workerThread, _abort, posted, historyVars>>

\* The result of a thread is of the texts it saw.
Result(t) == [by |-> t, from |-> read[t].from, to |-> read[t].to, threw |-> read[t].threw]

\* (a mutant of the next definition) Only the worker the field names posts.
PostIfNamed(t) ==
  /\ pc[t] = "posting"
  /\ pc' = [pc EXCEPT ![t] = "posted"]
  /\ posted' = IF _workerThread = t THEN Append(posted, Result(t)) ELSE posted
  /\ read' = [read EXCEPT ![t] = NoScan]
  /\ UNCHANGED <<textVars, ui, calls, _workerThread, _abort, historyVars>>

\* tokenizeDone: lexDone() posts the result, ...
PostResult(t) ==
  /\ pc[t] = "posting"
  /\ pc' = [pc EXCEPT ![t] = "posted"]
  /\ posted' = Append(posted, Result(t))
  /\ read' = [read EXCEPT ![t] = NoScan]
  /\ UNCHANGED <<textVars, ui, calls, _workerThread, _abort, historyVars>>

\* ... and the field is cleared.
ForgetWorker(t) ==
  /\ pc[t] = "posted"
  /\ pc' = [pc EXCEPT ![t] = "done"]
  /\ _workerThread' = None
  /\ UNCHANGED <<textVars, ui, calls, _abort, read, posted, historyVars>>

-----------------------------------------------------------------------------
Edit ==
  \E e \in Edits :
    \/ e[1] = "insert" /\ Insert(e[2], e[3])
    \/ e[1] = "delete" /\ Delete(e[2], e[3])
    \/ e[1] = "shift back" /\ ShiftGapBack(e[2], e[3])

Tokenize == FindWorker \/ AbortWorker \/ CreateWorker \/ StartWorker

\* An exception of the UI thread ends the program.
Work(t) ==
  /\ ui # "crashed"
  /\ Begin(t) \/ Scan(t) \/ PostResult(t) \/ ForgetWorker(t)

Step ==
  \/ Edit \/ respan \/ cancelSpanning \/ Tokenize \/ Deliver \/ Paint
  \/ \E t \in LexThread : Work(t)

Ending == {t \in LexThread : pc[t] \in {"posting", "posted"}}
InTokenize == ui \in {"tokenize", "close", "abort", "create", "start"}
Disturbance ==
  \/ (InTokenize /\ Ending # {})'
  \/ \E t \in LexThread : Begin(t) /\ _abort[t]

Next ==
  /\ Step
  /\ disturbed' = (disturbed \/ Disturbance)

\* The main looper goes on with its turn and its messages, and every thread that was
\* started runs; what the user does is his affair.
Fairness ==
  /\ WF_progVars(Tokenize \/ Deliver)
  /\ \A t \in LexThread : WF_progVars(Work(t))

Spec == Init /\ [][Next]_vars /\ Fairness

-----------------------------------------------------------------------------
(* What is true of it.                                                     *)

Texts == 0 .. MaxCalls

\* The hand-over from the UI thread to the workers and back; a thread has a pc once
\* tokenize() has made it.
HandOverTypeOK ==
  /\ ui \in {"idle", "tokenize", "close", "abort", "create", "start", "closed", "crashed"}
  /\ calls \in 0 .. MaxCalls
  /\ _workerThread \in (1 .. calls) \union {None}
  /\ pc \in [LexThread -> {"none", "started", "scanning", "posting", "posted", "done"}]
  /\ \A t \in LexThread : t > calls => pc[t] = "none"
  /\ _abort \in [LexThread -> BOOLEAN]
  /\ read \in [LexThread -> [from : Texts, to : Texts, threw : BOOLEAN]]
  /\ posted \in Seq([by : LexThread, from : Texts, to : Texts, threw : BOOLEAN])
  /\ shown \in [by : Texts, from : Texts] /\ seen \in Texts
  /\ {exact, disturbed, closed} \subseteq BOOLEAN

\* Every variable has its type, and no span is of less than no characters.
TypeOK ==
  /\ lengths \in Seq(0 .. MaxLength) /\ version \in 1 .. MaxCalls
  /\ spans \in Seq(Nat)
  /\ HandOverTypeOK

\* Between two results of the lexer the spans are kept in step with the text by
\* onAdd and onDel alone: from a result that fits the text they cover every
\* character and are never empty, so that no edit throws, through any insertions
\* and deletions (TextBuffer.java:440-516).  Where onDel takes the characters before
\* the offset instead of those behind it (479) the number of them is wrong when the
\* deletion has fewer than these, or more than there are up to the end of its span.
SpansCoverText == exact => Total(spans) = length /\ spans # << >>

\* Windows of the unlocked hand-over: an edit while a worker is past its last look
\* at _abort, and a worker that was aborted before it began.  Outside of them ...
Undisturbed == ~disturbed

\* ... a worker that may still post its result is the one _workerThread names, so
\* that the next edit can stop it (Lexer.java:142-163).
RunningWorkerIsNamed ==
  Undisturbed =>
    \A t \in LexThread :
      pc[t] \in {"started", "scanning"} /\ ~_abort[t] => _workerThread = t

\* ... when everything has come to rest the colours are those of the text as it is,
\* read by a scan that saw no other (Lexer.java:151-156, 205-226).
FreshWhenQuiet ==
  Undisturbed /\ ui = "idle" /\ posted = << >>
    /\ (\A t \in LexThread : pc[t] \in {"none", "done"})
    => shown.from = version

\* ... the results that reach the text are those of later and later workers.
ResultsInOrder == [][Deliver /\ Undisturbed => Head(posted).by > shown.by]_vars

\* tokenize() came to an end and its thread does not run.
Lost == ui = "idle" /\ pc[calls] = "none"

\* Disturbed or not, the field comes to show a result of a scan that began with the
\* latest text, unless tokenize() lost its thread or threw, or the field was closed
\* (FreeScrollingTextField.java:2711: "redraws the text view when done").
HighlightingArrives ==
  ui = "tokenize" ~> (seen = version \/ Lost \/ closed \/ ui = "crashed")
=============================================================================
