----------------------------- MODULE UndoStack -----------------------------
(***************************************************************************)
(* UndoStack over TextBuffer: edits are recorded as commands that copy the *)
(* affected text only when another command is pushed or they are undone;   *)
(* until then inserted text is in the buffer and deleted text in its gap.  *)
(* An edit made within a second of the last one (soon) may be merged into  *)
(* it.  Undo and redo walk the commands of one group, one step here for    *)
(* one turn of the loop; nothing else happens during a walk.  The editor's *)
(* view edits through DocumentProvider, which checks the offsets, and      *)
(* never deletes the EOF.                                                  *)
(***************************************************************************)
EXTENDS TextBuffer

CONSTANTS
  InitialText,  \* the texts a document may be loaded with
  Inserts,      \* the pieces of text that are typed or pasted
  MaxDelete,    \* the longest deletion
  MaxText,      \* bound: the longest text
  MaxEdits,     \* bound: the edits
  MaxLookups,   \* bound: the lookups of lines
  MaxGroup,     \* bound: the group ids used by batches
  Null

ASSUME EditAssumption ==
  /\ InitialText \subseteq Seq(Char)
  /\ Inserts \subseteq Seq(Char) \ {<<>>}
  /\ MaxDelete \in Nat /\ MaxText \in Nat /\ MaxEdits \in Nat
  /\ MaxLookups \in Nat /\ MaxGroup \in Nat
  /\ Null \notin Seq(Char \cup {NUL})

VARIABLES
  stack,     \* _stack
  top,       \* _top: the commands below it can be undone, the others redone
  batch,     \* _isBatchEdit
  groupId,   \* _groupId
  walk,      \* "undo", "redo": inside that loop; "none": in neither
  versions,  \* history: the text before each command and after the last one
  batches,   \* history: of each command, the batches whose edits it holds
  spoilt,    \* history: a command no longer describes its edits
  edits,     \* bound: edits made
  lookups    \* bound: lookups made

undoVars == <<stack, top, batch, groupId, walk, versions, batches, spoilt>>
vars == <<bufferVars, undoVars, edits, lookups>>

Init ==
  /\ \E t \in InitialText : setText(t) /\ versions = <<t>>
  /\ stack = <<>> /\ top = 0 /\ groupId = 0 /\ batches = <<>>
  /\ batch = FALSE /\ walk = "none" /\ spoilt = FALSE
  /\ edits = 0 /\ lookups = 0

canUndo == top > 0
canRedo == top < Len(stack)

-----------------------------------------------------------------------------
(* Recording an edit *)

\* (a mutant of the next definition) The copy is not taken.
NotRecorded(c) == c

\* recordData of the two kinds of commands
Recorded(c) == [c EXCEPT !.data = IF c.kind = "insert" THEN SubSequence(c.start, c.length)
                                  ELSE GapSubSequence(c.length)]

\* merge: an insert goes on where the last one ended.  The one of DeleteCommand
\* means a deletion that ends where the last one began.
Merges(kind, at, n, soon) ==
  /\ canUndo /\ stack[top].kind = kind
  /\ soon
  /\ \/ kind = "insert" /\ at = stack[top].start + stack[top].length
     \/ kind = "delete" /\ at = stack[top].start - stack[top].length - n + 1

\* (a mutant of the next definition) A merged deletion keeps its start.
MergedKeepingStart(c, at, n) == [c EXCEPT !.length = @ + n]
Merged(c, at, n) == [c EXCEPT !.start = IF c.kind = "delete" THEN at ELSE @,
                              !.length = @ + n]

\* captureInsert, captureDelete, push and trimStack
capture(kind, at, n, soon) ==
  IF Merges(kind, at, n, soon)
    THEN /\ stack' = Append(SubSeq(stack, 1, top - 1), Merged(stack[top], at, n))
         /\ UNCHANGED <<top, groupId>>
    ELSE /\ stack' = Append([i \in 1..top |-> IF i = top THEN Recorded(stack[i]) ELSE stack[i]],
                            [kind |-> kind, start |-> at, length |-> n,
                             data |-> Null, group |-> groupId])
         /\ top' = top + 1
         /\ groupId' = IF batch THEN groupId ELSE groupId + 1

\* The three ways in which the record of the last edit goes wrong: a deletion is
\* merged that does not touch it, an edit is merged into a command whose text was
\* copied already, and a deletion undone and redone before is copied again from a
\* gap that has moved away.
Spoils(kind, at, n, soon) ==
  IF Merges(kind, at, n, soon)
    THEN stack[top].data # Null \/ (kind = "delete" /\ at + n # stack[top].start)
    ELSE canUndo /\ stack[top].data # Null /\ Recorded(stack[top]).data # stack[top].data

\* A batch is named by the group id that stays the same until it ends.
BatchOf == IF batch THEN {groupId} ELSE {}

\* The history keeps what the text should be, whatever the buffer makes of it, and
\* of which batches an edit, pushed or merged, makes a command a part.
Remember(kind, at, n, soon, t) ==
  /\ versions' = Append(SubSeq(versions, 1, IF Merges(kind, at, n, soon) THEN top ELSE top + 1), t)
  /\ batches' = IF Merges(kind, at, n, soon)
                  THEN Append(SubSeq(batches, 1, top - 1), batches[top] \cup BatchOf)
                  ELSE Append(SubSeq(batches, 1, top), BatchOf)
  /\ spoilt' = (spoilt \/ Spoils(kind, at, n, soon))

\* Bound: nothing is followed past the point where the text has gone wrong.
Followed == Text = versions[top + 1]

\* DocumentProvider.insertBefore, TextBuffer.insert
Insert(s, at, soon) ==
  /\ walk = "none" /\ Followed /\ edits < MaxEdits
  /\ at \in 0..Len(Text) /\ Len(Text) + Len(s) <= MaxText
  /\ capture("insert", at, Len(s), soon)
  /\ insert(s, at)
  /\ Remember("insert", at, Len(s), soon, Splice(versions[top + 1], at, 0, s))
  /\ edits' = edits + 1
  /\ UNCHANGED <<batch, walk, lookups>>

\* DocumentProvider.deleteAt, TextBuffer.delete
Delete(at, n, soon) ==
  /\ walk = "none" /\ Followed /\ edits < MaxEdits
  /\ n > 0 /\ at + n <= Len(Text)
  /\ capture("delete", at, n, soon)
  /\ delete(at, n)
  /\ Remember("delete", at, n, soon, Splice(versions[top + 1], at, n, <<>>))
  /\ edits' = edits + 1
  /\ UNCHANGED <<batch, walk, lookups>>

BeginBatchEdit ==
  /\ walk = "none" /\ ~batch
  /\ batch' = TRUE
  /\ UNCHANGED <<bufferVars, stack, top, groupId, walk, versions, batches, spoilt, edits, lookups>>

EndBatchEdit ==
  /\ walk = "none" /\ groupId < MaxGroup
  /\ batch' = FALSE
  /\ groupId' = groupId + 1
  /\ UNCHANGED <<bufferVars, stack, top, walk, versions, batches, spoilt, edits, lookups>>

-----------------------------------------------------------------------------
(* Undo and redo, one command at a time *)

\* (a mutant of the next definition) Deleted text is looked for in the text, not the gap.
UndoRereading(c) ==
  IF c.kind = "delete" THEN insert(SubSequence(c.start, c.length), c.start)
  ELSE IF c.data = Null THEN shiftGapStart(-c.length) ELSE delete(c.start, c.length)

\* Command.undo: what was not copied yet is copied, and the gap's start moves.
UndoCommand(c) ==
  IF c.data = Null
    THEN shiftGapStart(IF c.kind = "insert" THEN -c.length ELSE c.length)
    ELSE IF c.kind = "insert" THEN delete(c.start, c.length) ELSE insert(c.data, c.start)

\* Command.redo
RedoCommand(c) ==
  IF c.kind = "insert" THEN insert(c.data, c.start) ELSE delete(c.start, c.length)

\* (a mutant of the next definition) One command is undone, whatever its group.
UndoOne ==
  /\ walk \in {"none", "undo"} /\ Followed /\ canUndo
  /\ UndoCommand(stack[top])
  /\ stack' = IF stack[top].data = Null THEN [stack EXCEPT ![top] = Recorded(@)] ELSE stack
  /\ top' = top - 1
  /\ walk' = "none"
  /\ UNCHANGED <<batch, groupId, versions, batches, spoilt, edits, lookups>>

\* The loop goes on while the next command is of the same group.
Undo ==
  /\ walk \in {"none", "undo"} /\ Followed /\ canUndo
  /\ UndoCommand(stack[top])
  /\ stack' = IF stack[top].data = Null THEN [stack EXCEPT ![top] = Recorded(@)] ELSE stack
  /\ top' = top - 1
  /\ walk' = IF top > 1 /\ stack[top - 1].group = stack[top].group THEN "undo" ELSE "none"
  /\ UNCHANGED <<batch, groupId, versions, batches, spoilt, edits, lookups>>

Redo ==
  /\ walk \in {"none", "redo"} /\ Followed /\ canRedo
  /\ RedoCommand(stack[top + 1])
  /\ top' = top + 1
  /\ walk' = IF top + 2 <= Len(stack) /\ stack[top + 2].group = stack[top + 1].group
               THEN "redo" ELSE "none"
  /\ UNCHANGED <<stack, batch, groupId, versions, batches, spoilt, edits, lookups>>

Lookup ==
  /\ walk = "none" /\ lookups < MaxLookups
  /\ \/ \E l \in 0..lineCount : LookupLine(l)
     \/ \E o \in 0..Len(Text) : LookupOffset(o)
  /\ lookups' = lookups + 1
  /\ UNCHANGED <<undoVars, edits>>

Next ==
  \/ \E s \in Inserts, at \in 0..MaxText, soon \in BOOLEAN : Insert(s, at, soon)
  \/ \E n \in 1..MaxDelete, at \in 0..MaxText, soon \in BOOLEAN : Delete(at, n, soon)
  \/ BeginBatchEdit \/ EndBatchEdit
  \/ Undo \/ Redo
  \/ Lookup

Spec == Init /\ [][Next]_vars

-----------------------------------------------------------------------------
(* Properties *)

Command == [kind : {"insert", "delete"}, start : Nat, length : Nat \ {0},
            data : Seq(Char \cup {NUL}) \cup {Null}, group : Nat]

\* The variables have the values the code can give them.  Only a record that was
\* spoilt can bring a cell of the gap that was never written into the text.
TypeOK ==
  /\ BufferTypeOK
  /\ ~spoilt => Text \in Seq(Char)
  /\ stack \in Seq(Command) /\ top \in 0..Len(stack)
  /\ batch \in BOOLEAN /\ groupId \in Nat /\ walk \in {"none", "undo", "redo"}
  /\ versions \in Seq(Seq(Char)) /\ Len(versions) = Len(stack) + 1
  /\ batches \in Seq(SUBSET Nat) /\ Len(batches) = Len(stack)
  /\ spoilt \in BOOLEAN

\* The text is the one the edits made, also after any number of undone and redone
\* commands (UndoStack.java:67, 95: undo and redo "the previous insert/delete
\* operation").
TextIsVersion == Text = versions[top + 1]

\* So it is until an edit has spoilt the record: the gap buffer, the copies taken
\* late and the moves of the gap that replace an undo never show in the text.
TextIsVersionUnlessSpoilt == ~spoilt => TextIsVersion

\* Only the command at the end of the stack, not yet undone, is without a copy of
\* its text, and the gap is where that copy will be looked for: redo never meets a
\* command without its text, nor undo one whose text the gap has lost.
LazyCopyIsReachable ==
  \A i \in 1..Len(stack) : stack[i].data = Null =>
    /\ i = top /\ i = Len(stack)
    /\ stack[i].kind = "insert" => gapStart = stack[i].start + stack[i].length
    /\ stack[i].kind = "delete" => gapStart = stack[i].start
                                   /\ stack[i].length <= GapSize

\* Edits between beginBatchEdit and endBatchEdit are a unit (UndoStack.java:31-34):
\* between two calls no batch is undone in one part and not in the other.  merge()
\* looks at no group, so there is one cut it does not prevent: behind the older
\* command into which the first edits of the batch went.
BatchesStayWhole ==
  walk = "none" =>
    \A i \in 1..top, k \in top + 1 .. Len(stack) :
      \A g \in batches[i] \cap batches[k] : i = top /\ stack[i].group # g

\* The past and the future of EditHistory are the versions before and after.
History == INSTANCE EditHistory WITH
  Texts <- Seq(Char), text <- Text,
  past <- SubSeq(versions, 1, top), future <- SubSeq(versions, top + 2, Len(versions))

\* Edits, undo and redo, command by command, behave as the editor's history of
\* texts for as long as no edit has spoilt the record.
ImplementsEditHistory == History!Spec
=============================================================================
