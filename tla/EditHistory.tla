---------------------------- MODULE EditHistory ----------------------------
(***************************************************************************)
(* What the undo and redo commands of the editor promise: the texts of the *)
(* past come back, the latest first, and those undone come again until an  *)
(* edit takes another way.  An edit may count as part of the one before it *)
(* (typing a word is one step of the past).  The promise ends with an edit *)
(* that spoils the record; no text is promised after that.                 *)
(***************************************************************************)
EXTENDS Naturals, Sequences

CONSTANT Texts      \* the texts there are

VARIABLES
  text,       \* what the user sees
  past,       \* the texts undo goes back to, the last one first
  future,     \* the texts redo goes forward to, the first one first
  spoilt      \* the record cannot be relied on

Init == text \in Texts /\ past = <<>> /\ future = <<>> /\ spoilt = FALSE

Edit ==
  /\ text' \in Texts
  /\ future' = <<>>
  /\ past' = Append(past, text) \/ (past # <<>> /\ past' = past)
  /\ spoilt' \in BOOLEAN

Undo ==
  /\ past # <<>>
  /\ text' = past[Len(past)]
  /\ past' = SubSeq(past, 1, Len(past) - 1)
  /\ future' = <<text>> \o future
  /\ UNCHANGED spoilt

Redo ==
  /\ future # <<>>
  /\ text' = Head(future)
  /\ future' = Tail(future)
  /\ past' = Append(past, text)
  /\ UNCHANGED spoilt

Next == IF spoilt THEN spoilt' = TRUE ELSE Edit \/ Undo \/ Redo

Spec == Init /\ [][Next]_<<text, past, future, spoilt>>
=============================================================================
