---------------------------- MODULE MCUndoStack ----------------------------
(* Texts of the newline and one other character. *)
EXTENDS UndoStack, TLC

CONSTANTS x, eol

TwoChars == {x, eol}
Keys == {<<x>>}
Lines == {<<eol, x>>}
OnlyEmpty == {<<>>}
EmptyAndFour == {<<>>, <<x, eol, x, eol>>}
=============================================================================
