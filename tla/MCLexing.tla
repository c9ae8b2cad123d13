------------------------------ MODULE MCLexing ------------------------------
(* The editor's lexer for TLC. *)
EXTENDS Lexing

\* Two characters more, one fewer, two deleted in the middle of a span, and two taken
\* back by an undo that names the end.
MCEdits == { <<"insert", 1, 2>>, <<"delete", 0, 1>>, <<"delete", 1, 2>>, <<"shift back", 2, 2>> }
=============================================================================
