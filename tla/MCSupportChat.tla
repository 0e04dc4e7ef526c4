---------------------------- MODULE MCSupportChat ----------------------------
(* Two files, and three turns: one that gives the page its session, one    *)
(* that may fail or be cut, and one that shows where the next message goes.*)
EXTENDS SupportChat

CONSTANTS f1, f2

MCFiles == {f1, f2}
=============================================================================
