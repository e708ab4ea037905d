----------------------------- MODULE MCExtSort -----------------------------
(* A file of several chunks with equal and blank lines, one whose last     *)
(* line has no end of line, an empty one, and one with a long name.        *)
EXTENDS ExtSort

MCText == [a |-> <<2, 0, 1, 1, 0>>, b |-> <<1, 2>>, c |-> << >>, d |-> <<1>>]

MCFiles == DOMAIN MCText

MCNoFinalEOL == {"b"}
=============================================================================
