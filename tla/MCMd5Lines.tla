---------------------------- MODULE MCMd5Lines -----------------------------
(* A file of two blocks that makes the array grow, with a blank line; one  *)
(* without a last end of line; an empty one.                               *)
EXTENDS Md5Lines

MCText == [a |-> <<1, 0, 9, 2, 1, 3>>, b |-> <<2, 1>>, c |-> << >>]

MCFiles == DOMAIN MCText

MCNoFinalEOL == {"b"}
=============================================================================
