---------------------------- MODULE MCMergeSort ----------------------------
(* Short lines and one that does not fit in a new string; a block of no    *)
(* line, and blocks that leave arrays of four and of eight strings.        *)
EXTENDS MergeSort

MCLineLength == [k \in Keys |-> IF k = 2 THEN 6 ELSE k]
MCFirstBlocks == {<< >>, <<2, 1, 3>>, <<1, 2, 3, 2, 1>>}
=============================================================================
