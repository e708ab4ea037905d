---------------------------- MODULE MCWordCount ----------------------------
EXTENDS WordCount

Blank == 32
a == 97
b == 98
Dot == 46

(* Files of several chunks with equal words, marks and a blank line; one   *)
(* without a last end of line; an empty one.                               *)
MCText == [f |-> <<<<b, Blank, a>>, << >>, <<a, Dot>>, <<Blank, b, b, Blank, a>>>>,
           g |-> <<<<a, Blank, b>>, <<Dot, a>>>>,
           h |-> << >>]

MCFiles == DOMAIN MCText

MCNoFinalEOL == {"g"}

(* One page of text that ends in a form feed. *)
PagedText == [f |-> <<<<a>>, <<FormFeed>>, <<a>>, <<FormFeed>>>>]

OneFile == {"f"}
None == {}
=============================================================================
