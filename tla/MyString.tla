------------------------------ MODULE MyString ------------------------------
(***************************************************************************)
(* The strings and string arrays of apps/dwarf, my_string.c, of which the  *)
(* three programs have a copy each, as values: an operator takes the       *)
(* struct a function gets and yields the struct it leaves.  A string keeps *)
(* its text and the size of its buffer; an array keeps capacity            *)
(* constructed strings, of which the first size are in use.                *)
(***************************************************************************)
EXTENDS Integers

CONSTANTS
  EmptyText,  \* the text of no characters
  Length(_)   \* the number of characters of a text

conMyString == [text |-> EmptyText, capacity |-> 4]

(* The target is allocated anew when the text, its zero and one more byte  *)
(* do not fit.                                                             *)
cpyMyString(ms, text) ==
  [text |-> text,
   capacity |-> IF ms.capacity <= Length(text) + 1 THEN Length(text) + 2
                ELSE ms.capacity]

(* Text is appended in pieces: the buffer grows as it would for the whole. *)
appendnMyString(ms, text) == cpyMyString(ms, text)

(* Buffers are made longer, never shorter. *)
recapacityMyString(ms, cap) ==
  [ms EXCEPT !.capacity = IF cap > @ THEN cap ELSE @]

conMyStringArr == [arr |-> [k \in 1..4 |-> conMyString], capacity |-> 4, size |-> 0]

(* An array of cap new strings gets the texts in use. *)
Resized(msa, cap) ==
  [arr |-> [k \in 1..cap |->
              IF k <= msa.size THEN cpyMyString(conMyString, msa.arr[k].text)
              ELSE conMyString],
   capacity |-> cap, size |-> msa.size]

(* A push leaves one string of the array free. *)
expandMyStringArr(msa) ==
  IF msa.size <= msa.capacity - 2 THEN msa ELSE Resized(msa, 2 * msa.capacity)

(* A capacity below four, or that the strings in use do not fit in, is     *)
(* refused.                                                                *)
recapacityMyStringArr(msa, cap) ==
  IF cap < msa.size \/ cap < 4 THEN msa ELSE Resized(msa, cap)

clearMyStringArr(msa) == [msa EXCEPT !.size = 0]

pushMyStringArr(msa, text) ==
  LET e == expandMyStringArr(msa) IN
  [arr |-> [e.arr EXCEPT ![e.size + 1] = cpyMyString(@, text)],
   capacity |-> e.capacity, size |-> e.size + 1]
=============================================================================
