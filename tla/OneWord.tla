------------------------------ MODULE OneWord ------------------------------
(***************************************************************************)
(* How the word count splits a line: lineToMsa of do_one_file.c calls      *)
(* one_word until it finds no more words.  A character is its byte.        *)
(***************************************************************************)
EXTENDS Integers, Sequences, FiniteSetsExt

CONSTANTS
  CharIsSigned  \* whether the target's plain char is signed

Character == 1..255
FormFeed == 12
VerticalTab == 11
Blanks == {32, 10, 13, 9}
AsciiLetters == (48..57) \cup (97..122) \cup (65..90) \cup {95, 45}

(* A number of one digit as it is printed. *)
Numeral(n) == <<48 + n>>

is_blank(c) == c \in Blanks

(* c < 0 holds for no character where char is unsigned, as on RISC-V. *)
is_letter(c) == c \in AsciiLetters \/ (CharIsSigned /\ c >= 128)

End(line) == Len(line) + 1

word_begin(line, i) ==
  Min({j \in i..End(line) : j = End(line) \/ ~is_blank(line[j])})

(* The first index from b on that is not a letter. *)
Stop(line, b) ==
  Min({j \in b..End(line) : j = End(line) \/ ~is_letter(line[j])})

(* A word is a run of letters, or one character that is no letter. *)
WordEnd(line, b) ==
  IF Stop(line, b) = b /\ b # End(line) THEN b + 1 ELSE Stop(line, b)

(* The words pushed from a line: the search for each begins where the last *)
(* one ended, until one has no length.                                     *)
lineToMsa(line) ==
  LET words[i \in 1..End(line)] ==
        LET b == word_begin(line, i)
            e == WordEnd(line, b)
        IN  IF e = b THEN << >> ELSE <<SubSeq(line, b, e - 1)>> \o words[e]
  IN  words[1]

(* cmpMyString( u, v ) < 0: strncmp compares unsigned characters. *)
Before(u, v) ==
  \E k \in 0..Len(u) :
    /\ k < Len(v) /\ SubSeq(u, 1, k) = SubSeq(v, 1, k)
    /\ k = Len(u) \/ (k < Len(u) /\ u[k + 1] < v[k + 1])
=============================================================================
