------------------------------- MODULE Tally -------------------------------
(***************************************************************************)
(* What the user of the word count is promised: the input files are one    *)
(* big file, and a finished run leaves a file with one entry for each word *)
(* of it, in order, with the number of times the word occurs.              *)
(***************************************************************************)
EXTENDS Integers, Sequences, FiniteSets

CONSTANTS
  Text,         \* the input files: a function to sequences of lines
  Blanks,       \* characters between words
  Letters,      \* characters of which words of any length are made
  Before(_, _)  \* the order of words

VARIABLES
  finished,  \* whether the run has finished
  result     \* the output of a finished run: entries [w |-> word, n |-> count]

(* A word is a run of letters that cannot be extended, or one character    *)
(* that is neither a letter nor a blank.                                   *)
IsWord(line, b, e) ==
  \/ /\ b <= e /\ \A i \in b..e : line[i] \in Letters
     /\ b = 1 \/ line[b - 1] \notin Letters
     /\ e = Len(line) \/ line[e + 1] \notin Letters
  \/ b = e /\ line[b] \notin Letters \cup Blanks

(* The places of the words in a file: line, first and last character. *)
Places(file) ==
  UNION {{<<l, b, e>> : b \in DOMAIN file[l], e \in DOMAIN file[l]} : l \in DOMAIN file}

WordAt(file, p) == SubSeq(file[p[1]], p[2], p[3])

Occurrences ==
  UNION {{<<f, p>> : p \in {q \in Places(Text[f]) : IsWord(Text[f][q[1]], q[2], q[3])}}
         : f \in DOMAIN Text}

CountOf(w) == Cardinality({o \in Occurrences : WordAt(Text[o[1]], o[2]) = w})

IsTally(s) ==
  /\ {s[i] : i \in DOMAIN s}
       = {[w |-> w, n |-> CountOf(w)] :
            w \in {WordAt(Text[o[1]], o[2]) : o \in Occurrences}}
  /\ \A i, j \in DOMAIN s : i < j => Before(s[i].w, s[j].w)

Init == finished = FALSE /\ result = << >>

Finish == ~finished /\ finished' = TRUE /\ IsTally(result')

Spec == Init /\ [][Finish]_<<finished, result>>
=============================================================================
