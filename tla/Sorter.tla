------------------------------- MODULE Sorter -------------------------------
(***************************************************************************)
(* What the user of the external sort is promised: a finished run leaves   *)
(* one file that holds every line of the readable input files, in order.   *)
(***************************************************************************)
EXTENDS Integers, Sequences, FiniteSetsExt, SequencesExt

CONSTANTS
  Texts  \* the input files' contents: a function to sequences of lines

VARIABLES
  finished,  \* whether the last run has finished
  result     \* the output file of a finished run

LinesOf(s) == {s[i] : i \in DOMAIN s}

Occurrences(line, s) == Cardinality({i \in DOMAIN s : s[i] = line})

(* The lines of all the texts, each as often as it occurs, in order. *)
IsMerge(s) ==
  /\ IsSorted(s, <=)
  /\ \A line \in LinesOf(s) \cup UNION {LinesOf(Texts[f]) : f \in DOMAIN Texts} :
       Occurrences(line, s) =
         SumFunction([f \in DOMAIN Texts |-> Occurrences(line, Texts[f])])

Init == finished = FALSE /\ result = << >>

Finish == finished' = TRUE /\ IsMerge(result')

(* A new run is launched, or the output is being written again. *)
Begin == finished' = FALSE /\ result' = << >>

Next == Finish \/ Begin

vars == <<finished, result>>

Spec == Init /\ [][Next]_vars
=============================================================================
