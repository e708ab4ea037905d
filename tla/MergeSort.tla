----------------------------- MODULE MergeSort -----------------------------
(***************************************************************************)
(* The arrays of one thread of the sort, apps/dwarf/sort: its block of     *)
(* lines `msa', filled by single_read_block (do_one_file.c), and the array *)
(* `merge_msa' that mergeSortMyStringArr (my_string.c) sorts it with, back *)
(* and forth between the two.  Both are kept for the next block.  In the   *)
(* sort one step is one call of mergeMsa.                                  *)
(*                                                                         *)
(* Indices start at 1 where the code's start at 0.                         *)
(***************************************************************************)
EXTENDS Integers, Sequences, FiniteSets, SequencesExt

CONSTANTS
  Keys,         \* the lines, as numbers in the order of strcmp
  LineLength,   \* their lengths
  FirstBlocks,  \* the blocks that the thread may have sorted before
  MaxLen        \* bound: lines in a block

ASSUME KeysAssumption ==
  /\ Keys \subseteq Nat \ {0} /\ LineLength \in [Keys -> Nat] /\ MaxLen \in Nat
  /\ FirstBlocks \subseteq Seq(Keys)
  /\ \A b \in FirstBlocks : Len(b) <= MaxLen

(* A line and where it stood in the block before it was sorted. *)
Lines(block) == [i \in DOMAIN block |-> [key |-> block[i], at |-> i]]

NoLine == [key |-> 0, at |-> 0]

TextLength(text) == IF text = NoLine THEN 0 ELSE LineLength[text.key]

Strings == INSTANCE MyString WITH EmptyText <- NoLine, Length <- TextLength

VARIABLES
  blocks,     \* the blocks of the input not read yet
  given,      \* (history) the block as it was read
  ms,         \* the string a line is read into
  msa,        \* the block
  merge_msa,  \* the other array
  into,       \* the array this pass merges into: "merge_msa" or "msa";
              \* "read" before the sort, "done" after it
  length,     \* length of the sorted runs of the array it merges from
  pos         \* elements of that array already merged in this pass

vars == <<blocks, given, ms, msa, merge_msa, into, length, pos>>

n == msa.size

Text(a) == [k \in 1..n |-> a.arr[k].text]

MutantLeftFirst(a, b) == a.key < b.key

(* cmpMyString(a, b) <= 0: of two equal lines the left one goes first. *)
LeftFirst(a, b) == a.key <= b.key

(* mergeMsa: the runs s[t .. m] and s[m+1 .. last] as one. *)
mergeMsa(s, t, m, last) ==
  LET merged[rest \in (t..(m + 1)) \X ((m + 1)..(last + 1))] ==
        LET i == rest[1]
            j == rest[2]
        IN IF i > m THEN SubSeq(s, j, last)
           ELSE IF j > last THEN SubSeq(s, i, m)
           ELSE IF LeftFirst(s[i], s[j]) THEN <<s[i]>> \o merged[<<i + 1, j>>]
           ELSE <<s[j]>> \o merged[<<i, j + 1>>]
  IN merged[<<t, m + 1>>]

Sorting == into \in {"merge_msa", "msa"}

Source == IF into = "merge_msa" THEN msa ELSE merge_msa
Target == IF into = "merge_msa" THEN merge_msa ELSE msa

-----------------------------------------------------------------------------
Init ==
  /\ \E first \in FirstBlocks, second \in SeqOf(Keys, MaxLen) :
       blocks = <<first, second>>
  /\ given = << >>
  /\ ms = Strings!conMyString
  /\ msa = Strings!conMyStringArr /\ merge_msa = Strings!conMyStringArr
  /\ into = "done" /\ length = 1 /\ pos = 0

(* A line is appended to the cleared ms, and ms pushed onto the block. *)
read_one_line_to_msa(r, line) ==
  [ms |-> Strings!appendnMyString(r.ms, line),
   msa |-> Strings!pushMyStringArr(r.msa, line)]

(* Capacities are those the blocks before have left. *)
single_read_block ==
  /\ into = "done" /\ blocks # << >>
  /\ LET lines == Lines(Head(blocks))
         read == FoldLeft(read_one_line_to_msa,
                          [ms |-> ms, msa |-> Strings!clearMyStringArr(msa)], lines)
     IN /\ given' = lines
        /\ ms' = read.ms /\ msa' = read.msa
  /\ blocks' = Tail(blocks) /\ into' = "read"
  /\ UNCHANGED <<merge_msa, length, pos>>

MutantTooSmall(a, size) == a.capacity < size - 1

TooSmall(a, size) == a.capacity < size

StartSort ==
  /\ into = "read"
  /\ merge_msa' = [(IF TooSmall(merge_msa, n)
                    THEN Strings!recapacityMyStringArr(merge_msa, n)
                    ELSE merge_msa) EXCEPT !.size = n]
  /\ length' = 1 /\ pos' = 0
  /\ into' = IF 1 < n THEN "merge_msa" ELSE "done"
  /\ UNCHANGED <<blocks, given, ms, msa>>

(* The texts of `run' are copied to the target after its first pos. *)
Store(run) ==
  LET stored == [Target EXCEPT !.arr =
        [k \in DOMAIN @ |->
           IF k - pos \in DOMAIN run THEN Strings!cpyMyString(@[k], run[k - pos])
           ELSE @[k]]]
  IN IF into = "merge_msa" THEN merge_msa' = stored /\ UNCHANGED msa
                           ELSE msa' = stored /\ UNCHANGED merge_msa

(* Two whole runs remain. *)
MergePair ==
  /\ Sorting /\ pos <= n - 2 * length
  /\ Store(mergeMsa(Text(Source), pos + 1, pos + length, pos + 2 * length))
  /\ pos' = pos + 2 * length
  /\ UNCHANGED <<blocks, given, ms, into, length>>

MutantHasTail == pos + length < n - 1

(* A whole run and a part of one remain, else at most one run. *)
HasTail == pos + length < n

(* The block is sorted after a pass into msa whose runs cover it. *)
PassesDone == into = "msa" /\ 2 * length >= n

(* The end of a pass: the last run is merged or copied. *)
EndPass ==
  /\ Sorting /\ pos > n - 2 * length
  /\ IF HasTail THEN Store(mergeMsa(Text(Source), pos + 1, pos + length, n))
                ELSE Store(SubSeq(Text(Source), pos + 1, n))
  /\ pos' = 0 /\ length' = 2 * length
  /\ into' = IF PassesDone THEN "done"
             ELSE IF into = "merge_msa" THEN "msa" ELSE "merge_msa"
  /\ UNCHANGED <<blocks, given, ms>>

mergeSortMyStringArr == StartSort \/ MergePair \/ EndPass

Next == single_read_block \/ mergeSortMyStringArr

Spec == Init /\ [][Next]_vars

-----------------------------------------------------------------------------
(* a before b in the order of the lines, and of their places if equal. *)
Before(a, b) == a.key < b.key \/ (a.key = b.key /\ a.at < b.at)

(* The runs of `size' elements of s, up to element `end', are in order. *)
RunsInOrder(s, size, end) ==
  \A i, k \in 1..end :
    i < k /\ (i - 1) \div size = (k - 1) \div size => Before(s[i], s[k])

SameLines(s, t, end) ==
  {s[i] : i \in 1..end} = {t[i] : i \in 1..end}

(* Within a pass the source keeps its sorted runs while the target is      *)
(* filled with sorted runs of twice the length, and no line is lost on     *)
(* either side: the two arrays never mix generations, nor this block with  *)
(* the one sorted before.  The run length, which the code doubles in an    *)
(* int, stays below four times the block's.                                *)
PassInvariant ==
  Sorting =>
    /\ pos \in 0..n /\ length \in 1..(2 * n)
    /\ SameLines(Text(Source), given, n) /\ RunsInOrder(Text(Source), length, n)
    /\ SameLines(Text(Target), Text(Source), pos)
    /\ RunsInOrder(Text(Target), 2 * length, pos)

(* The sort ends with the result in msa, whatever the number of passes,    *)
(* in order and with equal lines as they stood.                            *)
Sorted ==
  into = "done" =>
    /\ n = Len(given) /\ SameLines(Text(msa), given, n)
    /\ \A i, k \in 1..n : i < k => Before(msa.arr[i].text, msa.arr[k].text)

HasRoom(string) == TextLength(string.text) < string.capacity

(* Nothing is written past the end of a buffer: the arrays have a string   *)
(* for every line of the block and the strings room for their text and its *)
(* zero, although only msa grows with what is pushed, merge_msa only if it *)
(* is too small for a block, and a string when a longer line is copied     *)
(* over the one it held.                                                   *)
RoomForLines ==
  /\ \A a \in {msa, merge_msa} :
       /\ DOMAIN a.arr = 1..a.capacity /\ a.size <= a.capacity
       /\ \A k \in DOMAIN a.arr : HasRoom(a.arr[k])
  /\ HasRoom(ms)
  /\ Sorting => n <= merge_msa.capacity
=============================================================================
