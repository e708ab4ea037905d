------------------------------ MODULE ExtSort ------------------------------
(***************************************************************************)
(* The external merge sort of apps/dwarf/sort: main.c reads the input      *)
(* files one after the other; do_one_file.c reads each in chunks of        *)
(* thread_cnt blocks, sorts the blocks in parallel and merges each chunk   *)
(* into a file of ./sort-tmp; sort.c then merges the files of ./sort-tmp   *)
(* into the output.                                                        *)
(*                                                                         *)
(* A line is a natural number n and stands for the text of n equal         *)
(* letters: 0 is the blank line, the order is that of strcmp, and the line *)
(* takes n + 1 bytes with its end of line.                                 *)
(*                                                                         *)
(* Memory does not run out, what is written reaches the disk, and a        *)
(* temporary file that can be opened can be read: read_one_line of sort.c  *)
(* takes a failing read for the end of the stream, without a word.         *)
(***************************************************************************)
EXTENDS Integers, Sequences, FiniteSetsExt, SequencesExt

CONSTANTS
  Files,             \* names of the regular files in the input directory
  Text,              \* Text[f]: the lines of file f
  NoFinalEOL,        \* files whose last line has no end-of-line character
  TooLong,           \* files whose name does not fit in MY_FILENAME_MAX
  thread_cnt,        \* number of blocks sorted in parallel
  FILE_CHUNK_SIZE,   \* bytes read before a chunk is sorted
  LINE_CNT_MAX,      \* lines read into one block
  MY_LINE_MAX,       \* letters that one fgets takes of a line
  MEMORY_SORT_SIZE,  \* bytes of output buffered in the final merge
  OpenMax,           \* file descriptors free when the final merge begins
  MaxTmpFiles,       \* bound: temporary files of a run
  MaxStale,          \* bound: files that rm -rf fails to remove
  MaxRuns            \* bound: times the program is launched

Line == Nat
Threads == 1..thread_cnt

ASSUME SizeAssumption ==
  /\ thread_cnt \in Nat \ {0}
  /\ FILE_CHUNK_SIZE \in Nat /\ LINE_CNT_MAX \in Nat
  /\ MY_LINE_MAX \in Nat \ {0} /\ MEMORY_SORT_SIZE \in Nat \ {0}
  /\ OpenMax \in Nat \ {0} /\ MaxTmpFiles \in Nat
  /\ MaxStale \in Nat /\ MaxRuns \in Nat \ {0}

(* A file without a final end of line ends in a line that is not blank. *)
ASSUME TextAssumption ==
  /\ IsFiniteSet(Files) /\ TooLong \subseteq Files /\ NoFinalEOL \subseteq Files
  /\ Text \in [Files -> Seq(Line)]
  /\ \A f \in NoFinalEOL : Text[f] # << >> /\ Text[f][Len(Text[f])] # 0

VARIABLES
  phase,     \* what main is doing
  runs,      \* launches so far
  todo,      \* input files readdir has not returned yet
  ifp,       \* the open input file: whether its last line has an end of
             \* line, the unread lines, the end-of-file flag, whether the
             \* disk fails to read it, and the piece of the next line that
             \* was taken for a line when it failed
  msa_arr,   \* the lines each thread's array still holds
  pending,   \* threads whose block is to be read, or to be sorted
  tmp,       \* the files of the run in ./sort-tmp: a function from their
             \* numbers to lines
  stale,     \* those that an earlier run left there and rm -rf did not remove
  file_cnt,  \* number of the next temporary file
  fps,       \* lines not yet merged of each temporary file opened, in order
  out_buf,   \* msa_out_buf, the lines merged but not written
  output     \* the output file

vars == <<phase, runs, todo, ifp, msa_arr, pending, tmp, stale, file_cnt, fps,
          out_buf, output>>

Busy == {"pick", "read", "sort", "write", "merge"}
Stopped == {"done", "failed", "no_output", "crashed"}

InputFile == [eol : BOOLEAN, rest : Seq(Line), eof : BOOLEAN, broken : BOOLEAN,
              piece : Seq(Line)]

NoFile == [eol |-> TRUE, rest |-> << >>, eof |-> TRUE, broken |-> FALSE,
           piece |-> << >>]
NoBlocks == [i \in Threads |-> << >>]

-----------------------------------------------------------------------------
Bytes(s) == SumFunction([k \in DOMAIN s |-> s[k] + 1])

one_block_size == FILE_CHUNK_SIZE \div thread_cnt

MutantBlockFull(s) == Bytes(s) > one_block_size

(* single_read_block stops once it has read this. *)
BlockFull(s) == Bytes(s) > one_block_size \/ Len(s) > LINE_CNT_MAX

FirstToFill(rest, n) == \A k \in 0..(n - 1) : ~BlockFull(SubSeq(rest, 1, k))

(* single_read_block reads n lines: it stops at the first count that fills *)
(* the block, or at the end of the file.                                   *)
ReadsBlock(rest, n) ==
  /\ BlockFull(SubSeq(rest, 1, n)) \/ n = Len(rest)
  /\ FirstToFill(rest, n)

MutantHitsEOF(file, n) == n = Len(file.rest) /\ n > 0 /\ ~file.eol

(* Reading n lines meets the end of the file: in the attempt to read one   *)
(* more, or in a last line that no end of line terminates.                 *)
HitsEOF(file, n) ==
  \/ file.eof
  \/ ~BlockFull(SubSeq(file.rest, 1, n))
  \/ n = Len(file.rest) /\ n > 0 /\ ~file.eol

(* The same where a read fails, in the line after these. *)
ReadsUntilError(file, n) ==
  /\ ~file.eof /\ (file.eol \/ n < Len(file.rest))
  /\ ~BlockFull(SubSeq(file.rest, 1, n))
  /\ FirstToFill(file.rest, n)

(* What fgets has taken of a line when the next fgets fails: it is pushed  *)
(* as if it were the last line of the file.                                *)
Pieces(line) == {k \in 1..line : k % MY_LINE_MAX = 0}

(* How the block goes on when the read of the line after the first n fails.*)
CutShort(rest, n) ==
  {<< >>} \cup IF n < Len(rest) THEN {<<k>> : k \in Pieces(rest[n + 1])} ELSE {}

MutantEOFAfterError(file) == TRUE

(* A failed read leaves the end-of-file flag as it was. *)
EOFAfterError(file) == file.eof

Occ(line, s) == Cardinality({i \in DOMAIN s : s[i] = line})

MutantSortsTo(s, t) == t = s

(* mergeSortMyStringArr: t is s in ascending order. *)
SortsTo(s, t) ==
  /\ IsSorted(t, <=)
  /\ \A line \in ToSet(s) : Occ(line, t) = Occ(line, s)

MutantIsFirst(seqs, i) ==
  /\ i \in DOMAIN seqs /\ seqs[i] # << >>
  /\ \A j \in DOMAIN seqs : j < i => seqs[j] = << >>

(* The merges take the next line of stream i: the least of the next lines, *)
(* and the first of the streams that offer it.                             *)
IsFirstMin(seqs, i) ==
  /\ i \in DOMAIN seqs /\ seqs[i] # << >>
  /\ \A j \in DOMAIN seqs :
       seqs[j] # << >> => /\ seqs[i][1] <= seqs[j][1]
                          /\ j < i => seqs[i][1] < seqs[j][1]

AllEmpty(seqs) == \A i \in DOMAIN seqs : seqs[i] = << >>

Popped(seqs, i) == [seqs EXCEPT ![i] = Tail(@)]

-----------------------------------------------------------------------------
(* ./sort-tmp is absent or as an earlier run left it. *)
Init ==
  /\ phase = "start" /\ runs = 1
  /\ todo = {} /\ ifp = NoFile
  /\ msa_arr = NoBlocks /\ pending = {}
  /\ tmp \in {<< >>, [n \in {MaxTmpFiles} |-> <<1>>]} /\ stale = << >>
  /\ file_cnt = 0
  /\ fps = << >> /\ out_buf = << >> /\ output = << >>

(* All files in ./sort-tmp. *)
Directory ==
  [n \in DOMAIN tmp \cup DOMAIN stale |-> IF n \in DOMAIN tmp THEN tmp[n] ELSE stale[n]]

(* main up to the loop over the input directory, ./sort-tmp apart. *)
Starts ==
  /\ phase = "start"
  /\ phase' = "pick"
  /\ todo' = Files
  /\ file_cnt' = 0
  /\ UNCHANGED <<runs, ifp, msa_arr, pending, fps, out_buf, output>>

MutantClearedTmp == tmp

(* rm -rf ./sort-tmp, then mkdir. *)
ClearedTmp == << >>

Begin == Starts /\ tmp' = ClearedTmp /\ stale' = << >>

(* rm -rf leaves some of the files and mkdir fails: main reports what      *)
(* mkdir says and goes on.                                                 *)
BeginUncleared ==
  /\ Starts
  /\ tmp' = << >>
  /\ \E left \in SUBSET DOMAIN Directory :
       /\ Cardinality(left) \in 1..MaxStale
       /\ stale' = [n \in left |-> Directory[n]]

(* readdir returns a name whose path the buffer cannot hold: the truncated *)
(* path does not exist and the file is passed over.                        *)
SkipFile(f) ==
  /\ phase = "pick" /\ f \in todo \cap TooLong
  /\ todo' = todo \ {f}
  /\ UNCHANGED <<phase, runs, ifp, msa_arr, pending, tmp, stale, file_cnt, fps,
                 out_buf, output>>

(* do_one_file opens the next input file. *)
OpenFile(f) ==
  /\ phase = "pick" /\ f \in todo \ TooLong
  /\ todo' = todo \ {f}
  /\ ifp' = [eol |-> f \notin NoFinalEOL, rest |-> Text[f], eof |-> FALSE,
             broken |-> FALSE, piece |-> << >>]
  /\ phase' = "read" /\ pending' = Threads
  /\ UNCHANGED <<runs, msa_arr, tmp, stale, file_cnt, fps, out_buf, output>>

First(n) == SubSeq(ifp.rest, 1, n)
Unread(n) == SubSeq(ifp.rest, n + 1, Len(ifp.rest))

(* Thread i's block has been read.  The blocks are read by one thread, one *)
(* after the other.                                                        *)
ReadBlock(i, block) ==
  /\ phase = "read" /\ i \in pending /\ \A j \in pending : i <= j
  /\ msa_arr' = [msa_arr EXCEPT ![i] = block]
  /\ pending' = IF pending = {i} THEN Threads ELSE pending \ {i}
  /\ phase' = IF pending = {i} THEN "sort" ELSE "read"
  /\ UNCHANGED <<runs, todo, tmp, stale, file_cnt, fps, out_buf, output>>

single_read_block(i) ==
  /\ ~ifp.broken
  /\ \E n \in 0..Len(ifp.rest) :
       /\ ReadsBlock(ifp.rest, n)
       /\ ReadBlock(i, First(n))
       /\ ifp' = [ifp EXCEPT !.rest = Unread(n), !.eof = HitsEOF(ifp, n)]

(* The disk fails while the block is read, and from then on: fgets returns *)
(* NULL, as it does at the end of the file.                                *)
ReadError(i) ==
  /\ ~ifp.broken
  /\ \E n \in 0..Len(ifp.rest) :
       /\ ReadsUntilError(ifp, n)
       /\ \E piece \in CutShort(ifp.rest, n) :
            /\ ReadBlock(i, First(n) \o piece)
            /\ ifp' = [ifp EXCEPT !.rest = Unread(n), !.eof = EOFAfterError(ifp),
                                  !.broken = TRUE, !.piece = piece]

(* No block that is read after that has a line. *)
ReadNothing(i) == ifp.broken /\ ReadBlock(i, << >>) /\ UNCHANGED ifp

(* A thread of the parallel loop sorts its block. *)
sort_one_msa(i) ==
  /\ phase = "sort" /\ i \in pending
  /\ \E t \in [DOMAIN msa_arr[i] -> ToSet(msa_arr[i])] :
       /\ SortsTo(msa_arr[i], t)
       /\ msa_arr' = [msa_arr EXCEPT ![i] = t]
  /\ pending' = pending \ {i}
  /\ UNCHANGED <<phase, runs, todo, ifp, tmp, stale, file_cnt, fps, out_buf, output>>

(* Once the threads have joined, merge_write_msa_arr creates tmp-NNNN, or  *)
(* empties what is there under that name.                                  *)
OpenTmp ==
  /\ phase = "sort" /\ pending = {}
  /\ file_cnt < MaxTmpFiles
  /\ phase' = "write"
  /\ tmp' = [n \in DOMAIN tmp \cup {file_cnt} |->
               IF n = file_cnt THEN << >> ELSE tmp[n]]
  /\ stale' = [n \in DOMAIN stale \ {file_cnt} |-> stale[n]]
  /\ UNCHANGED <<runs, todo, ifp, msa_arr, pending, file_cnt, fps, out_buf,
                 output>>

WriteLine ==
  /\ phase = "write"
  /\ \E i \in Threads :
       /\ IsFirstMin(msa_arr, i)
       /\ tmp' = [tmp EXCEPT ![file_cnt] = Append(@, Head(msa_arr[i]))]
       /\ msa_arr' = Popped(msa_arr, i)
  /\ UNCHANGED <<phase, runs, todo, ifp, pending, stale, file_cnt, fps, out_buf,
                 output>>

NextFileNumber == file_cnt + 1

(* The chunk is written: read the next one unless the file is at its end. *)
CloseTmp ==
  /\ phase = "write" /\ AllEmpty(msa_arr)
  /\ file_cnt' = NextFileNumber
  /\ pending' = IF ifp.eof THEN {} ELSE Threads
  /\ phase' = IF ifp.eof THEN "pick" ELSE "read"
  /\ UNCHANGED <<runs, todo, ifp, msa_arr, tmp, stale, fps, out_buf, output>>

(* An input or a temporary file cannot be opened: exit(EXIT_FAILURE). *)
FailToOpen ==
  /\ \/ phase = "pick" /\ todo \ TooLong # {}
     \/ phase = "sort" /\ pending = {}
  /\ phase' = "failed"
  /\ UNCHANGED <<runs, todo, ifp, msa_arr, pending, tmp, stale, file_cnt, fps,
                 out_buf, output>>

(* merge_sort opens the temporary files in the order of the directory.     *)
(* The directory stream holds one descriptor while it does; a file that    *)
(* finds none left is reported on stderr and left out.                     *)
merge_sort ==
  /\ phase = "pick" /\ todo = {}
  /\ \E order \in SetToSeqs(DOMAIN Directory) :
       fps' = [k \in 1..Min({Len(order), OpenMax - 1}) |-> Directory[order[k]]]
  /\ phase' = "merge"
  /\ out_buf' = << >> /\ output' = << >>
  /\ UNCHANGED <<runs, todo, ifp, msa_arr, pending, tmp, stale, file_cnt>>

(* The output file cannot be opened: main still ends with status 0. *)
FailToOpenOutput ==
  /\ phase = "pick" /\ todo = {}
  /\ phase' = "no_output"
  /\ UNCHANGED <<runs, todo, ifp, msa_arr, pending, tmp, stale, file_cnt, fps,
                 out_buf, output>>

Flushes(s) == Bytes(s) >= MEMORY_SORT_SIZE

(* One turn of merge_do_merge's loop. *)
MergeLine ==
  /\ phase = "merge"
  /\ \E i \in DOMAIN fps :
       LET buf == Append(out_buf, Head(fps[i])) IN
       /\ IsFirstMin(fps, i)
       /\ fps' = Popped(fps, i)
       /\ out_buf' = IF Flushes(buf) THEN << >> ELSE buf
       /\ output' = IF Flushes(buf) THEN output \o buf ELSE output
  /\ UNCHANGED <<phase, runs, todo, ifp, msa_arr, pending, tmp, stale, file_cnt>>

FinishMerge ==
  /\ phase = "merge" /\ AllEmpty(fps)
  /\ output' = output \o out_buf
  /\ out_buf' = << >>
  /\ phase' = "done"
  /\ UNCHANGED <<runs, todo, ifp, msa_arr, pending, tmp, stale, file_cnt, fps>>

(* What the process held is gone. *)
EmptyMemory ==
  /\ ifp' = NoFile /\ msa_arr' = NoBlocks /\ pending' = {}
  /\ todo' = {} /\ file_cnt' = 0 /\ fps' = << >> /\ out_buf' = << >>

(* What may be on the disk of a file that was being written: some of its   *)
(* lines, and a piece of the next one.                                     *)
Beginnings(s) ==
  {SubSeq(s, 1, n) : n \in 0..Len(s)}
    \cup UNION {{Append(SubSeq(s, 1, n - 1), k) : k \in 1..(s[n] - 1)} : n \in DOMAIN s}

(* The program is killed. *)
Crash ==
  /\ phase \in Busy
  /\ phase' = "crashed"
  /\ IF phase = "write"
     THEN \E s \in Beginnings(tmp[file_cnt]) : tmp' = [tmp EXCEPT ![file_cnt] = s]
     ELSE UNCHANGED tmp
  /\ EmptyMemory
  /\ UNCHANGED <<runs, stale, output>>

(* The user runs it again in the same directory: the process begins anew,  *)
(* ./sort-tmp is as the last run left it.                                  *)
Relaunch ==
  /\ phase \in Stopped /\ runs < MaxRuns
  /\ phase' = "start" /\ runs' = runs + 1
  /\ EmptyMemory
  /\ UNCHANGED <<tmp, stale, output>>

do_one_file ==
  \/ \E i \in Threads : single_read_block(i) \/ ReadNothing(i) \/ sort_one_msa(i)
  \/ OpenTmp \/ WriteLine \/ CloseTmp

main ==
  \/ Begin
  \/ \E f \in Files : SkipFile(f) \/ OpenFile(f)
  \/ do_one_file
  \/ merge_sort \/ MergeLine \/ FinishMerge

Next ==
  \/ main
  \/ BeginUncleared \/ \E i \in Threads : ReadError(i)
  \/ FailToOpen \/ FailToOpenOutput \/ Crash \/ Relaunch

(* A running program takes its next step.  Nothing makes it or the disk    *)
(* fail, and nobody has to launch it again.                                *)
Spec == Init /\ [][Next]_vars /\ WF_vars(main)

-----------------------------------------------------------------------------
(* The arrays hold no more than single_read_block puts in them and the     *)
(* output buffer no more than is left after a flush.                       *)
TypeOK ==
  /\ phase \in Busy \cup Stopped \cup {"start"}
  /\ runs \in 1..MaxRuns
  /\ todo \subseteq Files
  /\ ifp \in InputFile
  /\ \A i \in Threads : /\ msa_arr[i] \in Seq(Line)
                        /\ Len(msa_arr[i]) <= LINE_CNT_MAX + 1
  /\ pending \subseteq Threads
  /\ \A n \in DOMAIN Directory : n \in 0..MaxTmpFiles /\ Directory[n] \in Seq(Line)
  /\ file_cnt \in 0..MaxTmpFiles
  /\ \A k \in DOMAIN fps : fps[k] \in Seq(Line)
  /\ out_buf \in Seq(Line) /\ Bytes(out_buf) < MEMORY_SORT_SIZE
  /\ output \in Seq(Line)

(* How often a line occurs in the sequences of a family. *)
OccAll(line, seqs) == SumFunction([k \in DOMAIN seqs |-> Occ(line, seqs[k])])

TextOf(files) == [f \in files |-> Text[f]]

(* Lines read and not yet merged into the output, at any stage. *)
InFlight(line) ==
  Occ(line, ifp.rest) + OccAll(line, TextOf(todo \ TooLong)) + OccAll(line, msa_arr)
  + IF phase \in {"merge", "done"}
    THEN Occ(line, out_buf) + Occ(line, output) + OccAll(line, fps)
    ELSE OccAll(line, tmp)

Lines == UNION {ToSet(Text[f]) : f \in Files}

(* What is there beside the lines of the input: the piece of a line that   *)
(* was taken for a line when the disk failed, which nothing merges, and in *)
(* the merge the files of an earlier run that rm -rf did not remove.       *)
Extra(line) ==
  Occ(line, ifp.piece) + IF phase \in {"merge", "done"} THEN OccAll(line, stale) ELSE 0

(* No line is lost or doubled between the files, the threads' arrays, the  *)
(* temporary files, the merge and the output: whatever the chunks, the     *)
(* order of the directories, the blank lines and the missing last end of   *)
(* line, each readable line is in exactly one of those places, beside what *)
(* a failing read or rm -rf has added.                                     *)
NoLineLost ==
  phase \in Busy \cup {"done"} =>
    \A line \in Lines :
      InFlight(line) = OccAll(line, TextOf(Files \ TooLong)) + Extra(line)

(* s can be continued with the streams' next lines and stay in order. *)
Precedes(s, seqs) ==
  s # << >> => \A i \in DOMAIN seqs : seqs[i] # << >> => Last(s) <= seqs[i][1]

(* A temporary file of this run is sorted at every moment, and no thread's *)
(* array holds a line that should have come before what is written.        *)
TmpFilesSorted ==
  phase \in Busy =>
    /\ \A n \in DOMAIN tmp : IsSorted(tmp[n], <=)
    /\ phase = "write" => Precedes(tmp[file_cnt], msa_arr)

(* Nothing of an earlier run is left in ./sort-tmp. *)
Cleared == DOMAIN stale = {}

(* The same of the output, across its flushes, where ./sort-tmp was        *)
(* cleared: a file that a crash has cut short need not be in order.        *)
OutputSorted ==
  phase = "merge" /\ Cleared =>
    /\ IsSorted(output \o out_buf, <=)
    /\ Precedes(output \o out_buf, fps)

(* The program ends, whatever it reads, unless the disk fails: the loop on *)
(* the end-of-file flag then writes empty temporary files for ever.        *)
Terminates ==
  phase \notin Stopped ~> phase \in Stopped \/ ifp.broken

(* A run that finishes after ./sort-tmp was cleared is the Sorter's: its   *)
(* output is the sorted merge of the readable files, whatever an earlier   *)
(* or a crashed run had left there, and it does not pass for finished      *)
(* where the disk has failed.                                              *)
Finished == phase = "done" /\ Cleared

Abstract == INSTANCE Sorter WITH
  Texts <- TextOf(Files \ TooLong),
  finished <- Finished,
  result <- IF Finished THEN output ELSE << >>

ImplementsSorter == Abstract!Spec

(* The note main.c prints with its usage says that all input files will be *)
(* merged to the output: a run that ends well has every line in it.        *)
AllInputsMerged ==
  phase = "done" => \A line \in Lines : Occ(line, output) >= OccAll(line, Text)
=============================================================================
