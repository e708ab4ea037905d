----------------------------- MODULE WordCount -----------------------------
(***************************************************************************)
(* The word count of apps/dwarf/wordcount: main.c reads the input files    *)
(* one after the other; do_one_file.c reads each in chunks of thread_cnt   *)
(* blocks, splits the lines into words, sorts the blocks in parallel and   *)
(* merges each chunk into a file of words and counts; wordcount.c merges   *)
(* these files, adding the counts of equal words.                          *)
(*                                                                         *)
(* A line and a word are sequences of characters (OneWord).                *)
(***************************************************************************)
EXTENDS OneWord, FiniteSets, SequencesExt

CONSTANTS
  Files,            \* names of the regular files in the input directory
  Text,             \* Text[f]: the lines of file f, each without its end of line
  NoFinalEOL,       \* files whose last line has no end-of-line character
  thread_cnt,       \* number of blocks sorted in parallel
  file_chunk_size,  \* bytes read before a chunk is counted
  LINE_CNT_MAX,     \* lines read into one block
  OpenMax,          \* file descriptors free when the program begins
  MaxTmpFiles       \* bound: temporary files of a run

Word == Seq(Character)
Threads == 1..thread_cnt

(* A word and the number of times it has been counted. *)
WCKV == [w : Word, n : Nat]

ASSUME SizeAssumption ==
  /\ thread_cnt \in Nat \ {0} /\ OpenMax \in Nat \ {0}
  /\ file_chunk_size \in Nat /\ LINE_CNT_MAX \in Nat /\ MaxTmpFiles \in Nat

(* A file without a final end of line does not end in an empty line. *)
ASSUME TextAssumption ==
  /\ IsFiniteSet(Files) /\ NoFinalEOL \subseteq Files
  /\ Text \in [Files -> Seq(Seq(Character \ {10}))]
  /\ \A f \in NoFinalEOL : Text[f] # << >> /\ Text[f][Len(Text[f])] # << >>

VARIABLES
  phase,     \* what main is doing
  todo,      \* input files readdir has not returned yet
  ifp,       \* the open input file: whether its last line has an end of
             \* line, the unread lines, the end-of-file flag
  msa_arr,   \* the words each thread's array still holds
  pending,   \* threads whose block is to be read, or to be sorted
  tmp,       \* the files of the run in ./wordcount-tmp: a function from
             \* their numbers to entries
  stale,     \* those that an earlier run left there and rm -rf did not remove
  file_cnt,  \* number of the next temporary file
  leaked,    \* descriptors of temporary files that were never closed
  word,      \* ms and cnt, or min_ms and min_cnt: the entry being counted
  fps,       \* entries not yet merged of each temporary file, in order
  output     \* the output file

vars == <<phase, todo, ifp, msa_arr, pending, tmp, stale, file_cnt, leaked,
          word, fps, output>>

Busy == {"pick", "read", "sort", "write", "merge"}
Stopped == {"done", "failed", "no_output"}

NoFile == [eol |-> TRUE, rest |-> << >>, eof |-> TRUE]
NoBlocks == [i \in Threads |-> << >>]
NoWord == [w |-> << >>, n |-> 0]

-----------------------------------------------------------------------------
(* The bytes read for lines s, each with its end of line. *)
Bytes(s) == FoldLeft(LAMBDA n, line : n + Len(line) + 1, 0, s)

one_block_size == file_chunk_size \div thread_cnt

(* single_read_block stops once it has read this. *)
BlockFull(s) == Bytes(s) > one_block_size \/ Len(s) > LINE_CNT_MAX

(* single_read_block reads n lines: it stops at the first count that fills *)
(* the block, or at the end of the file.                                   *)
ReadsBlock(rest, n) ==
  /\ n \in 0..Len(rest)
  /\ BlockFull(SubSeq(rest, 1, n)) \/ n = Len(rest)
  /\ \A k \in 0..(n - 1) : ~BlockFull(SubSeq(rest, 1, k))

(* Reading n lines meets the end of the file: in the attempt to read one   *)
(* more, or in a last line that no end of line terminates.                 *)
HitsEOF(file, n) ==
  \/ file.eof
  \/ ~BlockFull(SubSeq(file.rest, 1, n))
  \/ n = Len(file.rest) /\ n > 0 /\ ~file.eol

(* The words pushed from lines s. *)
WordsOf(s) ==
  FlattenSeq([k \in DOMAIN s |-> lineToMsa(s[k])])

Occ(w, s) == Cardinality({i \in DOMAIN s : s[i] = w})

MutantSortsTo(s, t) == t = s

(* sortMyStringArr: t is s in ascending order. *)
SortsTo(s, t) ==
  /\ \A j, k \in DOMAIN t : j < k => ~Before(t[k], t[j])
  /\ \A w \in ToSet(s) : Occ(w, t) = Occ(w, s)

(* The next words of the streams that have one. *)
HeadWords(seqs) ==
  [i \in {j \in DOMAIN seqs : seqs[j] # << >>} |-> Head(seqs[i])]

HeadEntries(seqs) ==
  [i \in {j \in DOMAIN seqs : seqs[j] # << >>} |-> Head(seqs[i]).w]

(* The merges take the next word of stream i: the least of the next ones,  *)
(* and the first of the streams that offer it.                             *)
IsFirstMin(words, i) ==
  /\ i \in DOMAIN words
  /\ \A j \in DOMAIN words : /\ ~Before(words[j], words[i])
                             /\ j < i => Before(words[i], words[j])

AllEmpty(seqs) == \A i \in DOMAIN seqs : seqs[i] = << >>

Popped(seqs, i) == [seqs EXCEPT ![i] = Tail(@)]

(* sscanf( "%s %d" ) of the line written for entry e: it takes a form feed *)
(* for blank space, so the count is read as the word, no number is left,   *)
(* and the count stays what the stream's last entry had.                   *)
lineToWCKV(e, cnt) ==
  IF e.w \in {<<FormFeed>>, <<VerticalTab>>} THEN [w |-> Numeral(e.n), n |-> cnt]
  ELSE e

(* The entries that read_next_line finds in a temporary file. *)
Scanned(s) ==
  FoldLeft(LAMBDA read, e :
             Append(read, lineToWCKV(e, IF read = << >> THEN 0 ELSE Last(read).n)),
           << >>, s)

-----------------------------------------------------------------------------
(* ./wordcount-tmp is absent or as an earlier run left it. *)
Init ==
  /\ phase = "start"
  /\ todo = {} /\ ifp = NoFile
  /\ msa_arr = NoBlocks /\ pending = {}
  /\ \E old \in SUBSET {0, MaxTmpFiles} :
       tmp = [n \in old |-> <<[w |-> <<97>>, n |-> 1]>>]
  /\ stale = << >>
  /\ file_cnt = 0
  /\ leaked = 0 /\ word = NoWord
  /\ fps = << >> /\ output = << >>

MutantClearedTmp == tmp

(* rm -rf ./wordcount-tmp, then mkdir. *)
ClearedTmp == << >>

(* main up to the loop over the input directory, ./wordcount-tmp apart. *)
Starts ==
  /\ phase = "start"
  /\ phase' = "pick" /\ todo' = Files
  /\ UNCHANGED <<ifp, msa_arr, pending, file_cnt, leaked, word, fps, output>>

Begin == Starts /\ tmp' = ClearedTmp /\ stale' = << >>

(* rm -rf leaves some of the files and mkdir fails: main reports what      *)
(* mkdir says and goes on.                                                 *)
BeginUncleared ==
  /\ Starts
  /\ tmp' = << >>
  /\ \E left \in SUBSET DOMAIN tmp :
       left # {} /\ stale' = [n \in left |-> tmp[n]]

(* do_one_file opens the next input file. *)
OpenFile(f) ==
  /\ phase = "pick" /\ f \in todo /\ leaked < OpenMax
  /\ todo' = todo \ {f}
  /\ ifp' = [eol |-> f \notin NoFinalEOL, rest |-> Text[f], eof |-> FALSE]
  /\ phase' = "read" /\ pending' = Threads
  /\ UNCHANGED <<msa_arr, tmp, stale, file_cnt, leaked, word, fps, output>>

(* single_read_msa_arr reads the threads' blocks one after the other and   *)
(* lineToMsa splits their lines.                                           *)
single_read_block(i) ==
  /\ phase = "read" /\ i \in pending /\ \A j \in pending : i <= j
  /\ \E n \in 0..Len(ifp.rest) :
       /\ ReadsBlock(ifp.rest, n)
       /\ msa_arr' = [msa_arr EXCEPT ![i] = WordsOf(SubSeq(ifp.rest, 1, n))]
       /\ ifp' = [ifp EXCEPT !.rest = SubSeq(@, n + 1, Len(@)),
                             !.eof = HitsEOF(ifp, n)]
  /\ pending' = IF pending = {i} THEN Threads ELSE pending \ {i}
  /\ phase' = IF pending = {i} THEN "sort" ELSE "read"
  /\ UNCHANGED <<todo, tmp, stale, file_cnt, leaked, word, fps, output>>

(* A thread of the parallel loop sorts its block. *)
sort_one_msa(i) ==
  /\ phase = "sort" /\ i \in pending
  /\ \E t \in [DOMAIN msa_arr[i] -> ToSet(msa_arr[i])] :
       /\ SortsTo(msa_arr[i], t)
       /\ msa_arr' = [msa_arr EXCEPT ![i] = t]
  /\ pending' = pending \ {i}
  /\ UNCHANGED <<phase, todo, ifp, tmp, stale, file_cnt, leaked, word, fps,
                 output>>

(* Back in do_one_file: read the next chunk unless the file is at its end. *)
ChunkDone ==
  /\ file_cnt' = file_cnt + 1
  /\ pending' = IF ifp.eof THEN {} ELSE Threads
  /\ phase' = IF ifp.eof THEN "pick" ELSE "read"

(* The files of the run with the next one, empty, and what is left of an   *)
(* earlier run once the new file has replaced the one of its name.         *)
Created == [n \in DOMAIN tmp \cup {file_cnt} |->
              IF n = file_cnt THEN << >> ELSE tmp[n]]

StillStale == [n \in DOMAIN stale \ {file_cnt} |-> stale[n]]

CanCreate ==
  /\ phase = "sort" /\ pending = {}
  /\ file_cnt < MaxTmpFiles /\ leaked + 1 < OpenMax

(* merge_write_msa_arr finds no word in the first array: it returns with   *)
(* the new file open and empty.  Whatever the other arrays hold is cleared *)
(* by the next read.                                                       *)
WriteNothing ==
  /\ CanCreate /\ msa_arr[1] = << >>
  /\ tmp' = Created /\ stale' = StillStale
  /\ leaked' = leaked + 1
  /\ msa_arr' = NoBlocks
  /\ ChunkDone
  /\ UNCHANGED <<todo, ifp, word, fps, output>>

MutantFirstEntry(w) == [w |-> w, n |-> 0]

FirstEntry(w) == [w |-> w, n |-> 1]

(* It begins with the first word of the first array. *)
BeginWrite ==
  /\ CanCreate /\ msa_arr[1] # << >>
  /\ tmp' = Created /\ stale' = StillStale
  /\ word' = FirstEntry(Head(msa_arr[1]))
  /\ msa_arr' = Popped(msa_arr, 1)
  /\ phase' = "write"
  /\ UNCHANGED <<todo, ifp, pending, file_cnt, leaked, fps, output>>

(* The next word is w: count it, or write the entry and begin a new one. *)
CountOrWrite(w) ==
  IF w = word.w
  THEN word' = [word EXCEPT !.n = @ + 1] /\ UNCHANGED tmp
  ELSE /\ tmp' = [tmp EXCEPT ![file_cnt] = Append(@, word)]
       /\ word' = [w |-> w, n |-> 1]

(* One turn of merge_write_msa_arr's loop. *)
WriteWord ==
  /\ phase = "write"
  /\ \E i \in Threads : /\ IsFirstMin(HeadWords(msa_arr), i)
                        /\ CountOrWrite(Head(msa_arr[i]))
                        /\ msa_arr' = Popped(msa_arr, i)
  /\ UNCHANGED <<phase, todo, ifp, pending, stale, file_cnt, leaked, fps, output>>

MutantLastEntry == << >>

(* The entry counted when the words are over is still to be written. *)
LastEntry == <<word>>

CloseTmp ==
  /\ phase = "write" /\ AllEmpty(msa_arr)
  /\ tmp' = [tmp EXCEPT ![file_cnt] = @ \o LastEntry]
  /\ word' = NoWord
  /\ ChunkDone
  /\ UNCHANGED <<todo, ifp, msa_arr, stale, leaked, fps, output>>

(* An input or a temporary file cannot be opened: exit(EXIT_FAILURE). *)
FailToOpen ==
  /\ \/ phase = "pick" /\ todo # {}
     \/ phase = "sort" /\ pending = {}
  /\ phase' = "failed"
  /\ UNCHANGED <<todo, ifp, msa_arr, pending, tmp, stale, file_cnt, leaked,
                 word, fps, output>>

(* All files in ./wordcount-tmp. *)
Directory ==
  [n \in DOMAIN tmp \cup DOMAIN stale |-> IF n \in DOMAIN tmp THEN tmp[n] ELSE stale[n]]

(* merge_sort opens the temporary files in the order of the directory,     *)
(* whose stream holds a descriptor; a file that finds none left is         *)
(* reported on stderr and left out.                                        *)
merge_sort ==
  /\ phase = "pick" /\ todo = {}
  /\ \E order \in SetToSeqs(DOMAIN Directory) :
       fps' = [k \in 1..Max({0, Min({Len(order), OpenMax - leaked - 1})}) |->
                 Scanned(Directory[order[k]])]
  /\ phase' = "merge"
  /\ UNCHANGED <<todo, ifp, msa_arr, pending, tmp, stale, file_cnt, leaked,
                 word, output>>

(* The output file cannot be opened: main still ends with status 0. *)
FailToOpenOutput ==
  /\ phase = "pick" /\ todo = {}
  /\ phase' = "no_output"
  /\ UNCHANGED <<todo, ifp, msa_arr, pending, tmp, stale, file_cnt, leaked,
                 word, fps, output>>

(* merge_do_merge begins an entry with the least of the next words. *)
TakeMin ==
  /\ phase = "merge" /\ word = NoWord
  /\ \E i \in DOMAIN fps : /\ IsFirstMin(HeadEntries(fps), i)
                           /\ word' = Head(fps[i])
                           /\ fps' = Popped(fps, i)
  /\ UNCHANGED <<phase, todo, ifp, msa_arr, pending, tmp, stale, file_cnt,
                 leaked, output>>

MutantEqualHeads ==
  LET equal == {i \in DOMAIN fps : fps[i] # << >> /\ Head(fps[i]).w = word.w}
  IN  IF equal = {} THEN {} ELSE {Min(equal)}

(* The streams whose next entry is for the same word. *)
EqualHeads == {i \in DOMAIN fps : fps[i] # << >> /\ Head(fps[i]).w = word.w}

(* The pass over the streams adds their counts, each at most once, and     *)
(* writes the entry.                                                       *)
AddEqual ==
  /\ phase = "merge" /\ word # NoWord /\ ~AllEmpty(fps)
  /\ output' = Append(output,
       [word EXCEPT !.n = @ + SumFunction([i \in EqualHeads |-> Head(fps[i]).n])])
  /\ fps' = [i \in DOMAIN fps |-> IF i \in EqualHeads THEN Tail(fps[i]) ELSE fps[i]]
  /\ word' = NoWord
  /\ UNCHANGED <<phase, todo, ifp, msa_arr, pending, tmp, stale, file_cnt,
                 leaked>>

(* No stream has an entry left: the last one is written, if there is one. *)
FinishMerge ==
  /\ phase = "merge" /\ AllEmpty(fps)
  /\ output' = IF word = NoWord THEN output ELSE Append(output, word)
  /\ word' = NoWord
  /\ phase' = "done"
  /\ UNCHANGED <<todo, ifp, msa_arr, pending, tmp, stale, file_cnt, leaked,
                 fps>>

do_one_file ==
  \/ \E i \in Threads : single_read_block(i) \/ sort_one_msa(i)
  \/ WriteNothing \/ BeginWrite \/ WriteWord \/ CloseTmp

main ==
  \/ Begin
  \/ \E f \in Files : OpenFile(f)
  \/ do_one_file
  \/ merge_sort \/ TakeMin \/ AddEqual \/ FinishMerge

Next == main \/ BeginUncleared \/ FailToOpen \/ FailToOpenOutput

(* A running program takes its next step; nothing makes an open fail. *)
Spec == Init /\ [][Next]_vars /\ WF_vars(main)

-----------------------------------------------------------------------------
(* The arrays and streams hold words, and a counted entry counts something. *)
TypeOK ==
  /\ phase \in Busy \cup Stopped \cup {"start"}
  /\ todo \subseteq Files
  /\ ifp \in [eol : BOOLEAN, rest : Seq(Seq(Character)), eof : BOOLEAN]
  /\ \A i \in Threads : msa_arr[i] \in Seq(Word)
  /\ pending \subseteq Threads
  /\ \A n \in DOMAIN Directory : n \in Nat /\ Directory[n] \in Seq(WCKV)
  /\ file_cnt \in 0..MaxTmpFiles /\ leaked \in 0..(OpenMax - 1)
  /\ word \in WCKV /\ (phase = "write" => word.n > 0)
  /\ \A k \in DOMAIN fps : fps[k] \in Seq(WCKV)
  /\ output \in Seq(WCKV)

OccAll(w, seqs) == SumFunction([k \in DOMAIN seqs |-> Occ(w, seqs[k])])

Counted(w, s) ==
  SumFunction([k \in DOMAIN s |-> IF s[k].w = w THEN s[k].n ELSE 0])

CountedAll(w, seqs) == SumFunction([k \in DOMAIN seqs |-> Counted(w, seqs[k])])

Words(f) == WordsOf(Text[f])

WordsIn(files) == [f \in files |-> Words(f)]

AllWords == UNION {ToSet(Words(f)) : f \in Files}

(* The occurrences of w in the files, arrays, temporary files, streams and *)
(* output, as words or as counts.                                          *)
InFlight(w) ==
  Occ(w, WordsOf(ifp.rest)) + OccAll(w, WordsIn(todo)) + OccAll(w, msa_arr)
  + Counted(w, <<word>>)
  + IF phase \in {"merge", "done"}
    THEN Counted(w, output) + CountedAll(w, fps)
    ELSE CountedAll(w, tmp)

(* What the merge finds beside the words of the input: the counts in the   *)
(* files of an earlier run that rm -rf did not remove.                     *)
Extra(w) == IF phase \in {"merge", "done"} THEN CountedAll(w, stale) ELSE 0

(* Every occurrence of a word is counted once, at every stage: whatever    *)
(* the chunks, empty chunks, blank lines, missing ends of line and order   *)
(* of the directories, no occurrence is dropped or counted again, and what *)
(* is counted beside them is in a file that rm -rf has left.               *)
EveryWordCounted ==
  phase \in Busy \cup {"done"} =>
    \A w \in AllWords : InFlight(w) = OccAll(w, WordsIn(Files)) + Extra(w)

Ascending(s) == \A j, k \in DOMAIN s : j < k => Before(s[j].w, s[k].w)

(* A temporary file has one entry for a word and its entries ascend: the   *)
(* last merge, which reads each file once from the front, depends on it.   *)
TmpFilesAscend ==
  phase \in Busy => \A n \in DOMAIN tmp : Ascending(tmp[n])

(* No word gets a second line of output, though its count is spread over   *)
(* the temporary files and only the heads of the streams are compared.     *)
OutputAscends ==
  phase = "merge" =>
    /\ Ascending(output)
    /\ output # << >> =>
         \A i \in DOMAIN fps : fps[i] # << >> => Before(Last(output).w, Head(fps[i]).w)

(* Nothing of an earlier run is left in ./wordcount-tmp. *)
Cleared == DOMAIN stale = {}

Finished == phase = "done" /\ Cleared

(* A run that finishes after ./wordcount-tmp was cleared leaves the tally  *)
(* of the input files, in the order of strcmp, with the letters that the   *)
(* comment at is_letter lists.                                             *)
Abstract == INSTANCE Tally WITH
  Letters <- AsciiLetters \cup 128..255,
  finished <- Finished,
  result <- IF Finished THEN output ELSE << >>

ImplementsTally == Abstract!Spec

(* The note main.c prints with its usage says that all input files will be *)
(* considered as one big file: the output of a run that ends well has the  *)
(* number of occurrences of each of its words.                             *)
OneBigFile == Finished => Abstract!IsTally(output)
=============================================================================
