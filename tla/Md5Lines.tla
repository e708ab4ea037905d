----------------------------- MODULE Md5Lines ------------------------------
(***************************************************************************)
(* The md5 dwarf, apps/dwarf/md5/src/main.c: for each input file it reads  *)
(* blocks of lines into an array of strings, replaces each string by its   *)
(* digest in parallel and writes the strings of the block.  The array and  *)
(* its strings grow as my_string.c makes them, so that no thread allocates.*)
(*                                                                         *)
(* A line is its length in characters; one of length 0 is blank.           *)
(***************************************************************************)
EXTENDS Integers, Sequences, FiniteSetsExt, SequencesExt

CONSTANTS
  Files,            \* names of the regular files in the input directory
  Text,             \* Text[f]: the lines of file f
  NoFinalEOL,       \* files whose last line has no end-of-line character
  thread_cnt,       \* threads of a parallel region
  FILE_CHUNK_SIZE,  \* bytes read before a block is hashed
  LINE_CNT_MAX,     \* lines read into a block
  MY_LINE_MAX,      \* characters that one fgets takes of a line
  DATA_MD5_SIZE     \* bytes of a digest

Threads == 0..(thread_cnt - 1)

ASSUME SizeAssumption ==
  /\ thread_cnt \in Nat \ {0}
  /\ FILE_CHUNK_SIZE \in Nat /\ LINE_CNT_MAX \in Nat /\ DATA_MD5_SIZE \in Nat
  /\ MY_LINE_MAX \in Nat \ {0}

ASSUME TextAssumption ==
  /\ IsFiniteSet(Files) /\ NoFinalEOL \subseteq Files
  /\ Text \in [Files -> Seq(Nat)]
  /\ \A f \in NoFinalEOL : Text[f] # << >> /\ Text[f][Len(Text[f])] # 0

VARIABLES
  phase,    \* what the program is doing
  todo,     \* input files readdir has not returned yet
  file,     \* the input file, and the output file of that name
  text,     \* the lines that fgets finds in each file
  broken,   \* whether the disk fails behind those of the input file
  rest,     \* its unread lines
  eof,      \* its end-of-file flag
  msa,      \* the array the lines are read into
  pending,  \* indices the parallel loop has not hashed yet
  written,  \* index the loop of each thread in single_write_block is at
  output    \* the output files: digests are written as [line, hashed]

vars == <<phase, todo, file, text, broken, rest, eof, msa, pending, written, output>>

(* A string's text is a line, or the digest of one: the line and how often *)
(* it was hashed.                                                          *)
NewText == [line |-> 0, hashed |-> 0]

TextLength(t) == IF t.hashed = 0 THEN t.line ELSE 2 * DATA_MD5_SIZE

M == INSTANCE MyString WITH EmptyText <- NewText, Length <- TextLength

(* The array after clearing it and pushing the lines of s. *)
Pushed(a, s) ==
  FoldLeft(LAMBDA acc, line : M!pushMyStringArr(acc, [NewText EXCEPT !.line = line]),
           M!clearMyStringArr(a), s)

MutantWithRoom(a) ==
  [a EXCEPT !.arr = [k \in DOMAIN @ |->
     IF k < a.size THEN M!recapacityMyString(@[k], 2 * DATA_MD5_SIZE + 2) ELSE @[k]]]

(* The strings in use get room for a digest. *)
WithRoom(a) ==
  [a EXCEPT !.arr = [k \in DOMAIN @ |->
     IF k <= a.size THEN M!recapacityMyString(@[k], 2 * DATA_MD5_SIZE + 2) ELSE @[k]]]

Bytes(s) == FoldLeft(LAMBDA n, line : n + line + 1, 0, s)

(* single_read_block stops once it has read this. *)
BlockFull(s) == Bytes(s) > FILE_CHUNK_SIZE \/ Len(s) > LINE_CNT_MAX

(* It reads n lines: the first count that fills the block, or all. *)
ReadsBlock(n) ==
  /\ n \in 0..Len(rest)
  /\ BlockFull(SubSeq(rest, 1, n)) \/ n = Len(rest)
  /\ \A k \in 0..(n - 1) : ~BlockFull(SubSeq(rest, 1, k))

(* Reading n lines meets the end of the file.  A read that fails ends the  *)
(* block as the end of the file does, but leaves the flag as it was.       *)
HitsEOF(n) ==
  /\ ~broken
  /\ \/ ~BlockFull(SubSeq(rest, 1, n))
     \/ n = Len(rest) /\ n > 0 /\ file \in NoFinalEOL

(* What fgets has taken of a line when the next fgets fails: it is pushed  *)
(* as if it were the last line of the file.                                *)
Pieces(line) == {k \in 1..line : k % MY_LINE_MAX = 0}

(* What is read of file f if the disk fails somewhere, and from then on:   *)
(* its first lines, and maybe a piece of the next one.  A line is not      *)
(* complete before its end of line has been read, or the end of the file.  *)
Readable(f) ==
  LET s == Text[f]
      complete == IF f \in NoFinalEOL THEN Len(s) - 1 ELSE Len(s)
  IN  {SubSeq(s, 1, n) : n \in 0..complete}
        \cup UNION {{Append(SubSeq(s, 1, n - 1), k) : k \in Pieces(s[n])} : n \in DOMAIN s}

-----------------------------------------------------------------------------
Init ==
  /\ phase = "pick" /\ todo = Files /\ file \in Files
  /\ text = Text /\ broken = FALSE
  /\ rest = << >> /\ eof = TRUE
  /\ msa = M!conMyStringArr
  /\ pending = {} /\ written = [t \in Threads |-> 0]
  /\ output = [f \in Files |-> << >>]

(* do_one_file opens the next file, on a disk that may fail, and creates   *)
(* its output.                                                             *)
OpenFile(f) ==
  /\ phase = "pick" /\ f \in todo
  /\ todo' = todo \ {f} /\ file' = f
  /\ \/ broken' = FALSE /\ text' = text
     \/ broken' = TRUE /\ \E s \in Readable(f) : text' = [text EXCEPT ![f] = s]
  /\ rest' = text'[f] /\ eof' = FALSE
  /\ phase' = "read"
  /\ UNCHANGED <<msa, pending, written, output>>

(* An input or output file cannot be opened: exit(EXIT_FAILURE). *)
FailToOpen ==
  /\ phase = "pick" /\ todo # {}
  /\ phase' = "failed"
  /\ UNCHANGED <<todo, file, text, broken, rest, eof, msa, pending, written, output>>

(* A block is read and its strings are given room for the digests. *)
single_read_block ==
  /\ phase = "read"
  /\ \E n \in 0..Len(rest) :
       /\ ReadsBlock(n)
       /\ msa' = WithRoom(Pushed(msa, SubSeq(rest, 1, n)))
       /\ rest' = SubSeq(rest, n + 1, Len(rest)) /\ eof' = HitsEOF(n)
       /\ pending' = 1..n
  /\ phase' = "hash"
  /\ UNCHANGED <<todo, file, text, broken, written, output>>

(* A thread of the loop replaces string i by its digest. *)
md5_one_line(i) ==
  /\ phase = "hash" /\ i \in pending
  /\ msa' = [msa EXCEPT !.arr[i].text.hashed = @ + 1]
  /\ pending' = pending \ {i}
  /\ UNCHANGED <<phase, todo, file, text, broken, rest, eof, written, output>>

MutantMayWrite == phase = "hash"

(* The threads have joined. *)
MayWrite == phase = "hash" /\ pending = {}

(* They enter the second parallel region. *)
BeginWrite ==
  /\ MayWrite
  /\ phase' = "write" /\ written' = [t \in Threads |-> 0]
  /\ UNCHANGED <<todo, file, text, broken, rest, eof, msa, pending, output>>

(* All threads go through the strings, one of them writes. *)
Prints(t) == t = 0

MoreToWrite(t) == written[t] < msa.size

single_write_block(t) ==
  /\ phase = "write" /\ MoreToWrite(t)
  /\ written' = [written EXCEPT ![t] = @ + 1]
  /\ output' = IF Prints(t)
               THEN [output EXCEPT ![file] = Append(@, msa.arr[written[t] + 1].text)]
               ELSE output
  /\ UNCHANGED <<phase, todo, file, text, broken, rest, eof, msa, pending>>

(* The region ends when all threads are through.  After a failed read the  *)
(* loop goes on for ever: no block that follows has a line.                *)
EndWrite ==
  /\ phase = "write" /\ \A t \in Threads : ~MoreToWrite(t)
  /\ phase' = IF eof THEN "pick" ELSE "read"
  /\ UNCHANGED <<todo, file, text, broken, rest, eof, msa, pending, written, output>>

Finish ==
  /\ phase = "pick" /\ todo = {}
  /\ phase' = "done"
  /\ UNCHANGED <<todo, file, text, broken, rest, eof, msa, pending, written, output>>

do_one_file ==
  \/ single_read_block \/ BeginWrite \/ EndWrite
  \/ \E i \in pending : md5_one_line(i)
  \/ \E t \in Threads : single_write_block(t)

main == (\E f \in Files : OpenFile(f)) \/ do_one_file \/ Finish

Next == main \/ FailToOpen

Spec == Init /\ [][Next]_vars

-----------------------------------------------------------------------------
(* When a thread writes a digest over a line, or printf reads a string,    *)
(* the string has room for the digest and its final zero: the threads      *)
(* neither overrun nor allocate.  One string of the array stays free.      *)
RoomForDigests ==
  /\ msa.size \in 0..(msa.capacity - 1) /\ DOMAIN msa.arr = 1..msa.capacity
  /\ phase \in {"hash", "write"} =>
       \A i \in 1..msa.size : msa.arr[i].capacity > 2 * DATA_MD5_SIZE

(* What an output file holds at any moment are the digests of the first    *)
(* lines read of its input, in the order of the lines, each hashed once,   *)
(* however the threads share the blocks.  A program that ends well has     *)
(* read every file to its end and has the digest of every line: one whose  *)
(* disk has failed does not pass for finished.                             *)
DigestsInOrder ==
  \A f \in Files :
    /\ Len(output[f]) <= Len(text[f])
    /\ \A k \in DOMAIN output[f] : output[f][k] = [line |-> text[f][k], hashed |-> 1]
    /\ phase = "done" => text[f] = Text[f] /\ Len(output[f]) = Len(Text[f])
=============================================================================
