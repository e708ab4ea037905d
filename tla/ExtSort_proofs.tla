---------------------------- MODULE ExtSort_proofs ----------------------------
(***************************************************************************)
(* The external sort, for every set of input files, every number of        *)
(* threads and every size of a chunk, a block and the output buffer, with  *)
(* any crash or failure on the way: both merges keep the order, no line is *)
(* lost or doubled, and the program implements Sorter.                     *)
(***************************************************************************)
EXTENDS ExtSort, DataFacts

Ascending(s) == s \in Seq(Line) /\ IsSorted(s, <=)

LEMMA AscendingMeans ==
  ASSUME NEW s \in Seq(Line)
  PROVE  Ascending(s) <=> \A i, j \in 1..Len(s) : i < j => s[i] <= s[j]
BY DEF Ascending, IsSorted, Line

LEMMA EmptyAscends == Ascending(<< >>)
BY DEF Ascending, IsSorted, Line

(* The rest of a sorted stream. *)
LEMMA TailAscends ==
  ASSUME NEW s, Ascending(s), s # << >>
  PROVE  /\ Ascending(Tail(s)) /\ Head(s) = s[1] /\ s[1] \in Line
         /\ Tail(s) # << >> => s[1] <= Tail(s)[1]
<1>1. s \in Seq(Line) /\ \A i, j \in 1..Len(s) : i < j => s[i] <= s[j]
  BY AscendingMeans DEF Ascending
<1>2. /\ Tail(s) \in Seq(Line) /\ Len(Tail(s)) = Len(s) - 1 /\ Len(s) \in Nat
      /\ \A i \in 1..Len(Tail(s)) : Tail(s)[i] = s[i + 1]
  BY <1>1, HeadTailProperties, LenProperties
<1>3. Head(s) = s[1] /\ s[1] \in Line /\ Len(s) >= 1
  BY <1>1
<1> DEFINE t == Tail(s)
<1> HIDE DEF t
<1>4. \A i, j \in 1..Len(t) : i < j => t[i] <= t[j]
  <2> SUFFICES ASSUME NEW i \in 1..Len(t), NEW j \in 1..Len(t), i < j
               PROVE  t[i] <= t[j]
    OBVIOUS
  <2>1. i + 1 \in 1..Len(s) /\ j + 1 \in 1..Len(s) /\ i + 1 < j + 1
    BY <1>2 DEF t
  <2> QED
    BY <1>1, <1>2, <2>1 DEF t
<1>5. t # << >> => s[1] <= t[1]
  <2> SUFFICES ASSUME t # << >> PROVE s[1] <= t[1]
    OBVIOUS
  <2>1. Len(t) >= 1
    BY <1>2, EmptySeq DEF t
  <2>2. 1 \in 1..Len(t) /\ 1 + 1 \in 1..Len(s) /\ 1 \in 1..Len(s) /\ 1 < 1 + 1
    BY <1>2, <2>1 DEF t
  <2> QED
    BY <1>1, <1>2, <2>2 DEF t
<1>6. Ascending(t)
  BY <1>2, <1>4, AscendingMeans DEF t
<1> QED
  BY <1>3, <1>5, <1>6 DEF t

LEMMA AppendAscends ==
  ASSUME NEW s, Ascending(s), NEW line \in Line, s # << >> => Last(s) <= line
  PROVE  /\ Ascending(Append(s, line)) /\ Append(s, line) # << >>
         /\ Last(Append(s, line)) = line
<1> DEFINE t == Append(s, line)
<1>1. s \in Seq(Line) /\ \A i, j \in 1..Len(s) : i < j => s[i] <= s[j]
  BY AscendingMeans DEF Ascending
<1>2. /\ t \in Seq(Line) /\ t # << >> /\ Len(t) = Len(s) + 1 /\ Len(s) \in Nat
      /\ \A i \in 1..Len(s) : t[i] = s[i]
      /\ t[Len(s) + 1] = line
  BY <1>1, AppendProperties, LenProperties
<1> HIDE DEF t
<1>3. \A i \in 1..Len(s) : s[i] <= line
  <2> SUFFICES ASSUME NEW i \in 1..Len(s) PROVE s[i] <= line
    OBVIOUS
  <2>1. /\ s # << >> /\ Len(s) \in 1..Len(s) /\ s[i] \in Nat /\ s[Len(s)] \in Nat
        /\ line \in Nat
    BY <1>1, <1>2 DEF Line
  <2>2. s[Len(s)] <= line
    BY <2>1 DEF Last
  <2>3. s[i] <= s[Len(s)]
    BY <1>1, <1>2, <2>1
  <2> QED
    BY <2>1, <2>2, <2>3
<1>4. \A i, j \in 1..Len(t) : i < j => t[i] <= t[j]
  <2> SUFFICES ASSUME NEW i \in 1..Len(t), NEW j \in 1..Len(t), i < j
               PROVE  t[i] <= t[j]
    OBVIOUS
  <2>1. i \in 1..Len(s) /\ (j \in 1..Len(s) \/ j = Len(s) + 1)
    BY <1>2
  <2> QED
    BY <1>1, <1>2, <1>3, <2>1
<1>5. Ascending(t)
  BY <1>2, <1>4, AscendingMeans
<1>6. Last(t) = line
  BY <1>2 DEF Last
<1> QED
  BY <1>2, <1>5, <1>6 DEF t

-----------------------------------------------------------------------------
Streams(seqs) == \A i \in DOMAIN seqs : Ascending(seqs[i])

(* A merge that takes the least of the next lines keeps what it has        *)
(* written in order, and ahead of all that is left.                        *)
LEMMA TakeLeast ==
  ASSUME NEW s, Ascending(s), NEW seqs, Streams(seqs), Precedes(s, seqs),
         NEW i, IsFirstMin(seqs, i)
  PROVE  LET t == Append(s, Head(seqs[i]))
             left == Popped(seqs, i)
         IN  /\ Head(seqs[i]) \in Line
             /\ Ascending(t) /\ Streams(left) /\ Precedes(t, left)
             /\ DOMAIN left = DOMAIN seqs
<1> DEFINE t == Append(s, Head(seqs[i]))
           left == Popped(seqs, i)
           next == seqs[i][1]
<1>1. /\ i \in DOMAIN seqs /\ seqs[i] # << >>
      /\ \A j \in DOMAIN seqs : seqs[j] # << >> => next <= seqs[j][1]
  BY DEF IsFirstMin
<1>2. /\ Ascending(Tail(seqs[i])) /\ Head(seqs[i]) = next /\ next \in Line
      /\ Tail(seqs[i]) # << >> => next <= Tail(seqs[i])[1]
  BY <1>1, TailAscends DEF Streams
<1>3. s # << >> => Last(s) <= next
  BY <1>1 DEF Precedes
<1>4. Ascending(t) /\ t # << >> /\ Last(t) = next
  BY <1>2, <1>3, AppendAscends
<1>5. /\ DOMAIN left = DOMAIN seqs /\ left[i] = Tail(seqs[i])
      /\ \A j \in DOMAIN seqs : j # i => left[j] = seqs[j]
  BY <1>1 DEF Popped
<1> HIDE DEF t, left, next
<1>6. Streams(left)
  BY <1>2, <1>5 DEF Streams
<1>7. Precedes(t, left)
  BY <1>1, <1>2, <1>4, <1>5 DEF Precedes
<1> QED
  BY <1>2, <1>4, <1>5, <1>6, <1>7 DEF t, left

-----------------------------------------------------------------------------
(* The invariant: what the threads have sorted is sorted, and what a merge *)
(* has written precedes what it has still to take.                         *)
Types ==
  /\ todo \subseteq Files
  /\ ifp \in InputFile
  /\ DOMAIN msa_arr = Threads /\ \A i \in Threads : msa_arr[i] \in Seq(Line)
  /\ out_buf \in Seq(Line) /\ output \in Seq(Line)
  /\ file_cnt \in 0..MaxTmpFiles

TmpInv ==
  phase \in Busy =>
    /\ DOMAIN tmp \subseteq 0..MaxTmpFiles
    /\ \A n \in DOMAIN tmp : Ascending(tmp[n])

ChunkInv ==
  /\ phase = "sort" => \A i \in Threads \ pending : Ascending(msa_arr[i])
  /\ phase = "write" =>
       /\ file_cnt \in DOMAIN tmp /\ file_cnt < MaxTmpFiles
       /\ Streams(msa_arr) /\ Precedes(tmp[file_cnt], msa_arr)

MergeInv ==
  phase = "merge" /\ Cleared =>
    Streams(fps) /\ Ascending(output \o out_buf) /\ Precedes(output \o out_buf, fps)

(* What the files and the streams hold, whatever their order. *)
Stored ==
  /\ \A n \in DOMAIN tmp : n \in 0..MaxTmpFiles /\ tmp[n] \in Seq(Line)
  /\ \A n \in DOMAIN stale : n \in 0..MaxTmpFiles /\ stale[n] \in Seq(Line)
  /\ \A k \in DOMAIN fps : fps[k] \in Seq(Line)

Ordered == Types /\ TmpInv /\ ChunkInv /\ MergeInv

IInv == Ordered /\ Stored

-----------------------------------------------------------------------------
LEMMA MemoryEmpty ==
  /\ NoFile \in InputFile
  /\ DOMAIN NoBlocks = Threads
  /\ \A i \in Threads : NoBlocks[i] \in Seq(Line)
BY DEF NoFile, NoBlocks, Line, InputFile

LEMMA InitOrdered == Init => Ordered
<1> SUFFICES ASSUME Init PROVE Ordered
  OBVIOUS
<1>1. Types
  BY MemoryEmpty, SizeAssumption DEF Init, Types, Line
<1> QED
  BY <1>1 DEF Init, IInv, Ordered, TmpInv, ChunkInv, MergeInv, Busy

(* A process that is gone, or is yet to begin, has nothing to keep in order. *)
LEMMA MemoryLost ==
  ASSUME EmptyMemory, output' = output, Types,
         phase' \in {"start", "crashed", "failed", "no_output", "done"}
  PROVE  Ordered'
<1>1. Types'
  BY MemoryEmpty, SizeAssumption DEF EmptyMemory, Types, Line
<1> QED
  BY <1>1 DEF IInv, Ordered, TmpInv, ChunkInv, MergeInv, Busy

LEMMA Stops ==
  ASSUME Types', phase' \in {"failed", "no_output", "done"}
  PROVE  Ordered'
BY DEF IInv, Ordered, TmpInv, ChunkInv, MergeInv, Busy

LEMMA BeginKeeps ==
  ASSUME IInv, Begin \/ BeginUncleared
  PROVE  Ordered'
<1>1. Types'
  BY SizeAssumption DEF IInv, Ordered, Types, Begin, BeginUncleared, Starts
<1>2. tmp' = << >> /\ phase' = "pick"
  BY DEF Begin, BeginUncleared, Starts, ClearedTmp
<1> QED
  BY <1>1, <1>2 DEF IInv, Ordered, TmpInv, ChunkInv, MergeInv

LEMMA PickKeeps ==
  ASSUME IInv, NEW f \in Files, SkipFile(f) \/ OpenFile(f)
  PROVE  Ordered'
<1>1. ifp' \in InputFile
  <2>1. Text[f] \in Seq(Line)
    BY TextAssumption
  <2>2. CASE SkipFile(f)
    BY <2>2 DEF IInv, Ordered, Types, SkipFile
  <2>3. CASE OpenFile(f)
    <3>1. ifp' = [eol |-> f \notin NoFinalEOL, rest |-> Text[f], eof |-> FALSE,
                  broken |-> FALSE, piece |-> << >>]
      BY <2>3 DEF OpenFile
    <3>2. (f \notin NoFinalEOL) \in BOOLEAN /\ << >> \in Seq(Line)
      OBVIOUS
    <3> QED
      BY <2>1, <3>1, <3>2 DEF InputFile
  <2> QED
    BY <2>2, <2>3
<1>2. Types'
  BY <1>1 DEF IInv, Ordered, Types, SkipFile, OpenFile
<1>3. tmp' = tmp /\ phase = "pick" /\ phase' \in {"pick", "read"}
  BY DEF SkipFile, OpenFile
<1> QED
  BY <1>2, <1>3 DEF IInv, Ordered, TmpInv, ChunkInv, MergeInv, Busy

LEMMA ReadBlockKeeps ==
  ASSUME IInv, NEW i \in Threads, NEW block \in Seq(Line), ReadBlock(i, block),
         ifp' \in InputFile
  PROVE  Ordered'
<1>1. /\ DOMAIN msa_arr' = Threads
      /\ \A j \in Threads : msa_arr'[j] \in Seq(Line)
  BY DEF IInv, Ordered, Types, ReadBlock
<1>2. Types'
  BY <1>1 DEF IInv, Ordered, Types, ReadBlock
<1>3. /\ tmp' = tmp /\ phase = "read" /\ phase' \in {"read", "sort"}
      /\ phase' = "sort" => pending' = Threads
  BY DEF ReadBlock
<1> QED
  BY <1>2, <1>3 DEF IInv, Ordered, TmpInv, ChunkInv, MergeInv, Busy

(* What is read of the input, and what is left of it. *)
LEMMA ReadIsText ==
  ASSUME Types, NEW n \in 0..Len(ifp.rest)
  PROVE  First(n) \in Seq(Line) /\ Len(First(n)) = n /\ Unread(n) \in Seq(Line)
<1>1. ifp.rest \in Seq(Line) /\ Len(ifp.rest) \in Nat /\ n \in Nat
  BY DEF Types, InputFile
<1>2. /\ \A k \in (n + 1)..Len(ifp.rest) : k \in 1..Len(ifp.rest)
      /\ \A k \in 1..n : k \in 1..Len(ifp.rest)
  BY <1>1
<1>3. /\ \A k \in (n + 1)..Len(ifp.rest) : ifp.rest[k] \in Line
      /\ \A k \in 1..n : ifp.rest[k] \in Line
  BY <1>1, <1>2, ElementOfSeq
<1>4. n + 1 \in Int /\ Len(ifp.rest) \in Int /\ n \in Int /\ 1 \in Int
  BY <1>1
<1>5. Unread(n) \in Seq(Line)
  BY <1>3, <1>4, SubSeqProperties DEF Unread
<1>6. /\ SubSeq(ifp.rest, 1, n) \in Seq(Line)
      /\ Len(SubSeq(ifp.rest, 1, n)) = IF 1 <= n THEN n - 1 + 1 ELSE 0
  BY <1>3, <1>4, SubSeqProperties
<1> QED
  BY <1>1, <1>5, <1>6 DEF First

(* The piece of a line. *)
LEMMA PieceIsText ==
  ASSUME Types, NEW n \in 0..Len(ifp.rest), NEW piece \in CutShort(ifp.rest, n)
  PROVE  piece \in Seq(Line) /\ Len(piece) \in 0..1 /\ First(n) \o piece \in Seq(Line)
<1>1. piece \in Seq(Line) /\ Len(piece) \in 0..1
  <2>1. CASE piece = << >>
    BY <2>1
  <2>2. CASE piece # << >>
    <3>1. PICK k \in Pieces(ifp.rest[n + 1]) : piece = <<k>>
      BY <2>2 DEF CutShort
    <3>2. k \in Line
      BY DEF Pieces, Line
    <3> QED
      BY <3>1, <3>2
  <2> QED
    BY <2>1, <2>2
<1>2. First(n) \in Seq(Line)
  BY ReadIsText
<1>3. First(n) \o piece \in Seq(Line)
  BY <1>1, <1>2, ConcatProperties
<1> QED
  BY <1>1, <1>3

LEMMA ReadKeeps ==
  ASSUME IInv, NEW i \in Threads,
         single_read_block(i) \/ ReadError(i) \/ ReadNothing(i)
  PROVE  Ordered'
<1>0. Types /\ ifp \in InputFile
  BY DEF IInv, Ordered, Types
<1>1. CASE single_read_block(i)
  <2>1. PICK n \in 0..Len(ifp.rest) :
          /\ ReadBlock(i, First(n))
          /\ ifp' = [ifp EXCEPT !.rest = Unread(n), !.eof = HitsEOF(ifp, n)]
    BY <1>1 DEF single_read_block
  <2>2. HitsEOF(ifp, n) \in BOOLEAN
    BY DEF HitsEOF
  <2>3. First(n) \in Seq(Line) /\ Unread(n) \in Seq(Line)
    BY <1>0, ReadIsText
  <2>4. ifp' \in InputFile
    BY <1>0, <2>1, <2>2, <2>3 DEF InputFile
  <2> QED
    BY <2>1, <2>3, <2>4, ReadBlockKeeps
<1>2. CASE ReadError(i)
  <2>1. PICK n \in 0..Len(ifp.rest) : \E piece \in CutShort(ifp.rest, n) :
          /\ ReadBlock(i, First(n) \o piece)
          /\ ifp' = [ifp EXCEPT !.rest = Unread(n), !.eof = EOFAfterError(ifp),
                                !.broken = TRUE, !.piece = piece]
    BY <1>2 DEF ReadError
  <2>2. PICK piece \in CutShort(ifp.rest, n) :
          /\ ReadBlock(i, First(n) \o piece)
          /\ ifp' = [ifp EXCEPT !.rest = Unread(n), !.eof = EOFAfterError(ifp),
                                !.broken = TRUE, !.piece = piece]
    BY <2>1
  <2>3. /\ Unread(n) \in Seq(Line) /\ piece \in Seq(Line)
        /\ First(n) \o piece \in Seq(Line)
    BY <1>0, ReadIsText, PieceIsText
  <2>4. ifp' \in InputFile
    BY <1>0, <2>2, <2>3 DEF InputFile, EOFAfterError
  <2> QED
    BY <2>2, <2>3, <2>4, ReadBlockKeeps
<1>3. CASE ReadNothing(i)
  <2>1. ReadBlock(i, << >>) /\ ifp' = ifp /\ << >> \in Seq(Line)
    BY <1>3 DEF ReadNothing
  <2> QED
    BY <1>0, <2>1, ReadBlockKeeps
<1> QED
  BY <1>1, <1>2, <1>3

LEMMA SortKeeps ==
  ASSUME IInv, NEW i \in Threads, sort_one_msa(i)
  PROVE  Ordered'
<1>1. PICK t \in [DOMAIN msa_arr[i] -> ToSet(msa_arr[i])] :
        IsSorted(t, <=) /\ msa_arr' = [msa_arr EXCEPT ![i] = t]
  BY DEF sort_one_msa, SortsTo
<1>2. Ascending(t)
  <2>1. msa_arr[i] \in Seq(Line)
    BY DEF IInv, Ordered, Types
  <2>2. DOMAIN msa_arr[i] = 1..Len(msa_arr[i]) /\ Len(msa_arr[i]) \in Nat
    BY <2>1
  <2>3. ToSet(msa_arr[i]) \subseteq Line
    BY <2>1, <2>2 DEF ToSet
  <2>4. t \in [1..Len(msa_arr[i]) -> Line]
    BY <2>2, <2>3
  <2>5. t \in Seq(Line)
    BY <2>2, <2>4
  <2> QED
    BY <1>1, <2>5 DEF Ascending
<1>3. /\ DOMAIN msa_arr' = Threads /\ msa_arr'[i] = t
      /\ \A j \in Threads : j # i => msa_arr'[j] = msa_arr[j]
  BY <1>1 DEF IInv, Ordered, Types
<1>4. Types'
  BY <1>2, <1>3 DEF IInv, Ordered, Types, sort_one_msa, Ascending
<1>5. /\ tmp' = tmp /\ phase = "sort" /\ phase' = "sort"
      /\ pending' = pending \ {i}
  BY DEF sort_one_msa
<1>6. \A j \in Threads \ pending' : Ascending(msa_arr'[j])
  BY <1>2, <1>3, <1>5 DEF IInv, Ordered, ChunkInv
<1> QED
  BY <1>4, <1>5, <1>6 DEF IInv, Ordered, TmpInv, ChunkInv, MergeInv, Busy

LEMMA OpenTmpKeeps ==
  ASSUME IInv, OpenTmp
  PROVE  Ordered'
<1>1. /\ phase = "sort" /\ pending = {} /\ phase' = "write" /\ file_cnt' = file_cnt
      /\ file_cnt < MaxTmpFiles /\ msa_arr' = msa_arr /\ file_cnt \in 0..MaxTmpFiles
      /\ tmp' = [n \in DOMAIN tmp \cup {file_cnt} |->
                   IF n = file_cnt THEN << >> ELSE tmp[n]]
  BY DEF OpenTmp, IInv, Ordered, Types
<1>2. /\ DOMAIN tmp' = DOMAIN tmp \cup {file_cnt} /\ tmp'[file_cnt] = << >>
      /\ \A n \in DOMAIN tmp' : n # file_cnt => tmp'[n] = tmp[n]
  BY <1>1
<1>3. /\ DOMAIN tmp' \subseteq 0..MaxTmpFiles
      /\ \A n \in DOMAIN tmp' : Ascending(tmp'[n])
  BY <1>1, <1>2, EmptyAscends DEF IInv, Ordered, TmpInv, Busy
<1>4. Streams(msa_arr')
  BY <1>1 DEF IInv, Ordered, Types, ChunkInv, Streams
<1>5. Precedes(tmp'[file_cnt'], msa_arr')
  BY <1>1, <1>2 DEF Precedes
<1>6. Types'
  BY DEF IInv, Ordered, Types, OpenTmp
<1> QED
  BY <1>1, <1>2, <1>3, <1>4, <1>5, <1>6 DEF IInv, Ordered, TmpInv, ChunkInv, MergeInv

LEMMA WriteLineKeeps ==
  ASSUME IInv, WriteLine
  PROVE  Ordered'
<1> DEFINE file == tmp[file_cnt]
<1>1. PICK i \in Threads :
        /\ IsFirstMin(msa_arr, i)
        /\ tmp' = [tmp EXCEPT ![file_cnt] = Append(file, Head(msa_arr[i]))]
        /\ msa_arr' = Popped(msa_arr, i)
  BY DEF WriteLine
<1>2. /\ phase = "write" /\ phase' = "write" /\ file_cnt' = file_cnt
      /\ file_cnt \in DOMAIN tmp /\ file_cnt < MaxTmpFiles
      /\ Streams(msa_arr) /\ Precedes(file, msa_arr) /\ Ascending(file)
      /\ DOMAIN tmp \subseteq 0..MaxTmpFiles
      /\ \A n \in DOMAIN tmp : Ascending(tmp[n])
  BY DEF WriteLine, IInv, Ordered, ChunkInv, TmpInv, Busy
<1>3. /\ Ascending(Append(file, Head(msa_arr[i]))) /\ Streams(msa_arr')
      /\ Precedes(Append(file, Head(msa_arr[i])), msa_arr')
      /\ DOMAIN msa_arr' = DOMAIN msa_arr
  BY <1>1, <1>2, TakeLeast
<1>4. /\ DOMAIN tmp' = DOMAIN tmp
      /\ tmp'[file_cnt] = Append(file, Head(msa_arr[i]))
      /\ \A n \in DOMAIN tmp : n # file_cnt => tmp'[n] = tmp[n]
  BY <1>1, <1>2
<1>5. Types'
  BY <1>3 DEF IInv, Ordered, Types, WriteLine, Streams, Ascending
<1>6. \A n \in DOMAIN tmp' : Ascending(tmp'[n])
  BY <1>2, <1>3, <1>4
<1> QED
  BY <1>2, <1>3, <1>4, <1>5, <1>6 DEF IInv, Ordered, TmpInv, ChunkInv, MergeInv

LEMMA CloseTmpKeeps ==
  ASSUME IInv, CloseTmp
  PROVE  Ordered'
<1>1. /\ phase = "write" /\ phase' \in {"pick", "read"} /\ tmp' = tmp
      /\ file_cnt' = file_cnt + 1 /\ file_cnt \in 0..MaxTmpFiles
      /\ file_cnt < MaxTmpFiles
  BY DEF CloseTmp, NextFileNumber, IInv, Ordered, Types, ChunkInv
<1>2. file_cnt' \in 0..MaxTmpFiles
  BY <1>1, SizeAssumption
<1>3. Types'
  BY <1>2 DEF IInv, Ordered, Types, CloseTmp
<1> QED
  BY <1>1, <1>3 DEF IInv, Ordered, TmpInv, ChunkInv, MergeInv, Busy

-----------------------------------------------------------------------------
LEMMA LeastOfTwo == \A a, b \in Int : Min({a, b}) \in Int /\ Min({a, b}) <= a
<1> SUFFICES ASSUME NEW a \in Int, NEW b \in Int
             PROVE  Min({a, b}) \in Int /\ Min({a, b}) <= a
  OBVIOUS
<1>1. \E x \in {a, b} : \A y \in {a, b} : x <= y
  OBVIOUS
<1> QED
  BY <1>1 DEF Min

LEMMA MergeSortKeeps ==
  ASSUME IInv, merge_sort
  PROVE  Ordered'
<1>1. /\ phase = "pick" /\ phase' = "merge" /\ tmp' = tmp
      /\ out_buf' = << >> /\ output' = << >>
      /\ stale' = stale /\ DOMAIN Directory \subseteq 0..MaxTmpFiles
      /\ Cleared => \A n \in DOMAIN Directory : Ascending(Directory[n])
  BY DEF merge_sort, IInv, Ordered, TmpInv, Busy, Stored, Directory, Cleared
<1>2. PICK order \in SetToSeqs(DOMAIN Directory) :
        fps' = [k \in 1..Min({Len(order), OpenMax - 1}) |-> Directory[order[k]]]
  BY DEF merge_sort
<1> DEFINE n == Cardinality(DOMAIN Directory)
           m == Min({Len(order), OpenMax - 1})
<1>3. n \in Nat
  <2>1. IsFiniteSet(0..MaxTmpFiles)
    BY SizeAssumption, FS_Interval
  <2> QED
    BY <1>1, <2>1, FS_Subset, FS_CardinalityType
<1>4. order \in [1..n -> DOMAIN Directory]
  BY DEF SetToSeqs
<1> HIDE DEF n
<1>5. Len(order) = n
  BY <1>3, <1>4
<1>6. m <= n /\ m \in Int
  <2>1. n \in Int /\ OpenMax - 1 \in Int
    BY <1>3, SizeAssumption
  <2> QED
    BY <1>5, <2>1, LeastOfTwo
<1> HIDE DEF m
<1>7. DOMAIN fps' = 1..m /\ \A k \in 1..m : fps'[k] = Directory[order[k]]
  BY <1>2 DEF m
<1>8. \A k \in 1..m : order[k] \in DOMAIN Directory
  BY <1>3, <1>4, <1>6
<1>9. Cleared => Streams(fps')
  BY <1>1, <1>7, <1>8 DEF Streams
<1>10. output' \o out_buf' = << >>
  <2>1. << >> \in Seq(Line) /\ << >> \o << >> = << >>
    OBVIOUS
  <2> QED
    BY <1>1, <2>1
<1>11. Ascending(output' \o out_buf') /\ Precedes(output' \o out_buf', fps')
  BY <1>10, EmptyAscends DEF Precedes
<1>12. Types'
  BY <1>1 DEF IInv, Ordered, Types, merge_sort
<1>13. Cleared' = Cleared
  BY <1>1 DEF Cleared
<1> QED
  BY <1>1, <1>9, <1>11, <1>12, <1>13 DEF IInv, Ordered, TmpInv, ChunkInv, MergeInv, Busy

LEMMA MergeLineKeeps ==
  ASSUME IInv, MergeLine
  PROVE  Ordered'
<1> DEFINE written == output \o out_buf
<1>1. PICK i \in DOMAIN fps :
        LET buf == Append(out_buf, Head(fps[i])) IN
        /\ IsFirstMin(fps, i) /\ fps' = Popped(fps, i)
        /\ out_buf' = IF Flushes(buf) THEN << >> ELSE buf
        /\ output' = IF Flushes(buf) THEN output \o buf ELSE output
  BY DEF MergeLine
<1> DEFINE line == Head(fps[i])
           buf == Append(out_buf, line)
<1>2. /\ phase = "merge" /\ phase' = "merge" /\ tmp' = tmp /\ stale' = stale
      /\ Cleared => Streams(fps) /\ Ascending(written) /\ Precedes(written, fps)
      /\ output \in Seq(Line) /\ out_buf \in Seq(Line)
  BY DEF MergeLine, IInv, Ordered, MergeInv, Types
<1>0. line \in Line
  <2>1. fps[i] \in Seq(Line) /\ fps[i] # << >>
    BY <1>1 DEF IInv, Stored, IsFirstMin
  <2> QED
    BY <2>1
<1>3. Cleared => /\ Ascending(Append(written, line)) /\ Streams(fps')
                 /\ Precedes(Append(written, line), fps')
  BY <1>1, <1>2, TakeLeast
<1>4. Append(written, line) = output \o buf
  <2> HIDE DEF line
  <2>1. <<line>> \in Seq(Line) /\ buf = out_buf \o <<line>>
    BY <1>2, <1>0, AppendIsConcat
  <2>2. Append(written, line) = written \o <<line>>
    <3> HIDE DEF written
    <3>1. written \in Seq(Line)
      BY <1>2, ConcatProperties DEF written
    <3> QED
      BY <1>0, <3>1, AppendIsConcat
  <2> QED
    BY <1>2, <2>1, <2>2, ConcatAssociative
<1> HIDE DEF written
<1>5. /\ output' \o out_buf' = output \o buf
      /\ output' \in Seq(Line) /\ out_buf' \in Seq(Line)
  <2>1. buf \in Seq(Line) /\ output \o buf \in Seq(Line)
    BY <1>2, <1>0
  <2> HIDE DEF buf
  <2>2. (output \o buf) \o << >> = output \o buf
    BY <2>1, ConcatEmptySeq
  <2>3. CASE Flushes(buf)
    <3>1. out_buf' = << >> /\ output' = output \o buf
      BY <1>1, <2>3 DEF buf
    <3> QED
      BY <2>1, <2>2, <3>1
  <2>4. CASE ~Flushes(buf)
    <3>1. out_buf' = buf /\ output' = output
      BY <1>1, <2>4 DEF buf
    <3> QED
      BY <1>2, <2>1, <3>1
  <2> QED
    BY <2>3, <2>4
<1> HIDE DEF buf, line
<1>6. Cleared => Ascending(output' \o out_buf') /\ Precedes(output' \o out_buf', fps')
  BY <1>3, <1>4, <1>5
<1>7. Types'
  BY <1>5 DEF IInv, Ordered, Types, MergeLine
<1>8. Cleared' = Cleared
  BY <1>2 DEF Cleared
<1> QED
  BY <1>2, <1>3, <1>6, <1>7, <1>8 DEF IInv, Ordered, TmpInv, ChunkInv, MergeInv, Busy

LEMMA FinishMergeKeeps ==
  ASSUME IInv, FinishMerge
  PROVE  Ordered'
<1>1. output' \in Seq(Line) /\ out_buf' \in Seq(Line)
  BY DEF IInv, Ordered, Types, FinishMerge
<1>2. Types' /\ phase' = "done"
  BY <1>1 DEF IInv, Ordered, Types, FinishMerge
<1> QED
  BY <1>2, Stops

LEMMA FailureKeeps ==
  ASSUME IInv, FailToOpen \/ FailToOpenOutput
  PROVE  Ordered'
<1>1. Types' /\ phase' \in {"failed", "no_output"}
  BY DEF IInv, Ordered, Types, FailToOpen, FailToOpenOutput
<1> QED
  BY <1>1, Stops

LEMMA RestartKeeps ==
  ASSUME IInv, Crash \/ Relaunch
  PROVE  Ordered'
<1>1. EmptyMemory /\ output' = output /\ phase' \in {"crashed", "start"}
  BY DEF Crash, Relaunch
<1> QED
  BY <1>1, MemoryLost DEF IInv, Ordered

LEMMA StutterKeeps ==
  ASSUME IInv, UNCHANGED vars
  PROVE  IInv'
BY DEF IInv, Ordered, Stored, Types, TmpInv, ChunkInv, MergeInv, Cleared, vars

-----------------------------------------------------------------------------
(* Files and streams hold lines, the pieces that a crash leaves of one too.*)
LEMMA InitStored == Init => Stored
<1> SUFFICES ASSUME Init PROVE Stored
  OBVIOUS
<1>1. fps = << >> /\ stale = << >> /\ (tmp = << >> \/ tmp = [n \in {MaxTmpFiles} |-> <<1>>])
  BY DEF Init
<1>2. DOMAIN << >> = {} /\ <<1>> \in Seq(Line) /\ MaxTmpFiles \in 0..MaxTmpFiles
  BY SizeAssumption DEF Line
<1>3. CASE tmp = << >>
  BY <1>1, <1>2, <1>3 DEF Stored
<1>4. CASE tmp = [n \in {MaxTmpFiles} |-> <<1>>]
  <2>1. DOMAIN tmp = {MaxTmpFiles} /\ tmp[MaxTmpFiles] = <<1>>
    BY <1>4
  <2> QED
    BY <1>1, <1>2, <2>1 DEF Stored
<1> QED
  BY <1>1, <1>3, <1>4

LEMMA DirectoryStored ==
  ASSUME Stored
  PROVE  \A n \in DOMAIN Directory : n \in 0..MaxTmpFiles /\ Directory[n] \in Seq(Line)
BY DEF Stored, Directory

LEMMA BeginningIsText ==
  ASSUME NEW s \in Seq(Line), NEW t \in Beginnings(s)
  PROVE  t \in Seq(Line)
<1>1. ASSUME NEW n \in 0..Len(s) PROVE SubSeq(s, 1, n) \in Seq(Line)
  <2>1. /\ Len(s) \in Nat /\ 1 \in Int /\ n \in Int
        /\ \A k \in 1..n : k \in 1..Len(s)
    OBVIOUS
  <2>2. \A k \in 1..n : s[k] \in Line
    BY <2>1, ElementOfSeq
  <2> QED
    BY <2>1, <2>2, SubSeqProperties
<1>2. CASE t \in {SubSeq(s, 1, n) : n \in 0..Len(s)}
  BY <1>1, <1>2
<1>3. CASE t \in UNION {{Append(SubSeq(s, 1, n - 1), k) : k \in 1..(s[n] - 1)} : n \in DOMAIN s}
  <2>1. PICK n \in DOMAIN s : t \in {Append(SubSeq(s, 1, n - 1), k) : k \in 1..(s[n] - 1)}
    BY <1>3
  <2>2. PICK k \in 1..(s[n] - 1) : t = Append(SubSeq(s, 1, n - 1), k)
    BY <2>1
  <2>3. k \in Line
    BY DEF Line
  <2>4. n - 1 \in 0..Len(s)
    OBVIOUS
  <2>5. SubSeq(s, 1, n - 1) \in Seq(Line)
    BY <1>1, <2>4
  <2> QED
    BY <2>2, <2>3, <2>5, AppendProperties
<1> QED
  BY <1>2, <1>3 DEF Beginnings

LEMMA MergeSortStores ==
  ASSUME IInv, merge_sort
  PROVE  Stored'
<1>1. PICK order \in SetToSeqs(DOMAIN Directory) :
        fps' = [k \in 1..Min({Len(order), OpenMax - 1}) |-> Directory[order[k]]]
  BY DEF merge_sort
<1> DEFINE n == Cardinality(DOMAIN Directory)
           m == Min({Len(order), OpenMax - 1})
<1>2. DOMAIN Directory \subseteq 0..MaxTmpFiles
  BY DirectoryStored DEF IInv
<1>3. n \in Nat
  <2>1. IsFiniteSet(0..MaxTmpFiles)
    BY SizeAssumption, FS_Interval
  <2> QED
    BY <1>2, <2>1, FS_Subset, FS_CardinalityType
<1>4. order \in [1..n -> DOMAIN Directory]
  BY DEF SetToSeqs
<1> HIDE DEF n
<1>5. Len(order) = n
  BY <1>3, <1>4
<1>6. m <= n /\ m \in Int
  BY <1>3, <1>5, SizeAssumption, LeastOfTwo
<1> HIDE DEF m
<1>7. DOMAIN fps' = 1..m /\ \A k \in 1..m : fps'[k] = Directory[order[k]]
  BY <1>1 DEF m
<1>8. \A k \in 1..m : order[k] \in DOMAIN Directory
  BY <1>3, <1>4, <1>6
<1>9. \A k \in DOMAIN fps' : fps'[k] \in Seq(Line)
  BY <1>7, <1>8, DirectoryStored DEF IInv
<1> QED
  BY <1>9 DEF merge_sort, IInv, Stored

LEMMA StoredKept ==
  ASSUME IInv, Next
  PROVE  Stored'
<1>1. CASE Begin
  <2>1. tmp' = << >> /\ stale' = << >> /\ fps' = fps /\ DOMAIN << >> = {}
    BY <1>1 DEF Begin, Starts, ClearedTmp
  <2> QED
    BY <2>1 DEF IInv, Stored
<1>2. CASE BeginUncleared
  <2>1. tmp' = << >> /\ fps' = fps /\ DOMAIN << >> = {}
    BY <1>2 DEF BeginUncleared, Starts
  <2>2. PICK left \in SUBSET DOMAIN Directory : stale' = [n \in left |-> Directory[n]]
    BY <1>2 DEF BeginUncleared
  <2>3. \A n \in DOMAIN stale' : n \in 0..MaxTmpFiles /\ stale'[n] \in Seq(Line)
    BY <2>2, DirectoryStored DEF IInv
  <2> QED
    BY <2>1, <2>3 DEF IInv, Stored
<1>3. CASE OpenTmp
  <2>1. /\ tmp' = [n \in DOMAIN tmp \cup {file_cnt} |->
                     IF n = file_cnt THEN << >> ELSE tmp[n]]
        /\ stale' = [n \in DOMAIN stale \ {file_cnt} |-> stale[n]]
        /\ fps' = fps /\ file_cnt \in 0..MaxTmpFiles /\ << >> \in Seq(Line)
    BY <1>3 DEF OpenTmp, IInv, Ordered, Types
  <2> QED
    BY <2>1 DEF IInv, Stored
<1>4. CASE WriteLine
  <2>1. PICK i \in Threads :
          /\ msa_arr[i] # << >>
          /\ tmp' = [tmp EXCEPT ![file_cnt] = Append(tmp[file_cnt], Head(msa_arr[i]))]
    BY <1>4 DEF WriteLine, IsFirstMin
  <2>2. msa_arr[i] \in Seq(Line) /\ file_cnt \in DOMAIN tmp /\ stale' = stale /\ fps' = fps
    BY <1>4 DEF WriteLine, IInv, Ordered, Types, ChunkInv
  <2>3. tmp[file_cnt] \in Seq(Line) /\ Head(msa_arr[i]) \in Line
    BY <2>1, <2>2 DEF IInv, Stored
  <2>4. Append(tmp[file_cnt], Head(msa_arr[i])) \in Seq(Line)
    BY <2>3, AppendProperties
  <2> QED
    BY <2>1, <2>2, <2>4 DEF IInv, Stored
<1>5. CASE merge_sort
  BY <1>5, MergeSortStores
<1>6. CASE MergeLine
  <2>1. PICK i \in DOMAIN fps : fps[i] # << >> /\ fps' = [fps EXCEPT ![i] = Tail(fps[i])]
    BY <1>6 DEF MergeLine, IsFirstMin, Popped
  <2>2. Tail(fps[i]) \in Seq(Line)
    BY <2>1 DEF IInv, Stored
  <2>3. tmp' = tmp /\ stale' = stale
    BY <1>6 DEF MergeLine
  <2> QED
    BY <2>1, <2>2, <2>3 DEF IInv, Stored
<1>7. CASE Crash
  <2>1. fps' = << >> /\ DOMAIN << >> = {} /\ stale' = stale
    BY <1>7 DEF Crash, EmptyMemory
  <2>2. CASE phase = "write"
    <3>1. PICK s \in Beginnings(tmp[file_cnt]) : tmp' = [tmp EXCEPT ![file_cnt] = s]
      BY <1>7, <2>2 DEF Crash
    <3>2. file_cnt \in DOMAIN tmp /\ tmp[file_cnt] \in Seq(Line)
      BY <2>2 DEF IInv, Ordered, ChunkInv, Stored
    <3>3. s \in Seq(Line)
      BY <3>2, BeginningIsText
    <3> QED
      BY <2>1, <3>1, <3>3 DEF IInv, Stored
  <2>3. CASE phase # "write"
    <3>1. tmp' = tmp
      BY <1>7, <2>3 DEF Crash
    <3> QED
      BY <2>1, <3>1 DEF IInv, Stored
  <2> QED
    BY <2>2, <2>3
<1>8. CASE Relaunch
  <2>1. fps' = << >> /\ DOMAIN << >> = {} /\ stale' = stale /\ tmp' = tmp
    BY <1>8 DEF Relaunch, EmptyMemory
  <2> QED
    BY <2>1 DEF IInv, Stored
<1>9. CASE UNCHANGED <<tmp, stale, fps>>
  BY <1>9 DEF IInv, Stored
<1> QED
  BY <1>1, <1>2, <1>3, <1>4, <1>5, <1>6, <1>7, <1>8, <1>9
     DEF Next, main, do_one_file, SkipFile, OpenFile, single_read_block, ReadNothing,
         ReadBlock, ReadError, sort_one_msa, CloseTmp, FinishMerge, FailToOpen,
         FailToOpenOutput

LEMMA InitEstablishes == Init => IInv
BY InitOrdered, InitStored DEF IInv

(* The inductive invariant holds of every reachable state.                 *)
THEOREM InductiveInvariant == Spec => []IInv
<1>1. IInv /\ [Next]_vars => IInv'
  <2> SUFFICES ASSUME IInv, [Next]_vars PROVE IInv'
    OBVIOUS
  <2>1. CASE Next
    <3>1. Ordered'
      <4>1. CASE Begin \/ BeginUncleared
        BY <4>1, BeginKeeps
      <4>2. CASE \E f \in Files : SkipFile(f) \/ OpenFile(f)
        BY <4>2, PickKeeps
      <4>3. CASE do_one_file
        BY <4>3, ReadKeeps, SortKeeps, OpenTmpKeeps, WriteLineKeeps, CloseTmpKeeps
           DEF do_one_file
      <4>4. CASE merge_sort \/ MergeLine \/ FinishMerge
        BY <4>4, MergeSortKeeps, MergeLineKeeps, FinishMergeKeeps
      <4>5. CASE \E i \in Threads : ReadError(i)
        BY <4>5, ReadKeeps
      <4>6. CASE FailToOpen \/ FailToOpenOutput \/ Crash \/ Relaunch
        BY <4>6, FailureKeeps, RestartKeeps
      <4> QED
        BY <2>1, <4>1, <4>2, <4>3, <4>4, <4>5, <4>6 DEF Next, main
    <3> QED
      BY <2>1, <3>1, StoredKept DEF IInv
  <2>2. CASE UNCHANGED vars
    BY <2>2, StutterKeeps
  <2> QED
    BY <2>1, <2>2
<1> QED
  BY <1>1, InitEstablishes, PTL DEF Spec

(* A temporary file is in order at every moment, and ahead of all that the *)
(* threads' arrays still hold, however the chunk was split between them.   *)
THEOREM TmpFilesStaySorted == Spec => []TmpFilesSorted
<1>1. IInv => TmpFilesSorted
  BY DEF IInv, Ordered, TmpInv, ChunkInv, TmpFilesSorted, Ascending
<1> QED
  BY <1>1, InductiveInvariant, PTL

(* What the last merge has written, flushed or not, is in order as well,   *)
(* however many temporary files there were and in whatever order the       *)
(* directory had them.                                                     *)
THEOREM OutputStaysSorted == Spec => []OutputSorted
<1>1. IInv => OutputSorted
  BY DEF IInv, Ordered, MergeInv, OutputSorted, Ascending
<1> QED
  BY <1>1, InductiveInvariant, PTL

-----------------------------------------------------------------------------
(* How often a line occurs in a sequence is a number, *)
LEMMA OccType ==
  ASSUME NEW line, NEW s \in Seq(Line)
  PROVE  Occ(line, s) \in Nat /\ IsFiniteSet({i \in DOMAIN s : s[i] = line})
BY WhereIsFinite DEF Occ, Where

(* none in the empty one, *)
LEMMA OccEmpty ==
  ASSUME NEW line
  PROVE  Occ(line, << >>) = 0
BY WhereSmall DEF Occ, Where

(* and adds up over two, one after the other. *)
LEMMA OccConcat ==
  ASSUME NEW line, NEW s \in Seq(Line), NEW t \in Seq(Line)
  PROVE  Occ(line, s \o t) = Occ(line, s) + Occ(line, t)
<1>1. Cardinality(Where(line, s \o t))
        = Cardinality(Where(line, s)) + Cardinality(Where(line, t))
  BY WhereConcat
<1>2. \A u : Occ(line, u) = Cardinality(Where(line, u))
  BY DEF Occ, Where
<1> QED
  BY <1>1, <1>2

(* A line written at the end, or taken from the front. *)
LEMMA OccMoved ==
  ASSUME NEW line
  PROVE  /\ \A s \in Seq(Line), x \in Line :
              Occ(line, Append(s, x)) = Occ(line, s) + Occ(line, <<x>>)
         /\ \A s \in Seq(Line) : s # << >> =>
              Occ(line, s) = Occ(line, <<Head(s)>>) + Occ(line, Tail(s))
<1>1. ASSUME NEW s \in Seq(Line), NEW x \in Line
      PROVE  Occ(line, Append(s, x)) = Occ(line, s) + Occ(line, <<x>>)
  <2>1. Append(s, x) = s \o <<x>> /\ <<x>> \in Seq(Line)
    BY AppendIsConcat
  <2> QED
    BY <2>1, OccConcat
<1>2. ASSUME NEW s \in Seq(Line), s # << >>
      PROVE  Occ(line, s) = Occ(line, <<Head(s)>>) + Occ(line, Tail(s))
  <2>1. /\ Head(s) \in Line /\ Tail(s) \in Seq(Line) /\ Len(s) \in Nat /\ Len(s) # 0
        /\ Head(s) = s[1]
    BY <1>2
  <2>2. 1 \in 1..Len(s) /\ Len(s) \in 1..Len(s)
    BY <2>1
  <2>3. SubSeq(s, 1, Len(s)) = <<s[1]>> \o SubSeq(s, 1 + 1, Len(s))
    BY <2>2, SubSeqRecursiveFirst
  <2>4. SubSeq(s, 1, Len(s)) = s /\ Tail(s) = SubSeq(s, 2, Len(s))
    BY <1>2, SubSeqFull, TailIsSubSeq
  <2>5. s = <<Head(s)>> \o Tail(s)
    BY <2>1, <2>3, <2>4
  <2>6. <<Head(s)>> \in Seq(Line)
    BY <2>1
  <2>7. Occ(line, <<Head(s)>> \o Tail(s)) = Occ(line, <<Head(s)>>) + Occ(line, Tail(s))
    BY <2>1, <2>6, OccConcat
  <2> QED
    BY <2>5, <2>7
<1> QED
  BY <1>1, <1>2

(* The first n lines and the rest. *)
LEMMA OccSplit ==
  ASSUME NEW line, NEW s \in Seq(Line), NEW n \in 0..Len(s)
  PROVE  LET first == SubSeq(s, 1, n)
             rest == SubSeq(s, n + 1, Len(s))
         IN  /\ first \in Seq(Line) /\ Len(first) = n
             /\ rest \in Seq(Line)
             /\ Occ(line, s) = Occ(line, first) + Occ(line, rest)
<1> DEFINE first == SubSeq(s, 1, n)
           rest == SubSeq(s, n + 1, Len(s))
<1>1. Len(s) \in Nat /\ \A k \in 1..Len(s) : s[k] \in Line
  OBVIOUS
<1>2. \A k \in 1..n : k \in 1..Len(s)
  BY <1>1
<1>3. \A k \in (n + 1)..Len(s) : k \in 1..Len(s)
  BY <1>1
<1>4. first \in Seq(Line) /\ Len(first) = n
  <2>1. /\ 1 \in Int /\ n \in Int
        /\ \A k \in 1..n : s[k] \in Line
    BY <1>1, <1>2
  <2>2. SubSeq(s, 1, n) \in Seq(Line) /\ Len(SubSeq(s, 1, n)) = IF 1 <= n THEN n - 1 + 1 ELSE 0
    BY <2>1, SubSeqProperties
  <2> QED
    BY <2>2
<1>5. rest \in Seq(Line)
  <2>1. /\ n + 1 \in Int /\ Len(s) \in Int
        /\ \A k \in (n + 1)..Len(s) : s[k] \in Line
    BY <1>1, <1>3
  <2> QED
    BY <2>1, SubSeqProperties
<1>6. first \o rest = s
  <2>1. 1 \in 1..(Len(s) + 1) /\ n \in (1 - 1)..Len(s) /\ Len(s) \in n..Len(s)
    BY <1>1
  <2>2. SubSeq(s, 1, n) \o SubSeq(s, n + 1, Len(s)) = SubSeq(s, 1, Len(s))
    BY <2>1, ConcatAdjacentSubSeq
  <2>3. SubSeq(s, 1, Len(s)) = s
    BY SubSeqFull
  <2> QED
    BY <2>2, <2>3
<1> HIDE DEF first, rest
<1>7. Occ(line, s) = Occ(line, first) + Occ(line, rest)
  BY <1>4, <1>5, <1>6, OccConcat
<1> QED
  BY <1>4, <1>5, <1>7 DEF first, rest

(* Sorting keeps the count of every line, of one that is not there too.    *)
LEMMA OccSorted ==
  ASSUME NEW s \in Seq(Line), NEW t \in [DOMAIN s -> ToSet(s)], SortsTo(s, t), NEW line
  PROVE  t \in Seq(Line) /\ Len(t) = Len(s) /\ Occ(line, t) = Occ(line, s)
<1>1. DOMAIN s = 1..Len(s) /\ Len(s) \in Nat /\ ToSet(s) = {s[i] : i \in DOMAIN s}
  BY DEF ToSet
<1>2. t \in Seq(Line) /\ Len(t) = Len(s)
  <2>1. ToSet(s) \subseteq Line
    BY <1>1
  <2>2. t \in [1..Len(s) -> Line]
    BY <1>1, <2>1
  <2> QED
    BY <1>1, <2>2
<1>3. CASE line \in ToSet(s)
  BY <1>2, <1>3 DEF SortsTo
<1>4. CASE line \notin ToSet(s)
  <2>1. {i \in DOMAIN s : s[i] = line} = {}
    BY <1>1, <1>4
  <2>2. {i \in DOMAIN t : t[i] = line} = {}
    BY <1>4
  <2> QED
    BY <1>2, <2>1, <2>2 DEF Occ
<1> QED
  BY <1>3, <1>4

-----------------------------------------------------------------------------
(* A family of sequences of lines, and the counts of a line in each.       *)
Family(seqs) == IsFiniteSet(DOMAIN seqs) /\ \A k \in DOMAIN seqs : seqs[k] \in Seq(Line)

Counts(line, seqs) == [k \in DOMAIN seqs |-> Occ(line, seqs[k])]

LEMMA CountsType ==
  ASSUME NEW line, NEW seqs, Family(seqs)
  PROVE  /\ IntOn(Counts(line, seqs), DOMAIN seqs)
         /\ OccAll(line, seqs) = SumFunctionOnSet(Counts(line, seqs), DOMAIN seqs)
         /\ OccAll(line, seqs) \in Int
<1> DEFINE F == Counts(line, seqs)
<1>1. DOMAIN F = DOMAIN seqs /\ \A k \in DOMAIN seqs : F[k] = Occ(line, seqs[k])
  BY DEF Counts
<1>2. OccAll(line, seqs) = SumFunctionOnSet(F, DOMAIN F)
  BY DEF OccAll, SumFunction, Counts
<1> HIDE DEF F
<1>3. ASSUME NEW k \in DOMAIN seqs PROVE F[k] \in Int
  <2>1. seqs[k] \in Seq(Line)
    BY DEF Family
  <2>2. Occ(line, seqs[k]) \in Nat
    BY <2>1, OccType
  <2> QED
    BY <1>1, <2>2
<1>4. IntOn(F, DOMAIN seqs)
  BY <1>3 DEF IntOn, Family
<1>5. SumFunctionOnSet(F, DOMAIN seqs) \in Int
  BY <1>4, SumType
<1> QED
  BY <1>1, <1>2, <1>4, <1>5 DEF F

(* A family without lines. *)
LEMMA OccAllEmpty ==
  ASSUME NEW line, NEW seqs, IsFiniteSet(DOMAIN seqs),
         \A k \in DOMAIN seqs : seqs[k] = << >>
  PROVE  Family(seqs) /\ OccAll(line, seqs) = 0
<1>1. Family(seqs)
  <2>1. << >> \in Seq(Line)
    OBVIOUS
  <2> QED
    BY <2>1 DEF Family
<1> DEFINE F == Counts(line, seqs)
           zero == [k \in {} |-> 0]
<1>2. \A k \in DOMAIN seqs : F[k] = 0
  BY OccEmpty DEF Counts
<1>3. /\ IntOn(F, DOMAIN seqs)
      /\ OccAll(line, seqs) = SumFunctionOnSet(F, DOMAIN seqs)
  BY <1>1, CountsType
<1> HIDE DEF F
<1> DEFINE H == {T \in SUBSET (DOMAIN seqs) : SumFunctionOnSet(F, T) = 0}
<1>4. ASSUME NEW T \in SUBSET (DOMAIN seqs), \A U \in SUBSET T : U # T => U \in H
      PROVE  T \in H
  <2>1. CASE T = {}
    BY <2>1, SumEmpty
  <2>2. CASE T # {}
    <3>1. PICK x \in T : TRUE
      BY <2>2
    <3>2. T \ {x} \in H
      BY <1>4, <3>1
    <3>3. IntOn(F, T)
      BY <1>3, FS_Subset DEF IntOn
    <3>4. SumFunctionOnSet(F, T) = F[x] + SumFunctionOnSet(F, T \ {x})
      BY <3>3, SumRemove
    <3> QED
      BY <1>2, <3>2, <3>4
  <2> QED
    BY <2>1, <2>2
<1>5. H = SUBSET (DOMAIN seqs)
  <2> HIDE DEF H
  <2>1. H \in SUBSET (SUBSET (DOMAIN seqs))
    BY DEF H
  <2> QED
    BY <1>4, <2>1, SubsetInduction
<1>6. SumFunctionOnSet(F, DOMAIN seqs) = 0
  BY <1>5
<1> QED
  BY <1>1, <1>3, <1>6

(* One sequence more. *)
Joins(seqs, new, k) ==
  /\ Family(seqs) /\ Family(new)
  /\ DOMAIN new = DOMAIN seqs \cup {k} /\ k \notin DOMAIN seqs
  /\ \A j \in DOMAIN seqs : new[j] = seqs[j]

LEMMA OccAllJoin ==
  ASSUME NEW line, NEW seqs, NEW new, NEW k, Joins(seqs, new, k)
  PROVE  OccAll(line, new) = OccAll(line, seqs) + Occ(line, new[k])
<1> DEFINE F == Counts(line, seqs)
           G == Counts(line, new)
           S == DOMAIN seqs
           T == DOMAIN new
<1>1. k \in T /\ T \ {k} = S
  BY DEF Joins
<1>2. G[k] = Occ(line, new[k]) /\ \A j \in S : F[j] = G[j]
  BY DEF Joins, Counts
<1>3. IntOn(F, S) /\ OccAll(line, seqs) = SumFunctionOnSet(F, S)
  BY CountsType DEF Joins
<1>4. IntOn(G, T) /\ OccAll(line, new) = SumFunctionOnSet(G, T)
  BY CountsType DEF Joins
<1> HIDE DEF F, G, S, T
<1>5. SumFunctionOnSet(G, T) = G[k] + SumFunctionOnSet(G, S)
  BY <1>1, <1>4, SumRemove
<1>6. SumFunctionOnSet(F, S) = SumFunctionOnSet(G, S)
  BY <1>2, <1>3, SumSame
<1>7. G[k] \in Int /\ SumFunctionOnSet(F, S) \in Int
  BY <1>1, <1>3, <1>4, SumType DEF IntOn
<1> QED
  BY <1>2, <1>3, <1>4, <1>5, <1>6, <1>7

(* One sequence changed. *)
Differ(seqs, new, k) ==
  /\ Family(seqs) /\ Family(new)
  /\ DOMAIN new = DOMAIN seqs /\ k \in DOMAIN seqs
  /\ \A j \in DOMAIN seqs : j # k => new[j] = seqs[j]

LEMMA OccAllChange ==
  ASSUME NEW line, NEW seqs, NEW new, NEW k, Differ(seqs, new, k)
  PROVE  OccAll(line, new) = OccAll(line, seqs) - Occ(line, seqs[k]) + Occ(line, new[k])
<1> DEFINE rest == [j \in DOMAIN seqs \ {k} |-> seqs[j]]
<1>1. Family(rest)
  BY FS_RemoveElement DEF Differ, Family
<1>2. Joins(rest, seqs, k)
  BY <1>1 DEF Differ, Joins
<1>3. Joins(rest, new, k)
  BY <1>1 DEF Differ, Joins
<1> HIDE DEF rest
<1>4. OccAll(line, new) = OccAll(line, rest) + Occ(line, new[k])
  BY <1>3, OccAllJoin
<1>5. OccAll(line, seqs) = OccAll(line, rest) + Occ(line, seqs[k])
  BY <1>2, OccAllJoin
<1>6. OccAll(line, rest) \in Int
  BY <1>1, CountsType
<1>7. seqs[k] \in Seq(Line) /\ new[k] \in Seq(Line)
  BY DEF Differ, Family
<1>8. Occ(line, seqs[k]) \in Nat /\ Occ(line, new[k]) \in Nat
  BY <1>7, OccType
<1> QED
  BY <1>4, <1>5, <1>6, <1>8

(* The same sequences under other names: a directory in another order.     *)
Reordered(b, seqs, new) ==
  /\ Family(seqs) /\ b \in Bijection(DOMAIN seqs, DOMAIN new)
  /\ \A k \in DOMAIN seqs : new[b[k]] = seqs[k]

LEMMA OccAllReordered ==
  ASSUME NEW line, NEW seqs, NEW new, NEW b, Reordered(b, seqs, new)
  PROVE  Family(new) /\ OccAll(line, new) = OccAll(line, seqs)
<1> DEFINE F == Counts(line, seqs)
           G == Counts(line, new)
<1>1. /\ b \in [DOMAIN seqs -> DOMAIN new]
      /\ \A z \in DOMAIN new : \E x \in DOMAIN seqs : b[x] = z
      /\ b \in Surjection(DOMAIN seqs, DOMAIN new)
  BY DEF Reordered, Bijection, Surjection
<1>2. Family(new)
  <2>1. IsFiniteSet(DOMAIN new)
    BY <1>1, FS_Surjection DEF Reordered, Family
  <2> QED
    BY <1>1, <2>1 DEF Reordered, Family
<1>3. IntOn(F, DOMAIN seqs) /\ OccAll(line, seqs) = SumFunctionOnSet(F, DOMAIN seqs)
  BY CountsType DEF Reordered
<1>4. OccAll(line, new) = SumFunctionOnSet(G, DOMAIN new)
  BY <1>2, CountsType
<1>5. \A k \in DOMAIN seqs : G[b[k]] = F[k]
  BY <1>1 DEF Reordered, Counts
<1> HIDE DEF F, G
<1>6. Renames(b, F, DOMAIN seqs, G, DOMAIN new)
  BY <1>5 DEF Renames, Reordered
<1>7. SumFunctionOnSet(F, DOMAIN seqs) = SumFunctionOnSet(G, DOMAIN new)
  BY <1>3, <1>6, SumRenamed
<1> QED
  BY <1>2, <1>3, <1>4, <1>7

-----------------------------------------------------------------------------
(* The second invariant: every line is somewhere, once.  What has been     *)
(* read before the file's end is sorted and written before the next file   *)
(* is opened, and the temporary files of the run are numbered from 0.      *)
InputInv ==
  /\ ifp.eof => ifp.rest = << >> /\ ifp.piece = << >>
  /\ ~ifp.broken => ifp.piece = << >>
  /\ phase \in {"start", "pick", "merge"} =>
       /\ ifp.rest = << >> /\ ifp.piece = << >>
       /\ \A i \in Threads : msa_arr[i] = << >>
  /\ phase = "read" => \A i \in pending : msa_arr[i] = << >>
  /\ phase = "merge" => todo = {}

FilesInv ==
  /\ phase \in Busy =>
       /\ DOMAIN tmp = IF phase = "write" THEN 0..file_cnt ELSE 0..(file_cnt - 1)
       /\ DOMAIN tmp \cap DOMAIN stale = {}
  /\ Family(tmp) /\ Family(stale) /\ Family(fps)

Conserved ==
  phase \in Busy \cup {"done"} =>
    \A line \in Line :
      InFlight(line) = OccAll(line, TextOf(Files \ TooLong)) + Extra(line)

LineInv == InputInv /\ FilesInv /\ Conserved

-----------------------------------------------------------------------------
LEMMA TextFamily ==
  ASSUME NEW S \in SUBSET Files
  PROVE  Family(TextOf(S)) /\ DOMAIN TextOf(S) = S
<1>1. IsFiniteSet(S)
  BY TextAssumption, FS_Subset
<1>2. \A f \in S : Text[f] \in Seq(Line)
  BY TextAssumption
<1> QED
  BY <1>1, <1>2 DEF Family, TextOf

LEMMA ArraysFamily ==
  ASSUME NEW arrays, DOMAIN arrays = Threads, \A i \in Threads : arrays[i] \in Seq(Line)
  PROVE  Family(arrays)
<1>1. IsFiniteSet(Threads)
  BY SizeAssumption, FS_Interval DEF Threads
<1> QED
  BY <1>1 DEF Family

LEMMA PartsAreNumbers ==
  ASSUME Types, FilesInv, NEW line \in Line
  PROVE  /\ Occ(line, ifp.rest) \in Int /\ OccAll(line, TextOf(todo \ TooLong)) \in Int
         /\ OccAll(line, msa_arr) \in Int /\ OccAll(line, tmp) \in Int
         /\ Occ(line, out_buf) \in Int /\ Occ(line, output) \in Int
         /\ OccAll(line, fps) \in Int /\ OccAll(line, stale) \in Int
         /\ Occ(line, ifp.piece) \in Int
<1>1. /\ ifp.rest \in Seq(Line) /\ out_buf \in Seq(Line) /\ output \in Seq(Line)
      /\ ifp.piece \in Seq(Line)
  BY DEF Types, InputFile
<1>2. /\ Occ(line, ifp.rest) \in Nat /\ Occ(line, out_buf) \in Nat
      /\ Occ(line, output) \in Nat /\ Occ(line, ifp.piece) \in Nat
  BY <1>1, OccType
<1>3. Family(TextOf(todo \ TooLong))
  <2>1. todo \ TooLong \in SUBSET Files
    BY DEF Types
  <2> QED
    BY <2>1, TextFamily
<1>4. Family(msa_arr)
  BY ArraysFamily DEF Types
<1>5. Family(tmp) /\ Family(fps) /\ Family(stale)
  BY DEF FilesInv
<1>6. /\ OccAll(line, TextOf(todo \ TooLong)) \in Int /\ OccAll(line, msa_arr) \in Int
      /\ OccAll(line, tmp) \in Int /\ OccAll(line, fps) \in Int
      /\ OccAll(line, stale) \in Int
  BY <1>3, <1>4, <1>5, CountsType
<1> QED
  BY <1>2, <1>6

(* Before the merge, what is there beside the input is the piece of a line.*)
LEMMA ExtraIsPiece ==
  ASSUME Types, FilesInv, NEW line \in Line, phase \notin {"merge", "done"}
  PROVE  Extra(line) = Occ(line, ifp.piece) /\ Extra(line) \in Int
BY PartsAreNumbers DEF Extra

(* The line a merge takes leaves its stream. *)
LEMMA OccPopped ==
  ASSUME NEW seqs, Family(seqs), NEW i \in DOMAIN seqs, seqs[i] # << >>, NEW line \in Line
  PROVE  /\ Head(seqs[i]) \in Line /\ Family(Popped(seqs, i))
         /\ OccAll(line, Popped(seqs, i)) = OccAll(line, seqs) - Occ(line, <<Head(seqs[i])>>)
<1> DEFINE new == Popped(seqs, i)
<1>1. seqs[i] \in Seq(Line)
  BY DEF Family
<1>2. Head(seqs[i]) \in Line /\ Tail(seqs[i]) \in Seq(Line)
  BY <1>1
<1>3. /\ DOMAIN new = DOMAIN seqs /\ new[i] = Tail(seqs[i])
      /\ \A j \in DOMAIN seqs : j # i => new[j] = seqs[j]
  BY DEF Popped
<1> HIDE DEF new
<1>4. Family(new)
  BY <1>2, <1>3 DEF Family
<1>5. Differ(seqs, new, i)
  BY <1>3, <1>4 DEF Differ
<1>6. OccAll(line, new) = OccAll(line, seqs) - Occ(line, seqs[i]) + Occ(line, Tail(seqs[i]))
  <2>1. OccAll(line, new) = OccAll(line, seqs) - Occ(line, seqs[i]) + Occ(line, new[i])
    BY <1>5, OccAllChange
  <2> QED
    BY <1>3, <2>1
<1>7. Occ(line, seqs[i]) = Occ(line, <<Head(seqs[i])>>) + Occ(line, Tail(seqs[i]))
  BY <1>1, OccMoved
<1>8. /\ Occ(line, seqs[i]) \in Nat /\ Occ(line, Tail(seqs[i])) \in Nat
      /\ OccAll(line, seqs) \in Int
  BY <1>1, <1>2, OccType, CountsType
<1>9. <<Head(seqs[i])>> \in Seq(Line)
  BY <1>2
<1>10. Occ(line, <<Head(seqs[i])>>) \in Nat
  BY <1>9, OccType
<1> QED
  BY <1>2, <1>4, <1>6, <1>7, <1>8, <1>10 DEF new

-----------------------------------------------------------------------------
LEMMA LineInit == Init => LineInv
<1> SUFFICES ASSUME Init PROVE LineInv
  OBVIOUS
<1>1. ifp.rest = << >> /\ ifp.piece = << >> /\ \A i \in Threads : msa_arr[i] = << >>
  BY DEF Init, NoFile, NoBlocks
<1>2. Family(fps) /\ Family(stale)
  <2>1. DOMAIN fps = {} /\ DOMAIN stale = {}
    BY DEF Init
  <2> QED
    BY <2>1, FS_EmptySet DEF Family
<1>3. Family(tmp)
  <2>1. CASE tmp = << >>
    <3>1. DOMAIN tmp = {}
      BY <2>1
    <3> QED
      BY <3>1, FS_EmptySet DEF Family
  <2>2. CASE tmp = [n \in {MaxTmpFiles} |-> <<1>>]
    <3>1. DOMAIN tmp = {MaxTmpFiles} /\ tmp[MaxTmpFiles] = <<1>>
      BY <2>2
    <3>2. <<1>> \in Seq(Line)
      BY DEF Line
    <3> QED
      BY <3>1, <3>2, FS_Singleton DEF Family
  <2> QED
    BY <2>1, <2>2 DEF Init
<1> QED
  BY <1>1, <1>2, <1>3 DEF Init, LineInv, InputInv, FilesInv, Conserved, Busy

LEMMA LineBegin ==
  ASSUME IInv, LineInv, Begin \/ BeginUncleared
  PROVE  LineInv'
<1>1. /\ phase = "start" /\ phase' = "pick" /\ tmp' = << >> /\ todo' = Files
      /\ file_cnt' = 0 /\ UNCHANGED <<ifp, msa_arr, fps>>
  BY DEF Begin, BeginUncleared, Starts, ClearedTmp
<1>2. DOMAIN tmp' = {} /\ 0..(0 - 1) = {}
  BY <1>1
<1>3. Family(tmp') /\ \A line \in Line : OccAll(line, tmp') = 0
  BY <1>2, FS_EmptySet, OccAllEmpty
<1>4. /\ ifp.rest = << >> /\ ifp.piece = << >>
      /\ \A line \in Line : Occ(line, ifp.rest) = 0 /\ Occ(line, ifp.piece) = 0
  BY <1>1, OccEmpty DEF LineInv, InputInv
<1>5. \A line \in Line : OccAll(line, msa_arr) = 0
  <2>1. DOMAIN msa_arr = Threads /\ IsFiniteSet(Threads)
    BY SizeAssumption, FS_Interval DEF IInv, Ordered, Types, Threads
  <2>2. \A i \in Threads : msa_arr[i] = << >>
    BY <1>1 DEF LineInv, InputInv
  <2> QED
    BY <2>1, <2>2, OccAllEmpty
<1>6. \A line \in Line : OccAll(line, TextOf(Files \ TooLong)) \in Int
  BY TextFamily, CountsType
<1>7. Conserved'
  <2> SUFFICES ASSUME NEW line \in Line
               PROVE  InFlight(line)' = OccAll(line, TextOf(Files \ TooLong)) + Extra(line)'
    BY DEF Conserved
  <2>1. InFlight(line)' = 0 + OccAll(line, TextOf(Files \ TooLong)) + 0 + 0
    BY <1>1, <1>3, <1>4, <1>5 DEF InFlight
  <2>2. Extra(line)' = 0 + 0
    BY <1>1, <1>4 DEF Extra
  <2> DEFINE all == OccAll(line, TextOf(Files \ TooLong))
  <2>3. all \in Int
    BY <1>6
  <2>4. InFlight(line)' = 0 + all + 0 + 0
    BY <2>1
  <2> HIDE DEF all
  <2>5. InFlight(line)' = all + Extra(line)'
    BY <2>2, <2>3, <2>4
  <2> QED
    BY <2>5 DEF all
<1>8. InputInv'
  BY <1>1 DEF LineInv, InputInv
<1>10. Family(stale')
  <2>1. CASE Begin
    <3>1. DOMAIN stale' = {}
      BY <2>1 DEF Begin
    <3> QED
      BY <3>1, FS_EmptySet DEF Family
  <2>2. CASE BeginUncleared
    <3>1. PICK left \in SUBSET DOMAIN Directory : stale' = [n \in left |-> Directory[n]]
      BY <2>2 DEF BeginUncleared
    <3>2. IsFiniteSet(left)
      <4>1. left \subseteq 0..MaxTmpFiles
        BY DirectoryStored DEF IInv
      <4>2. IsFiniteSet(0..MaxTmpFiles)
        BY SizeAssumption, FS_Interval
      <4> QED
        BY <4>1, <4>2, FS_Subset
    <3> QED
      BY <3>1, <3>2, DirectoryStored DEF IInv, Family
  <2> QED
    BY <2>1, <2>2
<1>9. FilesInv'
  BY <1>1, <1>2, <1>3, <1>10 DEF LineInv, FilesInv
<1> QED
  BY <1>7, <1>8, <1>9 DEF LineInv

LEMMA LinePick ==
  ASSUME IInv, LineInv, NEW f \in Files, SkipFile(f) \/ OpenFile(f)
  PROVE  LineInv'
<1>1. /\ phase = "pick" /\ phase' \in {"pick", "read"} /\ f \in todo /\ todo' = todo \ {f}
      /\ todo \subseteq Files /\ UNCHANGED <<msa_arr, tmp, stale, file_cnt, fps>>
      /\ ifp.rest = << >> /\ ifp.piece = << >> /\ \A i \in Threads : msa_arr[i] = << >>
      /\ ifp.eof => ifp.rest = << >>
  BY DEF SkipFile, OpenFile, LineInv, InputInv, IInv, Ordered, Types
<1>2. InputInv'
  <2>1. CASE SkipFile(f)
    BY <1>1, <2>1 DEF InputInv, SkipFile
  <2>2. CASE OpenFile(f)
    <3>1. ~ifp'.eof /\ ifp'.piece = << >> /\ phase' = "read" /\ pending' = Threads
      BY <2>2 DEF OpenFile
    <3> QED
      BY <1>1, <3>1 DEF InputInv
  <2> QED
    BY <2>1, <2>2
<1>3. FilesInv'
  BY <1>1 DEF LineInv, FilesInv, Busy
<1>4. Conserved'
  <2> SUFFICES ASSUME NEW line \in Line
               PROVE  InFlight(line)' = OccAll(line, TextOf(Files \ TooLong)) + Extra(line)'
    BY DEF Conserved
  <2>1. InFlight(line) = OccAll(line, TextOf(Files \ TooLong)) + Extra(line)
    BY <1>1 DEF LineInv, Conserved, Busy
  <2>0. Extra(line)' = Extra(line)
    <3>1. ifp'.piece = << >>
      BY <1>1 DEF SkipFile, OpenFile
    <3> QED
      BY <1>1, <3>1 DEF Extra
  <2>2. CASE SkipFile(f)
    <3>1. todo' \ TooLong = todo \ TooLong /\ ifp' = ifp /\ phase' = phase
      BY <2>2 DEF SkipFile
    <3> QED
      BY <1>1, <2>0, <2>1, <3>1 DEF InFlight
  <2>3. CASE OpenFile(f)
    <3> DEFINE before == TextOf(todo \ TooLong)
               after == TextOf(todo' \ TooLong)
    <3>1. f \notin TooLong /\ ifp'.rest = Text[f] /\ phase' = "read"
      BY <2>3 DEF OpenFile
    <3>2. /\ Family(before) /\ DOMAIN before = todo \ TooLong
          /\ Family(after) /\ DOMAIN after = todo' \ TooLong
      <4>1. todo \ TooLong \in SUBSET Files /\ todo' \ TooLong \in SUBSET Files
        BY <1>1
      <4> QED
        BY <4>1, TextFamily
    <3>3. /\ \A g \in todo \ TooLong : before[g] = Text[g]
          /\ \A g \in todo' \ TooLong : after[g] = Text[g]
      BY DEF TextOf
    <3>4. todo \ TooLong = (todo' \ TooLong) \cup {f} /\ f \notin todo' \ TooLong
      BY <1>1, <3>1
    <3> HIDE DEF before, after
    <3>5. Joins(after, before, f) /\ before[f] = Text[f]
      BY <3>2, <3>3, <3>4 DEF Joins
    <3>6. OccAll(line, before) = OccAll(line, after) + Occ(line, Text[f])
      BY <3>5, OccAllJoin
    <3>7. /\ OccAll(line, before) \in Int /\ OccAll(line, after) \in Int
          /\ Occ(line, Text[f]) \in Nat /\ OccAll(line, msa_arr) \in Int
          /\ OccAll(line, tmp) \in Int
      <4>1. Text[f] \in Seq(Line)
        BY TextAssumption
      <4> QED
        BY <3>2, <4>1, CountsType, OccType, PartsAreNumbers DEF LineInv, IInv, Ordered
    <3>8. InFlight(line) = 0 + OccAll(line, before) + OccAll(line, msa_arr) + OccAll(line, tmp)
      BY <1>1, OccEmpty DEF InFlight, before
    <3>9. InFlight(line)' = Occ(line, Text[f]) + OccAll(line, after) + OccAll(line, msa_arr)
                              + OccAll(line, tmp)
      BY <1>1, <3>1 DEF InFlight, after
    <3> QED
      BY <2>0, <2>1, <3>6, <3>7, <3>8, <3>9
  <2> QED
    BY <2>2, <2>3
<1> QED
  BY <1>2, <1>3, <1>4 DEF LineInv

(* Thread i's block is taken from the input. *)
LEMMA LineRead ==
  ASSUME IInv, LineInv, NEW i \in Threads, NEW n \in 0..Len(ifp.rest), NEW piece \in Seq(Line),
         ReadBlock(i, First(n) \o piece),
         ifp'.rest = Unread(n), ifp'.piece = ifp.piece \o piece,
         ifp'.eof => ifp'.rest = << >> /\ ifp'.piece = << >>,
         ~ifp'.broken => ifp'.piece = << >>
  PROVE  LineInv'
<1> DEFINE first == SubSeq(ifp.rest, 1, n)
           rest == SubSeq(ifp.rest, n + 1, Len(ifp.rest))
           block == first \o piece
<1>1. /\ phase = "read" /\ phase' \in {"read", "sort"} /\ i \in pending
      /\ phase' = "read" => pending' = pending \ {i}
      /\ UNCHANGED <<todo, tmp, stale, file_cnt, fps, out_buf, output>>
      /\ msa_arr' = [msa_arr EXCEPT ![i] = block] /\ ifp'.rest = rest
  BY DEF ReadBlock, Unread, First
<1>2. /\ DOMAIN msa_arr' = Threads /\ msa_arr'[i] = block
      /\ \A j \in Threads : j # i => msa_arr'[j] = msa_arr[j]
      /\ DOMAIN msa_arr = Threads /\ \A j \in Threads : msa_arr[j] \in Seq(Line)
      /\ ifp.rest \in Seq(Line) /\ ifp.piece \in Seq(Line)
  BY <1>1 DEF IInv, Ordered, Types, InputFile
<1>3. first \in Seq(Line) /\ rest \in Seq(Line) /\ block \in Seq(Line)
  <2>1. first \in Seq(Line) /\ rest \in Seq(Line)
    BY <1>2, OccSplit
  <2> HIDE DEF first, rest
  <2> QED
    BY <2>1, ConcatProperties
<1>4. msa_arr[i] = << >>
  BY <1>1 DEF LineInv, InputInv
<1>5. InputInv'
  <2>1. phase' = "read" => \A j \in pending' : j \in pending /\ j # i
    BY <1>1
  <2>2. \A j \in pending : msa_arr[j] = << >>
    BY <1>1 DEF LineInv, InputInv
  <2>3. \A j : j # i => msa_arr'[j] = msa_arr[j] \/ j \notin Threads
    BY <1>2
  <2>4. phase' = "read" => \A j \in pending' : msa_arr'[j] = << >>
    <3> SUFFICES ASSUME phase' = "read", NEW j \in pending' PROVE msa_arr'[j] = << >>
      OBVIOUS
    <3> QED
      BY <1>1, <2>1, <2>2
  <2> QED
    BY <1>1, <2>4 DEF InputInv
<1>6. FilesInv'
  BY <1>1 DEF LineInv, FilesInv, Busy
<1> HIDE DEF first, rest, block
<1>7. Differ(msa_arr, msa_arr', i)
  <2>1. Family(msa_arr)
    BY <1>2, ArraysFamily
  <2>2. \A j \in Threads : msa_arr'[j] \in Seq(Line)
    BY <1>2, <1>3
  <2>3. Family(msa_arr')
    BY <1>2, <2>2, ArraysFamily
  <2> QED
    BY <1>2, <2>1, <2>3 DEF Differ
<1>8. Conserved'
  <2> SUFFICES ASSUME NEW line \in Line
               PROVE  InFlight(line)' = OccAll(line, TextOf(Files \ TooLong)) + Extra(line)'
    BY DEF Conserved
  <2>1. InFlight(line) = OccAll(line, TextOf(Files \ TooLong)) + Extra(line)
    BY <1>1 DEF LineInv, Conserved, Busy
  <2>2. Occ(line, ifp.rest) = Occ(line, first) + Occ(line, rest)
    BY <1>2, OccSplit DEF first, rest
  <2>3. OccAll(line, msa_arr') = OccAll(line, msa_arr) - 0 + Occ(line, block)
    <3>1. OccAll(line, msa_arr') = OccAll(line, msa_arr) - Occ(line, msa_arr[i])
                                     + Occ(line, msa_arr'[i])
      BY <1>7, OccAllChange
    <3> QED
      BY <1>2, <1>4, <3>1, OccEmpty
  <2>4. /\ OccAll(line, msa_arr) \in Int /\ OccAll(line, tmp) \in Int
        /\ OccAll(line, TextOf(todo \ TooLong)) \in Int
        /\ Occ(line, first) \in Nat /\ Occ(line, rest) \in Nat
        /\ Occ(line, piece) \in Nat /\ Occ(line, ifp.piece) \in Int
        /\ OccAll(line, TextOf(Files \ TooLong)) \in Int
    BY <1>3, OccType, PartsAreNumbers, TextFamily, CountsType DEF LineInv, IInv, Ordered
  <2>5. InFlight(line) = Occ(line, ifp.rest) + OccAll(line, TextOf(todo \ TooLong))
                           + OccAll(line, msa_arr) + OccAll(line, tmp)
    BY <1>1 DEF InFlight
  <2>6. InFlight(line)' = Occ(line, rest) + OccAll(line, TextOf(todo \ TooLong))
                            + OccAll(line, msa_arr') + OccAll(line, tmp)
    BY <1>1 DEF InFlight, rest
  <2>7. Occ(line, block) = Occ(line, first) + Occ(line, piece)
    BY <1>3, OccConcat DEF block
  <2>8. Extra(line) = Occ(line, ifp.piece)
    BY <1>1, ExtraIsPiece DEF LineInv, IInv, Ordered
  <2>9. Extra(line)' = Occ(line, ifp.piece) + Occ(line, piece)
    <3>1. Occ(line, ifp.piece \o piece) = Occ(line, ifp.piece) + Occ(line, piece)
      BY <1>2, OccConcat
    <3>2. Extra(line)' = Occ(line, ifp'.piece) + 0
      BY <1>1 DEF Extra
    <3> QED
      BY <2>4, <3>1, <3>2
  <2>10. OccAll(line, msa_arr') = OccAll(line, msa_arr) + Occ(line, first) + Occ(line, piece)
    BY <2>3, <2>4, <2>7
  <2>11. InFlight(line)' = InFlight(line) + Occ(line, piece)
    BY <2>2, <2>4, <2>5, <2>6, <2>10, SMTT(30)
  <2>12. Extra(line)' = Extra(line) + Occ(line, piece)
    BY <2>8, <2>9
  <2> QED
    BY <2>1, <2>4, <2>8, <2>11, <2>12
<1> QED
  BY <1>5, <1>6, <1>8 DEF LineInv

(* The end-of-file flag is set only when all has been read. *)
LEMMA LineReads ==
  ASSUME IInv, LineInv, NEW i \in Threads,
         single_read_block(i) \/ ReadError(i) \/ ReadNothing(i)
  PROVE  LineInv'
<1>1. /\ ifp.rest \in Seq(Line) /\ Len(ifp.rest) \in Nat /\ ifp \in InputFile /\ Types
      /\ ifp.piece \in Seq(Line) /\ << >> \in Seq(Line)
  BY DEF IInv, Ordered, Types, InputFile
<1>2. /\ ifp.eof => ifp.rest = << >> /\ ifp.piece = << >>
      /\ ~ifp.broken => ifp.piece = << >>
  BY DEF LineInv, InputInv
<1>3. SubSeq(ifp.rest, Len(ifp.rest) + 1, Len(ifp.rest)) = << >>
  BY <1>1, SubSeqEmpty
<1>4. CASE single_read_block(i)
  <2>1. PICK n \in 0..Len(ifp.rest) :
          /\ ReadsBlock(ifp.rest, n) /\ ReadBlock(i, First(n))
          /\ ifp' = [ifp EXCEPT !.rest = Unread(n), !.eof = HitsEOF(ifp, n)]
    BY <1>4 DEF single_read_block
  <2>2. /\ ifp'.rest = Unread(n) /\ ifp'.eof = HitsEOF(ifp, n)
        /\ ifp'.piece = ifp.piece /\ ~ifp.broken
    BY <1>1, <1>4, <2>1 DEF InputFile, single_read_block
  <2>3. HitsEOF(ifp, n) => n = Len(ifp.rest)
    <3>1. CASE ifp.eof
      <4>1. Len(ifp.rest) = 0
        BY <1>2, <3>1
      <4> QED
        BY <4>1
    <3>2. CASE ~ifp.eof
      BY <2>1, <3>2 DEF HitsEOF, ReadsBlock
    <3> QED
      BY <3>1, <3>2
  <2>4. ifp'.eof => ifp'.rest = << >>
    BY <1>3, <2>2, <2>3 DEF Unread
  <2>5. First(n) \o << >> = First(n) /\ ifp.piece \o << >> = ifp.piece
    <3>1. First(n) \in Seq(Line)
      BY <1>1, ReadIsText
    <3> QED
      BY <1>1, <3>1, ConcatEmptySeq
  <2>6. ReadBlock(i, First(n) \o << >>) /\ ifp'.piece = ifp.piece \o << >>
    BY <2>1, <2>2, <2>5
  <2>7. ifp'.piece = << >>
    BY <1>2, <2>2
  <2> QED
    BY <1>1, <2>2, <2>4, <2>6, <2>7, LineRead
<1>5. CASE ReadError(i)
  <2>1. PICK n \in 0..Len(ifp.rest) :
          /\ ReadsUntilError(ifp, n)
          /\ \E piece \in CutShort(ifp.rest, n) :
               /\ ReadBlock(i, First(n) \o piece)
               /\ ifp' = [ifp EXCEPT !.rest = Unread(n), !.eof = EOFAfterError(ifp),
                                     !.broken = TRUE, !.piece = piece]
    BY <1>5 DEF ReadError
  <2>2. PICK piece \in CutShort(ifp.rest, n) :
          /\ ReadBlock(i, First(n) \o piece)
          /\ ifp' = [ifp EXCEPT !.rest = Unread(n), !.eof = EOFAfterError(ifp),
                                !.broken = TRUE, !.piece = piece]
    BY <2>1
  <2>3. /\ ifp'.rest = Unread(n) /\ ~ifp'.eof /\ ifp'.broken /\ ifp'.piece = piece
    BY <1>1, <2>1, <2>2 DEF EOFAfterError, ReadsUntilError, InputFile
  <2>4. piece \in Seq(Line)
    BY <1>1, PieceIsText
  <2>5. ifp'.piece = ifp.piece \o piece
    <3>1. ifp.piece = << >>
      BY <1>2, <1>5 DEF ReadError
    <3> QED
      BY <2>3, <2>4, <3>1, ConcatEmptySeq
  <2> QED
    BY <2>2, <2>3, <2>4, <2>5, LineRead
<1>6. CASE ReadNothing(i)
  <2>1. ReadBlock(i, << >>) /\ ifp' = ifp /\ 0 \in 0..Len(ifp.rest) /\ ifp.broken
    BY <1>1, <1>6 DEF ReadNothing
  <2>2. Unread(0) = ifp.rest
    BY <1>1, SubSeqFull DEF Unread
  <2>3. First(0) \o << >> = << >> /\ ifp.piece \o << >> = ifp.piece
    <3>1. First(0) \in Seq(Line) /\ Len(First(0)) = 0
      BY <1>1, <2>1, ReadIsText
    <3>2. First(0) = << >>
      BY <3>1, EmptySeq
    <3> QED
      BY <1>1, <3>2, ConcatEmptySeq
  <2>4. ReadBlock(i, First(0) \o << >>) /\ ifp'.piece = ifp.piece \o << >>
    BY <2>1, <2>3
  <2> QED
    BY <1>1, <1>2, <2>1, <2>2, <2>4, LineRead
<1> QED
  BY <1>4, <1>5, <1>6

LEMMA LineSort ==
  ASSUME IInv, LineInv, NEW i \in Threads, sort_one_msa(i)
  PROVE  LineInv'
<1>1. /\ phase = "sort" /\ phase' = "sort"
      /\ UNCHANGED <<todo, ifp, tmp, stale, file_cnt, fps, out_buf, output>>
  BY DEF sort_one_msa
<1>2. PICK t \in [DOMAIN msa_arr[i] -> ToSet(msa_arr[i])] :
        SortsTo(msa_arr[i], t) /\ msa_arr' = [msa_arr EXCEPT ![i] = t]
  BY DEF sort_one_msa
<1>3. /\ DOMAIN msa_arr = Threads /\ \A j \in Threads : msa_arr[j] \in Seq(Line)
      /\ DOMAIN msa_arr' = Threads /\ msa_arr'[i] = t
      /\ \A j \in Threads : j # i => msa_arr'[j] = msa_arr[j]
  BY <1>2 DEF IInv, Ordered, Types
<1>4. t \in Seq(Line) /\ \A line : Occ(line, t) = Occ(line, msa_arr[i])
  BY <1>2, <1>3, OccSorted
<1>5. Differ(msa_arr, msa_arr', i)
  <2>1. Family(msa_arr)
    BY <1>3, ArraysFamily
  <2>2. \A j \in Threads : msa_arr'[j] \in Seq(Line)
    BY <1>3, <1>4
  <2>3. Family(msa_arr')
    BY <1>3, <2>2, ArraysFamily
  <2> QED
    BY <1>3, <2>1, <2>3 DEF Differ
<1>6. Conserved'
  <2> SUFFICES ASSUME NEW line \in Line
               PROVE  InFlight(line)' = OccAll(line, TextOf(Files \ TooLong)) + Extra(line)'
    BY DEF Conserved
  <2>1. InFlight(line) = OccAll(line, TextOf(Files \ TooLong)) + Extra(line)
    BY <1>1 DEF LineInv, Conserved, Busy
  <2>2. OccAll(line, msa_arr') = OccAll(line, msa_arr) - Occ(line, msa_arr[i])
                                   + Occ(line, msa_arr'[i])
    BY <1>5, OccAllChange
  <2>3. OccAll(line, msa_arr) \in Int /\ Occ(line, t) \in Nat
    BY <1>4, OccType, PartsAreNumbers DEF LineInv, IInv, Ordered
  <2>4. OccAll(line, msa_arr') = OccAll(line, msa_arr)
    BY <1>3, <1>4, <2>2, <2>3
  <2> QED
    BY <1>1, <2>1, <2>4 DEF InFlight, Extra
<1> QED
  BY <1>1, <1>6 DEF LineInv, InputInv, FilesInv, Busy

LEMMA LineOpenTmp ==
  ASSUME IInv, LineInv, OpenTmp
  PROVE  LineInv'
<1>1. /\ phase = "sort" /\ phase' = "write"
      /\ UNCHANGED <<todo, ifp, msa_arr, pending, file_cnt, fps, out_buf, output>>
      /\ tmp' = [n \in DOMAIN tmp \cup {file_cnt} |->
                   IF n = file_cnt THEN << >> ELSE tmp[n]]
      /\ stale' = [n \in DOMAIN stale \ {file_cnt} |-> stale[n]]
  BY DEF OpenTmp
<1>2. DOMAIN tmp = 0..(file_cnt - 1) /\ file_cnt \in Nat /\ Family(tmp)
  BY <1>1, SizeAssumption DEF LineInv, FilesInv, Busy, IInv, Ordered, Types
<1>3. /\ DOMAIN tmp' = DOMAIN tmp \cup {file_cnt} /\ file_cnt \notin DOMAIN tmp
      /\ DOMAIN tmp' = 0..file_cnt /\ tmp'[file_cnt] = << >>
      /\ \A n \in DOMAIN tmp : tmp'[n] = tmp[n]
  BY <1>1, <1>2
<1>4. Family(tmp')
  <2>1. IsFiniteSet(DOMAIN tmp')
    BY <1>2, <1>3, FS_Interval
  <2>2. << >> \in Seq(Line)
    OBVIOUS
  <2>3. \A n \in DOMAIN tmp' : tmp'[n] \in Seq(Line)
    BY <1>2, <1>3, <2>2 DEF Family
  <2> QED
    BY <2>1, <2>3 DEF Family
<1>7. Family(stale') /\ DOMAIN tmp' \cap DOMAIN stale' = {}
  <2>1. Family(stale) /\ DOMAIN tmp \cap DOMAIN stale = {}
    BY <1>1 DEF LineInv, FilesInv, Busy
  <2>2. DOMAIN stale' = DOMAIN stale \ {file_cnt} /\ \A n \in DOMAIN stale' : stale'[n] = stale[n]
    BY <1>1
  <2>3. IsFiniteSet(DOMAIN stale')
    BY <2>1, <2>2, FS_Subset DEF Family
  <2> QED
    BY <1>3, <2>1, <2>2, <2>3 DEF Family
<1>5. FilesInv'
  BY <1>1, <1>3, <1>4, <1>7 DEF LineInv, FilesInv
<1>6. Conserved'
  <2> SUFFICES ASSUME NEW line \in Line
               PROVE  InFlight(line)' = OccAll(line, TextOf(Files \ TooLong)) + Extra(line)'
    BY DEF Conserved
  <2>1. InFlight(line) = OccAll(line, TextOf(Files \ TooLong)) + Extra(line)
    BY <1>1 DEF LineInv, Conserved, Busy
  <2>2. Joins(tmp, tmp', file_cnt)
    BY <1>2, <1>3, <1>4 DEF Joins
  <2>3. OccAll(line, tmp') = OccAll(line, tmp) + Occ(line, tmp'[file_cnt])
    BY <2>2, OccAllJoin
  <2>4. OccAll(line, tmp') = OccAll(line, tmp) + 0 /\ OccAll(line, tmp) \in Int
    BY <1>2, <1>3, <2>3, OccEmpty, CountsType
  <2> QED
    BY <1>1, <2>1, <2>4 DEF InFlight, Extra
<1> QED
  BY <1>1, <1>5, <1>6 DEF LineInv, InputInv

LEMMA LineWrite ==
  ASSUME IInv, LineInv, WriteLine
  PROVE  LineInv'
<1> DEFINE file == tmp[file_cnt]
<1>1. PICK i \in Threads :
        /\ IsFirstMin(msa_arr, i)
        /\ tmp' = [tmp EXCEPT ![file_cnt] = Append(file, Head(msa_arr[i]))]
        /\ msa_arr' = Popped(msa_arr, i)
  BY DEF WriteLine
<1> DEFINE first == Head(msa_arr[i])
<1>2. /\ phase = "write" /\ phase' = "write"
      /\ UNCHANGED <<todo, ifp, stale, file_cnt, fps, out_buf, output>>
      /\ DOMAIN tmp = 0..file_cnt /\ file_cnt \in Nat /\ Family(tmp)
      /\ DOMAIN msa_arr = Threads /\ msa_arr[i] # << >>
  BY <1>1, SizeAssumption
     DEF WriteLine, LineInv, FilesInv, Busy, IInv, Ordered, Types, IsFirstMin
<1>3. Family(msa_arr)
  BY ArraysFamily DEF IInv, Ordered, Types
<1>4. first \in Line
  <2>1. msa_arr[i] \in Seq(Line)
    BY <1>2, <1>3 DEF Family
  <2> QED
    BY <1>2, <2>1
<1>5. file \in Seq(Line) /\ Append(file, first) \in Seq(Line)
  <2>1. file \in Seq(Line)
    BY <1>2 DEF Family
  <2> HIDE DEF file, first
  <2> QED
    BY <1>4, <2>1
<1>6. /\ DOMAIN tmp' = DOMAIN tmp /\ tmp'[file_cnt] = Append(file, first)
      /\ file_cnt \in DOMAIN tmp
      /\ \A n \in DOMAIN tmp : n # file_cnt => tmp'[n] = tmp[n]
  BY <1>1, <1>2
<1>7. Differ(tmp, tmp', file_cnt)
  <2>1. Family(tmp')
    BY <1>2, <1>5, <1>6 DEF Family
  <2> QED
    BY <1>2, <1>6, <2>1 DEF Differ
<1>8. Conserved'
  <2> SUFFICES ASSUME NEW line \in Line
               PROVE  InFlight(line)' = OccAll(line, TextOf(Files \ TooLong)) + Extra(line)'
    BY DEF Conserved
  <2>1. InFlight(line) = OccAll(line, TextOf(Files \ TooLong)) + Extra(line)
    BY <1>2 DEF LineInv, Conserved, Busy
  <2>2. OccAll(line, msa_arr') = OccAll(line, msa_arr) - Occ(line, <<first>>)
    BY <1>1, <1>2, <1>3, OccPopped
  <2>3. OccAll(line, tmp') = OccAll(line, tmp) - Occ(line, file) + Occ(line, Append(file, first))
    <3>1. OccAll(line, tmp') = OccAll(line, tmp) - Occ(line, tmp[file_cnt])
                                 + Occ(line, tmp'[file_cnt])
      BY <1>7, OccAllChange
    <3> QED
      BY <1>6, <3>1
  <2> HIDE DEF file, first
  <2>4. Occ(line, Append(file, first)) = Occ(line, file) + Occ(line, <<first>>)
    BY <1>4, <1>5, OccMoved
  <2>5. Occ(line, file) \in Nat /\ Occ(line, <<first>>) \in Nat
    <3>1. <<first>> \in Seq(Line)
      BY <1>4
    <3> QED
      BY <1>5, <3>1, OccType
  <2>6. /\ OccAll(line, msa_arr) \in Int /\ OccAll(line, tmp) \in Int
        /\ OccAll(line, TextOf(todo \ TooLong)) \in Int /\ Occ(line, ifp.rest) \in Int
    BY PartsAreNumbers DEF LineInv, IInv, Ordered
  <2>7. InFlight(line) = Occ(line, ifp.rest) + OccAll(line, TextOf(todo \ TooLong))
                           + OccAll(line, msa_arr) + OccAll(line, tmp)
    BY <1>2 DEF InFlight
  <2>8. InFlight(line)' = Occ(line, ifp.rest) + OccAll(line, TextOf(todo \ TooLong))
                            + OccAll(line, msa_arr') + OccAll(line, tmp')
    BY <1>2 DEF InFlight
  <2>9. Extra(line)' = Extra(line)
    BY <1>2 DEF Extra
  <2> QED
    BY <2>1, <2>2, <2>3, <2>4, <2>5, <2>6, <2>7, <2>8, <2>9
<1> QED
  BY <1>2, <1>6, <1>7, <1>8 DEF LineInv, InputInv, FilesInv, Busy, Differ

LEMMA LineCloseTmp ==
  ASSUME IInv, LineInv, CloseTmp
  PROVE  LineInv'
<1>1. /\ phase = "write" /\ phase' = (IF ifp.eof THEN "pick" ELSE "read")
      /\ file_cnt' = file_cnt + 1 /\ AllEmpty(msa_arr)
      /\ UNCHANGED <<todo, ifp, msa_arr, tmp, stale, fps, out_buf, output>>
      /\ pending' = (IF ifp.eof THEN {} ELSE Threads)
  BY DEF CloseTmp, NextFileNumber
<1>2. \A i \in Threads : msa_arr[i] = << >>
  BY <1>1 DEF AllEmpty, IInv, Ordered, Types
<1>3. InputInv'
  BY <1>1, <1>2 DEF LineInv, InputInv
<1>4. FilesInv'
  <2>1. DOMAIN tmp = 0..file_cnt /\ file_cnt \in Nat
    BY <1>1, SizeAssumption DEF LineInv, FilesInv, Busy, IInv, Ordered, Types
  <2>2. file_cnt' - 1 = file_cnt
    BY <1>1, <2>1
  <2> QED
    BY <1>1, <2>1, <2>2 DEF LineInv, FilesInv, Busy
<1>5. Conserved'
  BY <1>1 DEF LineInv, Conserved, InFlight, Extra, Busy
<1> QED
  BY <1>3, <1>4, <1>5 DEF LineInv

(* The files of the run and those an earlier one left are not the same.    *)
LEMMA OccAllDirectory ==
  ASSUME Family(tmp), Family(stale), DOMAIN tmp \cap DOMAIN stale = {}
  PROVE  /\ Family(Directory)
         /\ \A line \in Line :
              OccAll(line, Directory) = OccAll(line, tmp) + OccAll(line, stale)
<1> DEFINE S == DOMAIN tmp
           T == DOMAIN stale
<1>1. /\ DOMAIN Directory = S \cup T
      /\ \A n \in S : Directory[n] = tmp[n]
      /\ \A n \in T : Directory[n] = stale[n]
  BY DEF Directory
<1>2. Family(Directory)
  <2>1. IsFiniteSet(S \cup T)
    BY FS_Union DEF Family
  <2> QED
    BY <1>1, <2>1 DEF Family
<1>3. ASSUME NEW line \in Line
      PROVE  OccAll(line, Directory) = OccAll(line, tmp) + OccAll(line, stale)
  <2> DEFINE D == Counts(line, Directory)
             F == Counts(line, tmp)
             G == Counts(line, stale)
  <2>1. /\ IntOn(F, S) /\ OccAll(line, tmp) = SumFunctionOnSet(F, S)
        /\ IntOn(G, T) /\ OccAll(line, stale) = SumFunctionOnSet(G, T)
        /\ OccAll(line, Directory) = SumFunctionOnSet(D, S \cup T)
    BY <1>1, <1>2, CountsType
  <2>2. (\A n \in S : F[n] = D[n]) /\ (\A n \in T : G[n] = D[n])
    BY <1>1 DEF Counts
  <2> HIDE DEF D, F, G, S, T
  <2>3. /\ SumFunctionOnSet(F, S) = SumFunctionOnSet(D, S)
        /\ SumFunctionOnSet(G, T) = SumFunctionOnSet(D, T)
    BY <2>1, <2>2, SumSame
  <2>4. IntOn(D, S) /\ IntOn(D, T)
    BY <2>1, <2>2 DEF IntOn
  <2>5. S \cap T = {}
    BY DEF S, T
  <2>6. SumFunctionOnSet(D, S \cup T) = SumFunctionOnSet(D, S) + SumFunctionOnSet(D, T)
    BY <2>4, <2>5, SumUnion
  <2> QED
    BY <2>1, <2>3, <2>6
<1> QED
  BY <1>2, <1>3

(* No temporary file is left out of the last merge where the descriptors   *)
(* are enough for all.                                                     *)
LEMMA LineMergeSort ==
  ASSUME IInv, LineInv, merge_sort, MaxTmpFiles + 1 < OpenMax
  PROVE  LineInv'
<1>1. /\ phase = "pick" /\ phase' = "merge" /\ todo = {}
      /\ out_buf' = << >> /\ output' = << >>
      /\ UNCHANGED <<todo, ifp, msa_arr, tmp, stale, file_cnt>>
      /\ Family(tmp) /\ Family(stale) /\ DOMAIN tmp \cap DOMAIN stale = {}
  BY DEF merge_sort, LineInv, FilesInv, Busy, IInv, Ordered, Types
<1>2. PICK order \in SetToSeqs(DOMAIN Directory) :
        fps' = [k \in 1..Min({Len(order), OpenMax - 1}) |-> Directory[order[k]]]
  BY DEF merge_sort
<1> DEFINE n == Cardinality(DOMAIN Directory)
           m == Min({Len(order), OpenMax - 1})
<1>0. /\ Family(Directory) /\ DOMAIN Directory \subseteq 0..MaxTmpFiles
      /\ \A line \in Line : OccAll(line, Directory) = OccAll(line, tmp) + OccAll(line, stale)
  BY <1>1, DirectoryStored, OccAllDirectory DEF IInv
<1>3. n \in Nat /\ n <= MaxTmpFiles + 1
  <2>1. 0 \in Int /\ MaxTmpFiles \in Int /\ MaxTmpFiles >= 0
    BY SizeAssumption
  <2>2. IsFiniteSet(0..MaxTmpFiles) /\ Cardinality(0..MaxTmpFiles) = MaxTmpFiles - 0 + 1
    BY <2>1, FS_Interval
  <2>3. /\ IsFiniteSet(DOMAIN Directory) /\ Cardinality(DOMAIN Directory) \in Nat
        /\ Cardinality(DOMAIN Directory) <= Cardinality(0..MaxTmpFiles)
    BY <1>0, <2>2, FS_Subset, FS_CardinalityType
  <2> QED
    BY <2>1, <2>2, <2>3
<1>4. /\ order \in [1..n -> DOMAIN Directory]
      /\ \A j, k \in 1..n : j # k => order[j] # order[k]
  BY DEF SetToSeqs
<1> HIDE DEF n
<1>5. Len(order) = n
  BY <1>3, <1>4
<1>6. m = n
  <2>1. n \in Int /\ OpenMax - 1 \in Int /\ n <= OpenMax - 1
    BY <1>3, SizeAssumption
  <2>2. Min({n, OpenMax - 1}) = n
    BY <2>1 DEF Min
  <2> QED
    BY <1>5, <2>2
<1> HIDE DEF m
<1>7. DOMAIN fps' = 1..n /\ \A k \in 1..n : fps'[k] = Directory[order[k]]
  BY <1>2, <1>6 DEF m
<1>8. \A z \in DOMAIN Directory : \E k \in 1..n : order[k] = z
  <2>1. IsFiniteSet(1..n) /\ Cardinality(1..n) = n
    BY <1>3, FS_CountingElements, FS_Interval
  <2>2. IsFiniteSet(DOMAIN Directory) /\ Cardinality(DOMAIN Directory) = Cardinality(1..n)
    BY <1>0, <2>1 DEF Family, n
  <2>3. order \in Injection(1..n, DOMAIN Directory)
    BY <1>4 DEF Injection, IsInjective
  <2>4. order \in Surjection(1..n, DOMAIN Directory)
    BY <2>1, <2>2, <2>3, FS_Injection
  <2> QED
    BY <2>4 DEF Surjection
<1> DEFINE b == [z \in DOMAIN Directory |-> CHOOSE k \in 1..n : order[k] = z]
<1>9. \A z \in DOMAIN Directory : b[z] \in 1..n /\ order[b[z]] = z
  BY <1>8
<1> HIDE DEF b
<1>10. b \in Bijection(DOMAIN Directory, 1..n)
  <2>1. b \in [DOMAIN Directory -> 1..n]
    BY <1>9 DEF b
  <2>2. \A y, z \in DOMAIN Directory : b[y] = b[z] => y = z
    BY <1>9
  <2>3. ASSUME NEW k \in 1..n PROVE \E z \in DOMAIN Directory : b[z] = k
    <3>1. order[k] \in DOMAIN Directory
      BY <1>4
    <3>2. b[order[k]] \in 1..n /\ order[b[order[k]]] = order[k]
      BY <1>9, <3>1
    <3>3. b[order[k]] = k
      BY <1>4, <3>2
    <3> QED
      BY <3>1, <3>3
  <2> QED
    BY <2>1, <2>2, <2>3 DEF Bijection, Injection, Surjection, IsInjective
<1>11. Reordered(b, Directory, fps')
  BY <1>0, <1>7, <1>9, <1>10 DEF Reordered
<1>12. Family(fps') /\ \A line : OccAll(line, fps') = OccAll(line, Directory)
  BY <1>11, OccAllReordered
<1>13. FilesInv'
  BY <1>1, <1>12 DEF LineInv, FilesInv, Busy
<1>14. Conserved'
  <2> SUFFICES ASSUME NEW line \in Line
               PROVE  InFlight(line)' = OccAll(line, TextOf(Files \ TooLong)) + Extra(line)'
    BY DEF Conserved
  <2>1. InFlight(line) = OccAll(line, TextOf(Files \ TooLong)) + Extra(line)
    BY <1>1 DEF LineInv, Conserved, Busy
  <2>2. OccAll(line, tmp) \in Int /\ OccAll(line, stale) \in Int
    BY <1>1, CountsType
  <2> HIDE DEF b
  <2>3. InFlight(line) = Occ(line, ifp.rest) + OccAll(line, TextOf(todo \ TooLong))
                           + OccAll(line, msa_arr) + OccAll(line, tmp)
    BY <1>1 DEF InFlight
  <2>4. InFlight(line)' = Occ(line, ifp.rest) + OccAll(line, TextOf(todo \ TooLong))
                            + OccAll(line, msa_arr) + (0 + 0 + OccAll(line, Directory))
    BY <1>1, <1>12, OccEmpty DEF InFlight
  <2>5. ifp.piece = << >> /\ ifp.rest = << >>
    BY <1>1 DEF LineInv, InputInv
  <2>6. Extra(line) = 0 + 0 /\ Extra(line)' = 0 + OccAll(line, stale)
    BY <1>1, <2>5, OccEmpty DEF Extra
  <2>7. /\ OccAll(line, msa_arr) \in Int /\ OccAll(line, TextOf(todo \ TooLong)) \in Int
        /\ Occ(line, ifp.rest) \in Int
        /\ OccAll(line, TextOf(Files \ TooLong)) \in Int
    BY PartsAreNumbers, TextFamily, CountsType DEF LineInv, IInv, Ordered
  <2>8. OccAll(line, Directory) = OccAll(line, tmp) + OccAll(line, stale)
    BY <1>0
  <2> QED
    BY <2>1, <2>2, <2>3, <2>4, <2>6, <2>7, <2>8
<1> QED
  BY <1>1, <1>13, <1>14 DEF LineInv, InputInv

LEMMA LineMerge ==
  ASSUME IInv, LineInv, MergeLine
  PROVE  LineInv'
<1>1. PICK i \in DOMAIN fps :
        LET buf == Append(out_buf, Head(fps[i])) IN
        /\ IsFirstMin(fps, i) /\ fps' = Popped(fps, i)
        /\ out_buf' = IF Flushes(buf) THEN << >> ELSE buf
        /\ output' = IF Flushes(buf) THEN output \o buf ELSE output
  BY DEF MergeLine
<1> DEFINE first == Head(fps[i])
           buf == Append(out_buf, first)
<1>2. /\ phase = "merge" /\ phase' = "merge"
      /\ UNCHANGED <<todo, ifp, msa_arr, tmp, stale, file_cnt>>
      /\ output \in Seq(Line) /\ out_buf \in Seq(Line) /\ fps[i] # << >>
      /\ Family(fps)
  BY <1>1 DEF MergeLine, LineInv, FilesInv, IInv, Ordered, Types, IsFirstMin
<1>3. first \in Line /\ buf \in Seq(Line)
  <2>1. fps[i] \in Seq(Line)
    BY <1>2 DEF Family
  <2>2. Head(fps[i]) \in Line
    BY <1>2, <2>1
  <2> HIDE DEF first
  <2> QED
    BY <1>2, <2>2 DEF first
<1>4. Conserved'
  <2> SUFFICES ASSUME NEW line \in Line
               PROVE  InFlight(line)' = OccAll(line, TextOf(Files \ TooLong)) + Extra(line)'
    BY DEF Conserved
  <2>1. InFlight(line) = OccAll(line, TextOf(Files \ TooLong)) + Extra(line)
    BY <1>2 DEF LineInv, Conserved, Busy
  <2>2. OccAll(line, fps') = OccAll(line, fps) - Occ(line, <<first>>)
    BY <1>1, <1>2, OccPopped
  <2> HIDE DEF first
  <2>3. Occ(line, buf) = Occ(line, out_buf) + Occ(line, <<first>>)
    BY <1>2, <1>3, OccMoved
  <2>4. Occ(line, output \o buf) = Occ(line, output) + Occ(line, buf)
    BY <1>2, <1>3, OccConcat
  <2> HIDE DEF buf
  <2>5. Occ(line, out_buf') + Occ(line, output') = Occ(line, buf) + Occ(line, output)
    <3>1. Occ(line, buf) \in Nat /\ Occ(line, output) \in Nat
      BY <1>2, <1>3, OccType
    <3>2. CASE Flushes(buf)
      <4>1. out_buf' = << >> /\ output' = output \o buf
        BY <1>1, <3>2 DEF buf, first
      <4> QED
        BY <2>4, <3>1, <4>1, OccEmpty
    <3>3. CASE ~Flushes(buf)
      <4>1. out_buf' = buf /\ output' = output
        BY <1>1, <3>3 DEF buf, first
      <4> QED
        BY <4>1
    <3> QED
      BY <3>2, <3>3
  <2>6. /\ OccAll(line, msa_arr) \in Int /\ OccAll(line, fps) \in Int
        /\ OccAll(line, TextOf(todo \ TooLong)) \in Int /\ Occ(line, ifp.rest) \in Int
        /\ Occ(line, out_buf) \in Int /\ Occ(line, output) \in Int
    BY PartsAreNumbers DEF LineInv, IInv, Ordered
  <2>7. Occ(line, <<first>>) \in Nat
    <3>1. <<first>> \in Seq(Line)
      BY <1>3
    <3> QED
      BY <3>1, OccType
  <2>8. InFlight(line) = Occ(line, ifp.rest) + OccAll(line, TextOf(todo \ TooLong))
                           + OccAll(line, msa_arr)
                           + (Occ(line, out_buf) + Occ(line, output) + OccAll(line, fps))
    BY <1>2 DEF InFlight
  <2>9. InFlight(line)' = Occ(line, ifp.rest) + OccAll(line, TextOf(todo \ TooLong))
                            + OccAll(line, msa_arr)
                            + (Occ(line, out_buf') + Occ(line, output') + OccAll(line, fps'))
    BY <1>2 DEF InFlight
  <2>10. Extra(line)' = Extra(line)
    BY <1>2 DEF Extra
  <2> QED
    BY <2>1, <2>2, <2>3, <2>5, <2>6, <2>7, <2>8, <2>9, <2>10
<1>5. Family(fps')
  BY <1>1, <1>2, <1>3, OccPopped
<1> QED
  BY <1>2, <1>4, <1>5 DEF LineInv, InputInv, FilesInv, Busy

LEMMA LineFinish ==
  ASSUME IInv, LineInv, FinishMerge
  PROVE  LineInv'
<1>1. /\ phase = "merge" /\ phase' = "done"
      /\ UNCHANGED <<todo, ifp, msa_arr, tmp, stale, file_cnt, fps>>
      /\ output' = output \o out_buf /\ out_buf' = << >>
      /\ output \in Seq(Line) /\ out_buf \in Seq(Line)
  BY DEF FinishMerge, IInv, Ordered, Types
<1>2. Conserved'
  <2> SUFFICES ASSUME NEW line \in Line
               PROVE  InFlight(line)' = OccAll(line, TextOf(Files \ TooLong)) + Extra(line)'
    BY DEF Conserved
  <2>1. InFlight(line) = OccAll(line, TextOf(Files \ TooLong)) + Extra(line)
    BY <1>1 DEF LineInv, Conserved, Busy
  <2>2. Occ(line, output \o out_buf) = Occ(line, output) + Occ(line, out_buf)
    BY <1>1, OccConcat
  <2>3. Occ(line, output) \in Int /\ Occ(line, out_buf) \in Int
    BY PartsAreNumbers DEF LineInv, IInv, Ordered
  <2>4. Occ(line, out_buf') + Occ(line, output') = Occ(line, out_buf) + Occ(line, output)
    BY <1>1, <2>2, <2>3, OccEmpty
  <2> QED
    BY <1>1, <2>1, <2>4 DEF InFlight, Extra
<1> QED
  BY <1>1, <1>2 DEF LineInv, InputInv, FilesInv, Busy

(* The process is gone, and with it the lines it held. *)
LEMMA LineStops ==
  ASSUME IInv, LineInv, FailToOpen \/ FailToOpenOutput \/ Crash \/ Relaunch
  PROVE  LineInv'
<1>1. phase' \in {"failed", "no_output", "crashed", "start"}
  BY DEF FailToOpen, FailToOpenOutput, Crash, Relaunch
<1>2. CASE FailToOpen \/ FailToOpenOutput
  BY <1>2 DEF FailToOpen, FailToOpenOutput, LineInv, InputInv, FilesInv, Conserved, Busy
<1>3. CASE Crash \/ Relaunch
  <2>1. EmptyMemory
    BY <1>3 DEF Crash, Relaunch
  <2>2. InputInv'
    BY <1>1, <2>1 DEF EmptyMemory, InputInv, NoFile, NoBlocks
  <2>3. Family(fps')
    <3>1. DOMAIN fps' = {}
      BY <2>1 DEF EmptyMemory
    <3> QED
      BY <3>1, FS_EmptySet DEF Family
  <2>4. Family(tmp')
    <3>1. CASE tmp' = tmp
      BY <3>1 DEF LineInv, FilesInv
    <3>2. CASE Crash /\ phase = "write"
      <4>1. PICK t \in Beginnings(tmp[file_cnt]) : tmp' = [tmp EXCEPT ![file_cnt] = t]
        BY <3>2 DEF Crash
      <4>2. file_cnt \in DOMAIN tmp /\ Family(tmp)
        BY <3>2 DEF LineInv, FilesInv, IInv, Ordered, ChunkInv
      <4>3. tmp[file_cnt] \in Seq(Line)
        BY <4>2 DEF Family
      <4>4. t \in Seq(Line)
        BY <4>3, BeginningIsText
      <4> QED
        BY <4>1, <4>2, <4>4 DEF Family
    <3> QED
      BY <1>3, <3>1, <3>2 DEF Crash, Relaunch
  <2>5. stale' = stale
    BY <1>3 DEF Crash, Relaunch
  <2> QED
    BY <1>1, <2>2, <2>3, <2>4, <2>5 DEF LineInv, FilesInv, Conserved, Busy
<1> QED
  BY <1>2, <1>3

LEMMA LineStutters ==
  ASSUME LineInv, UNCHANGED vars
  PROVE  LineInv'
BY DEF LineInv, InputInv, FilesInv, Conserved, InFlight, Extra, vars

(* The descriptors suffice for every file that ./sort-tmp may hold, and    *)
(* the one that the directory stream holds.                                *)
EnoughDescriptors == MaxTmpFiles + 1 < OpenMax

LEMMA LineInvariant ==
  ASSUME EnoughDescriptors
  PROVE  Spec => []LineInv
<1>1. IInv /\ LineInv /\ [Next]_vars => LineInv'
  <2> SUFFICES ASSUME IInv, LineInv, [Next]_vars PROVE LineInv'
    OBVIOUS
  <2>1. CASE Begin \/ BeginUncleared
    BY <2>1, LineBegin
  <2>2. CASE \E f \in Files : SkipFile(f) \/ OpenFile(f)
    BY <2>2, LinePick
  <2>3. CASE do_one_file
    BY <2>3, LineReads, LineSort, LineOpenTmp, LineWrite, LineCloseTmp
       DEF do_one_file
  <2>4. CASE merge_sort \/ MergeLine \/ FinishMerge
    BY <2>4, LineMergeSort, LineMerge, LineFinish DEF EnoughDescriptors
  <2>5. CASE \E i \in Threads : ReadError(i)
    BY <2>5, LineReads
  <2>6. CASE FailToOpen \/ FailToOpenOutput \/ Crash \/ Relaunch
    BY <2>6, LineStops
  <2>7. CASE UNCHANGED vars
    BY <2>7, LineStutters
  <2> QED
    BY <2>1, <2>2, <2>3, <2>4, <2>5, <2>6, <2>7 DEF Next, main
<1> QED
  BY <1>1, LineInit, InductiveInvariant, PTL DEF Spec

(* No line is lost or doubled on its way through the blocks, the threads,  *)
(* the temporary files and the merge, for any number of files of any       *)
(* contents, any block and chunk sizes, failing reads, crashes and reruns, *)
(* as long as the descriptors suffice.                                     *)
THEOREM NoLineIsLost ==
  ASSUME EnoughDescriptors
  PROVE  Spec => []NoLineLost
<1>1. LineInv => NoLineLost
  <2>1. \A line \in Lines : line \in Line
    <3> SUFFICES ASSUME NEW f \in Files, NEW line \in ToSet(Text[f]) PROVE line \in Line
      BY DEF Lines
    <3>1. Text[f] \in Seq(Line)
      BY TextAssumption
    <3> QED
      BY <3>1 DEF ToSet
  <2> QED
    BY <2>1 DEF LineInv, Conserved, NoLineLost
<1> QED
  BY <1>1, LineInvariant, PTL

-----------------------------------------------------------------------------
(* Types and sizes.  What a block and the output buffer may hold needs     *)
(* more than the types that the order of the lines rests on.               *)
LEMMA BytesFacts ==
  /\ Bytes(<< >>) = 0
  /\ \A s \in Seq(Line) : Bytes(s) \in Nat
<1>1. Bytes(<< >>) = 0
  <2> DEFINE F == [k \in DOMAIN << >> |-> << >>[k] + 1]
  <2>1. DOMAIN F = {}
    OBVIOUS
  <2>2. Bytes(<< >>) = SumFunctionOnSet(F, DOMAIN F)
    BY DEF Bytes, SumFunction
  <2> HIDE DEF F
  <2> QED
    BY <2>1, <2>2, SumEmpty
<1>2. ASSUME NEW s \in Seq(Line) PROVE Bytes(s) \in Nat
  <2> DEFINE F == [k \in DOMAIN s |-> s[k] + 1]
  <2>1. DOMAIN F = 1..Len(s) /\ \A k \in 1..Len(s) : F[k] \in Nat
    BY DEF Line
  <2>2. Bytes(s) = SumFunctionOnSet(F, DOMAIN F)
    BY DEF Bytes, SumFunction
  <2>3. IsFiniteSet(1..Len(s))
    BY FS_Interval
  <2> HIDE DEF F
  <2> QED
    BY <2>1, <2>2, <2>3, SumNatural
<1> QED
  BY <1>1, <1>2

(* A block is full one line after the limit at the latest. *)
LEMMA BlockSize ==
  ASSUME NEW rest \in Seq(Line), NEW n \in 0..Len(rest), FirstToFill(rest, n)
  PROVE  Len(SubSeq(rest, 1, n)) <= LINE_CNT_MAX + 1
<1>1. n \in Nat /\ Len(rest) \in Nat /\ LINE_CNT_MAX \in Nat /\ Len(SubSeq(rest, 1, n)) = n
  BY SizeAssumption, OccSplit
<1>2. CASE n = 0
  BY <1>1, <1>2
<1>3. CASE n # 0
  <2>1. n - 1 \in 0..(n - 1) /\ n - 1 \in 0..Len(rest)
    BY <1>1, <1>3
  <2>2. ~BlockFull(SubSeq(rest, 1, n - 1)) /\ Len(SubSeq(rest, 1, n - 1)) = n - 1
    BY <2>1, OccSplit DEF FirstToFill
  <2>3. ~(n - 1 > LINE_CNT_MAX)
    BY <2>2 DEF BlockFull
  <2> QED
    BY <1>1, <2>3
<1> QED
  BY <1>2, <1>3

Blocks(arrays) == \A i \in Threads : Len(arrays[i]) <= LINE_CNT_MAX + 1

(* A read that fails does so in a block that is not full. *)
LEMMA CutShortSize ==
  ASSUME Types, NEW n \in 0..Len(ifp.rest), ReadsUntilError(ifp, n),
         NEW piece \in CutShort(ifp.rest, n)
  PROVE  First(n) \o piece \in Seq(Line) /\ Len(First(n) \o piece) <= LINE_CNT_MAX + 1
<1>1. First(n) \in Seq(Line) /\ Len(First(n)) \in Nat /\ LINE_CNT_MAX \in Nat
  BY ReadIsText, SizeAssumption
<1>2. piece \in Seq(Line) /\ Len(piece) \in 0..1 /\ First(n) \o piece \in Seq(Line)
  BY PieceIsText
<1>3. ~(Len(First(n)) > LINE_CNT_MAX)
  BY DEF ReadsUntilError, BlockFull, First
<1>4. Len(First(n) \o piece) = Len(First(n)) + Len(piece)
  BY <1>1, <1>2, ConcatProperties
<1>5. Len(First(n)) + Len(piece) <= LINE_CNT_MAX + 1
  <2> DEFINE whole == Len(First(n))
             cut == Len(piece)
  <2>1. whole \in Nat /\ cut \in 0..1 /\ LINE_CNT_MAX \in Nat /\ ~(whole > LINE_CNT_MAX)
    BY <1>1, <1>2, <1>3
  <2> HIDE DEF whole, cut
  <2>2. whole + cut <= LINE_CNT_MAX + 1
    BY <2>1
  <2> QED
    BY <2>2 DEF whole, cut
<1> QED
  BY <1>2, <1>4, <1>5, Zenon

LEMMA ReadFillsBlock ==
  ASSUME IInv, Blocks(msa_arr), NEW i \in Threads,
         single_read_block(i) \/ ReadError(i) \/ ReadNothing(i)
  PROVE  Blocks(msa_arr')
<1>1. Types /\ ifp.rest \in Seq(Line)
  BY DEF IInv, Ordered, Types, InputFile
<1>2. PICK block : ReadBlock(i, block) /\ Len(block) <= LINE_CNT_MAX + 1
  <2>1. CASE single_read_block(i)
    <3>1. PICK n \in 0..Len(ifp.rest) : ReadsBlock(ifp.rest, n) /\ ReadBlock(i, First(n))
      BY <2>1 DEF single_read_block
    <3>2. Len(SubSeq(ifp.rest, 1, n)) <= LINE_CNT_MAX + 1
      BY <1>1, <3>1, BlockSize DEF ReadsBlock
    <3> QED
      BY <3>1, <3>2 DEF First
  <2>2. CASE ReadError(i)
    <3>1. PICK n \in 0..Len(ifp.rest) :
            /\ ReadsUntilError(ifp, n)
            /\ \E piece \in CutShort(ifp.rest, n) : ReadBlock(i, First(n) \o piece)
      BY <2>2 DEF ReadError
    <3>2. PICK piece \in CutShort(ifp.rest, n) : ReadBlock(i, First(n) \o piece)
      BY <3>1
    <3>3. Len(First(n) \o piece) <= LINE_CNT_MAX + 1
      BY <1>1, <3>1, CutShortSize
    <3> QED
      BY <3>2, <3>3
  <2>3. CASE ReadNothing(i)
    <3>1. ReadBlock(i, << >>) /\ Len(<< >>) = 0 /\ 0 <= LINE_CNT_MAX + 1
      BY <2>3, SizeAssumption DEF ReadNothing
    <3> QED
      BY <3>1
  <2> QED
    BY <2>1, <2>2, <2>3
<1>3. msa_arr' = [msa_arr EXCEPT ![i] = block] /\ DOMAIN msa_arr = Threads
  BY <1>2 DEF ReadBlock, IInv, Ordered, Types
<1> HIDE DEF Threads
<1> QED
  BY <1>2, <1>3 DEF Blocks

LEMMA BlocksStayBounded ==
  ASSUME IInv, Blocks(msa_arr), Next
  PROVE  Blocks(msa_arr')
<1>1. /\ DOMAIN msa_arr = Threads /\ \A i \in Threads : msa_arr[i] \in Seq(Line)
      /\ LINE_CNT_MAX \in Nat
  BY SizeAssumption DEF IInv, Ordered, Types
<1>2. CASE \E i \in Threads : single_read_block(i) \/ ReadError(i) \/ ReadNothing(i)
  BY <1>2, ReadFillsBlock
<1>3. ASSUME NEW i \in Threads, sort_one_msa(i) PROVE Blocks(msa_arr')
  <2>1. PICK t \in [DOMAIN msa_arr[i] -> ToSet(msa_arr[i])] :
          SortsTo(msa_arr[i], t) /\ msa_arr' = [msa_arr EXCEPT ![i] = t]
    BY <1>3 DEF sort_one_msa
  <2>2. Len(t) = Len(msa_arr[i])
    BY <1>1, <2>1, OccSorted
  <2> QED
    BY <1>1, <2>1, <2>2 DEF Blocks
<1>4. CASE WriteLine
  <2>1. PICK i \in Threads : msa_arr[i] # << >> /\ msa_arr' = Popped(msa_arr, i)
    BY <1>4 DEF WriteLine, IsFirstMin
  <2>2. msa_arr' = [msa_arr EXCEPT ![i] = Tail(msa_arr[i])]
    BY <2>1 DEF Popped
  <2>3. Len(Tail(msa_arr[i])) = Len(msa_arr[i]) - 1 /\ Len(msa_arr[i]) \in Nat
    BY <1>1, <2>1, HeadTailProperties
  <2>4. Len(Tail(msa_arr[i])) <= LINE_CNT_MAX + 1
    BY <1>1, <2>3 DEF Blocks
  <2> QED
    BY <1>1, <2>2, <2>4 DEF Blocks
<1>5. CASE EmptyMemory
  BY <1>1, <1>5 DEF EmptyMemory, NoBlocks, Blocks
<1>6. CASE msa_arr' = msa_arr
  BY <1>6
<1> QED
  BY <1>2, <1>3, <1>4, <1>5, <1>6
     DEF Next, main, do_one_file, Begin, BeginUncleared, Starts, SkipFile, OpenFile,
         OpenTmp, CloseTmp, merge_sort, MergeLine, FinishMerge, FailToOpen, FailToOpenOutput, Crash, Relaunch

(* The buffer is written as soon as it holds what it may.                  *)
BufferSize == Bytes(out_buf) < MEMORY_SORT_SIZE

LEMMA BufferStaysBounded ==
  ASSUME IInv, BufferSize, Next
  PROVE  BufferSize'
<1>1. MEMORY_SORT_SIZE \in Nat /\ Bytes(<< >>) < MEMORY_SORT_SIZE
  BY SizeAssumption, BytesFacts
<1>2. CASE MergeLine
  <2>1. PICK i \in DOMAIN fps :
          LET buf == Append(out_buf, Head(fps[i])) IN
          /\ IsFirstMin(fps, i)
          /\ out_buf' = IF Flushes(buf) THEN << >> ELSE buf
    BY <1>2 DEF MergeLine
  <2> DEFINE buf == Append(out_buf, Head(fps[i]))
  <2>2. buf \in Seq(Line)
    <3>1. fps[i] # << >> /\ fps[i] \in Seq(Line)
      BY <2>1 DEF IsFirstMin, IInv, Stored
    <3>2. Head(fps[i]) \in Line
      BY <3>1
    <3>3. out_buf \in Seq(Line)
      BY DEF IInv, Ordered, Types
    <3> QED
      BY <3>2, <3>3
  <2>3. out_buf' = IF Flushes(buf) THEN << >> ELSE buf
    BY <2>1
  <2> HIDE DEF buf
  <2>4. Bytes(buf) \in Nat
    BY <2>2, BytesFacts
  <2> QED
    BY <1>1, <2>3, <2>4 DEF Flushes, BufferSize
<1>3. CASE out_buf' = << >> \/ out_buf' = out_buf
  BY <1>1, <1>3 DEF BufferSize
<1> QED
  BY <1>2, <1>3
     DEF Next, main, do_one_file, Begin, BeginUncleared, Starts, SkipFile, OpenFile, single_read_block, ReadNothing,
         ReadBlock, sort_one_msa, OpenTmp, WriteLine, CloseTmp, merge_sort, FinishMerge,
         ReadError, FailToOpen, FailToOpenOutput, Crash, Relaunch, EmptyMemory

LEMMA ControlStaysTyped ==
  ASSUME TypeOK, Next
  PROVE  /\ phase' \in Busy \cup Stopped \cup {"start"} /\ runs' \in 1..MaxRuns
         /\ pending' \subseteq Threads
<1>1. runs \in 1..MaxRuns /\ MaxRuns \in Nat /\ pending \subseteq Threads
  BY SizeAssumption DEF TypeOK
<1>2. phase' \in Busy \cup Stopped \cup {"start"}
  BY DEF TypeOK, Next, main, do_one_file, Begin, BeginUncleared, Starts, SkipFile, OpenFile, single_read_block,
         ReadNothing, ReadBlock, sort_one_msa, OpenTmp, WriteLine, CloseTmp, merge_sort,
         MergeLine, FinishMerge, ReadError, FailToOpen, FailToOpenOutput, Crash, Relaunch,
         Busy, Stopped
<1>3. pending' \subseteq Threads
  BY <1>1 DEF Next, main, do_one_file, Begin, BeginUncleared, Starts, SkipFile, OpenFile, single_read_block,
         ReadNothing, ReadBlock, sort_one_msa, OpenTmp, WriteLine, CloseTmp, merge_sort,
         MergeLine, FinishMerge, ReadError, FailToOpen, FailToOpenOutput, Crash, Relaunch,
         EmptyMemory
<1>4. runs' = runs \/ (runs < MaxRuns /\ runs' = runs + 1)
  BY DEF Next, main, do_one_file, Begin, BeginUncleared, Starts, SkipFile, OpenFile, single_read_block,
         ReadNothing, ReadBlock, sort_one_msa, OpenTmp, WriteLine, CloseTmp, merge_sort,
         MergeLine, FinishMerge, ReadError, FailToOpen, FailToOpenOutput, Crash, Relaunch
<1>5. runs' \in 1..MaxRuns
  BY <1>1, <1>4
<1> QED
  BY <1>2, <1>3, <1>5

(* Types and sizes hold of every reachable state, however few descriptors  *)
(* there are: no block has more lines than an array has room for and the   *)
(* output buffer is never left full.                                       *)
THEOREM SizesHold == Spec => []TypeOK
<1>1. Init => TypeOK
  <2> SUFFICES ASSUME Init PROVE TypeOK
    OBVIOUS
  <2>1. Types
    BY InitEstablishes DEF IInv, Ordered
  <2>2. Bytes(out_buf) < MEMORY_SORT_SIZE /\ LINE_CNT_MAX \in Nat /\ 1 \in 1..MaxRuns
    BY BytesFacts, SizeAssumption DEF Init
  <2>3. \A i \in Threads : Len(msa_arr[i]) = 0
    BY DEF Init, NoBlocks
  <2>4. /\ \A n \in DOMAIN Directory : n \in 0..MaxTmpFiles /\ Directory[n] \in Seq(Line)
        /\ \A k \in DOMAIN fps : fps[k] \in Seq(Line)
    BY InitEstablishes, DirectoryStored DEF IInv, Stored
  <2> QED
    BY <2>1, <2>2, <2>3, <2>4 DEF Init, TypeOK, Types, Stopped
<1>2. IInv /\ IInv' /\ TypeOK /\ [Next]_vars => TypeOK'
  <2> SUFFICES ASSUME IInv, IInv', TypeOK, [Next]_vars PROVE TypeOK'
    OBVIOUS
  <2>1. CASE Next
    <3>1. Types'
      BY DEF IInv, Ordered
    <3>2. Blocks(msa_arr')
      BY <2>1, BlocksStayBounded DEF TypeOK, Blocks
    <3>3. /\ (\A n \in DOMAIN Directory :
                 n \in 0..MaxTmpFiles /\ Directory[n] \in Seq(Line))'
          /\ (\A k \in DOMAIN fps : fps[k] \in Seq(Line))'
      <4>1. Stored'
        BY DEF IInv
      <4>2. Stored => \A n \in DOMAIN Directory :
                        n \in 0..MaxTmpFiles /\ Directory[n] \in Seq(Line)
        BY DirectoryStored
      <4>3. (\A n \in DOMAIN Directory :
                 n \in 0..MaxTmpFiles /\ Directory[n] \in Seq(Line))'
        BY <4>1 DEF Stored, Directory
      <4> QED
        BY <4>1, <4>3 DEF Stored
    <3>4. BufferSize'
      BY <2>1, BufferStaysBounded DEF TypeOK, BufferSize
    <3> QED
      BY <2>1, <3>1, <3>2, <3>3, <3>4, ControlStaysTyped
         DEF TypeOK, Types, Blocks, BufferSize
  <2>2. CASE UNCHANGED vars
    BY <2>2 DEF TypeOK, Directory, vars
  <2> QED
    BY <2>1, <2>2
<1> QED
  BY <1>1, <1>2, InductiveInvariant, PTL DEF Spec

-----------------------------------------------------------------------------
(* The specification counts and sorts with the same operators. *)
LEMMA SameOperators ==
  /\ \A S : Abstract!Cardinality(S) = Cardinality(S)
  /\ \A F : Abstract!SumFunction(F) = SumFunction(F)
  /\ \A s : Abstract!IsSorted(s, <=) <=> IsSorted(s, <=)
<1>1. \A S : Abstract!Cardinality(S) = Cardinality(S)
  BY Zenon DEF Abstract!Cardinality, Cardinality
<1>2. \A F : Abstract!SumFunction(F) = SumFunction(F)
  BY Zenon DEF Abstract!SumFunction, SumFunction, Abstract!SumFunctionOnSet, SumFunctionOnSet,
     Abstract!FoldFunctionOnSet, FoldFunctionOnSet, Abstract!MapThenFoldSet, MapThenFoldSet
<1>3. \A s : Abstract!IsSorted(s, <=) <=> IsSorted(s, <=)
  BY Zenon DEF Abstract!IsSorted, IsSorted
<1> QED
  BY <1>1, <1>2, <1>3

(* A merge that has taken every line has written the sorted merge of the   *)
(* readable files.                                                         *)
LEMMA FinishIsMerge ==
  ASSUME IInv, LineInv, FinishMerge, Cleared
  PROVE  Abstract!IsMerge(output')
<1> DEFINE out == output \o out_buf
           texts == TextOf(Files \ TooLong)
<1>1. /\ phase = "merge" /\ output' = out /\ todo = {} /\ AllEmpty(fps)
      /\ ifp.rest = << >> /\ \A i \in Threads : msa_arr[i] = << >>
      /\ output \in Seq(Line) /\ out_buf \in Seq(Line) /\ ifp.piece = << >>
  BY DEF FinishMerge, LineInv, InputInv, IInv, Ordered, Types
<1>2. Ascending(out)
  BY <1>1 DEF IInv, Ordered, MergeInv
<1>3. ASSUME NEW line \in Line PROVE Occ(line, out) = OccAll(line, texts)
  <2>1. InFlight(line) = OccAll(line, texts) + 0
    <3>1. InFlight(line) = OccAll(line, texts) + Extra(line)
      BY <1>1 DEF LineInv, Conserved, Busy
    <3>2. OccAll(line, stale) = 0
      BY OccAllEmpty DEF Cleared, LineInv, FilesInv, Family
    <3>3. Extra(line) = 0 + 0
      BY <1>1, <3>2, OccEmpty DEF Extra
    <3> HIDE DEF texts
    <3> QED
      BY <3>1, <3>3
  <2>2. OccAll(line, fps) = 0
    BY <1>1, OccAllEmpty DEF AllEmpty, LineInv, FilesInv, Family
  <2>3. OccAll(line, msa_arr) = 0
    <3>1. DOMAIN msa_arr = Threads /\ IsFiniteSet(Threads)
      BY SizeAssumption, FS_Interval DEF IInv, Ordered, Types, Threads
    <3> QED
      BY <1>1, <3>1, OccAllEmpty
  <2>4. OccAll(line, TextOf(todo \ TooLong)) = 0
    <3> DEFINE none == TextOf(todo \ TooLong)
    <3>1. DOMAIN none = {} /\ IsFiniteSet({})
      BY <1>1, FS_EmptySet DEF TextOf
    <3> HIDE DEF none
    <3> QED
      BY <3>1, OccAllEmpty DEF none
  <2>5. Occ(line, ifp.rest) = 0
    BY <1>1, OccEmpty
  <2>6. Occ(line, out) = Occ(line, output) + Occ(line, out_buf)
    BY <1>1, OccConcat
  <2>7. Occ(line, output) \in Nat /\ Occ(line, out_buf) \in Nat
    BY <1>1, OccType
  <2>8. InFlight(line) = 0 + 0 + 0 + (Occ(line, out_buf) + Occ(line, output) + 0)
    BY <1>1, <2>2, <2>3, <2>4, <2>5 DEF InFlight
  <2>9. OccAll(line, texts) \in Int
    BY CountsType, TextFamily
  <2> HIDE DEF out, texts
  <2> QED
    BY <2>1, <2>6, <2>7, <2>8, <2>9
<1>4. /\ \A line \in Abstract!LinesOf(out) : line \in Line
      /\ \A f \in DOMAIN texts : \A line \in Abstract!LinesOf(texts[f]) : line \in Line
  <2>1. out \in Seq(Line)
    BY <1>2 DEF Ascending
  <2>2. \A f \in DOMAIN texts : texts[f] \in Seq(Line)
    BY TextFamily DEF Family
  <2> HIDE DEF out, texts
  <2>3. ASSUME NEW s \in Seq(Line), NEW line \in Abstract!LinesOf(s) PROVE line \in Line
    BY DEF Abstract!LinesOf
  <2> QED
    BY <2>1, <2>2, <2>3
<1>5. \A line : Abstract!Occurrences(line, out) = Occ(line, out)
  BY SameOperators, Zenon DEF Abstract!Occurrences, Occ
<1>6. \A line : SumFunction([f \in DOMAIN texts |-> Abstract!Occurrences(line, texts[f])])
                  = OccAll(line, texts)
  <2> SUFFICES ASSUME NEW line
               PROVE  SumFunction([f \in DOMAIN texts |-> Abstract!Occurrences(line, texts[f])])
                        = SumFunction([f \in DOMAIN texts |-> Occ(line, texts[f])])
    BY DEF OccAll
  <2> HIDE DEF texts
  <2>1. \A s : Abstract!Occurrences(line, s) = Occ(line, s)
    BY SameOperators, Zenon DEF Abstract!Occurrences, Occ
  <2>2. [f \in DOMAIN texts |-> Abstract!Occurrences(line, texts[f])]
          = [f \in DOMAIN texts |-> Occ(line, texts[f])]
    BY <2>1, Zenon
  <2> QED
    BY <2>2, Zenon
<1> HIDE DEF out
<1>7. \A line \in Abstract!LinesOf(out)
                    \cup UNION {Abstract!LinesOf(texts[f]) : f \in DOMAIN texts} :
        Abstract!Occurrences(line, out)
          = SumFunction([f \in DOMAIN texts |-> Abstract!Occurrences(line, texts[f])])
  <2> HIDE DEF texts
  <2> SUFFICES ASSUME NEW line \in Abstract!LinesOf(out)
                          \cup UNION {Abstract!LinesOf(texts[f]) : f \in DOMAIN texts}
               PROVE  Abstract!Occurrences(line, out)
                        = SumFunction([f \in DOMAIN texts
                                         |-> Abstract!Occurrences(line, texts[f])])
    OBVIOUS
  <2>1. line \in Line
    BY <1>4
  <2>2. Occ(line, out) = OccAll(line, texts)
    BY <1>3, <2>1
  <2> QED
    BY <1>5, <1>6, <2>2, Zenon
<1>8. \A s : Abstract!SumFunction(s) = SumFunction(s)
  BY SameOperators
<1>9. Abstract!IsSorted(out, <=)
  BY <1>2, SameOperators, Zenon DEF Ascending
<1>10. Abstract!IsMerge(out)
  BY <1>7, <1>8, <1>9, Zenon DEF Abstract!IsMerge
<1> QED
  BY <1>1, <1>10

(* The sort implements Sorter: a step that finishes a run leaves the       *)
(* sorted merge of the readable files, whatever an earlier or a crashed    *)
(* run left behind, a relaunch begins anew, and every other step stutters. *)
THEOREM SortsAllLines ==
  ASSUME EnoughDescriptors
  PROVE  Spec => ImplementsSorter
<1>1. Init => Abstract!Init
  BY DEF Init, Abstract!Init, Finished
<1>2. IInv /\ LineInv /\ [Next]_vars => [Abstract!Next]_(Abstract!vars)
  <2> SUFFICES ASSUME IInv, LineInv, [Next]_vars PROVE [Abstract!Next]_(Abstract!vars)
    OBVIOUS
  <2>1. CASE FinishMerge
    <3>1. phase = "merge" /\ phase' = "done" /\ stale' = stale
      BY <2>1 DEF FinishMerge
    <3>2. CASE Cleared
      <4>1. Finished' /\ Abstract!IsMerge(output')
        BY <2>1, <3>1, <3>2, FinishIsMerge DEF Finished, Cleared
      <4> QED
        BY <4>1 DEF Abstract!Next, Abstract!Finish
    <3>3. CASE ~Cleared
      <4>1. Finished = FALSE /\ Finished' = FALSE
        BY <3>1, <3>3 DEF Finished, Cleared
      <4> QED
        BY <4>1, Zenon DEF Abstract!vars
    <3> QED
      BY <3>2, <3>3
  <2>2. CASE Relaunch
    <3>1. ~Finished'
      BY <2>2 DEF Relaunch, Finished
    <3> QED
      BY <3>1 DEF Abstract!Next, Abstract!Begin
  <2>3. CASE UNCHANGED vars
    BY <2>3 DEF vars, Abstract!vars, Finished, Cleared
  <2>4. CASE Next /\ ~FinishMerge /\ ~Relaunch
    <3>1. phase # "done" /\ phase' # "done"
      BY <2>4 DEF Next, main, do_one_file, Begin, BeginUncleared, Starts, SkipFile, OpenFile,
           single_read_block, ReadNothing, ReadBlock, sort_one_msa, OpenTmp, WriteLine,
           CloseTmp, merge_sort, MergeLine, ReadError, FailToOpen, FailToOpenOutput, Crash,
           Busy
    <3> QED
      BY <3>1 DEF Abstract!vars, Finished
  <2> QED
    BY <2>1, <2>2, <2>3, <2>4
<1> QED
  BY <1>1, <1>2, InductiveInvariant, LineInvariant, PTL DEF Spec, ImplementsSorter, Abstract!Spec
===============================================================================
