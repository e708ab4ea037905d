--------------------------- MODULE MemAlloc_proofs ---------------------------
(***************************************************************************)
(* Proofs about MemAlloc, for every pool size and every set of requests    *)
(* that satisfy its assumptions.                                           *)
(***************************************************************************)
EXTENDS MemAlloc, DataFacts

(* The header sizes are numbers to every proof below. *)
USE DEF ALIGN, ALLOC_HDR_SIZE, FREE_HDR_SIZE

-----------------------------------------------------------------------------
(* What Splice returns when it leaves one block in the place of the ones   *)
(* it replaces: the kept blocks around it, in their order.                 *)
LEMMA SpliceOne ==
  ASSUME NEW S, NEW list \in Seq(S), NEW b \in S,
         NEW lo \in Nat, NEW hi \in Nat,
         lo < hi, hi <= Len(list) + 1
  PROVE  LET s == Splice(list, lo, hi, <<b>>) IN
         /\ s \in Seq(S)
         /\ Len(s) = Len(list) + lo - hi + 2
         /\ \A i \in 1..Len(s) :
              s[i] = IF i <= lo THEN list[i]
                     ELSE IF i = lo + 1 THEN b
                     ELSE list[i - lo - 2 + hi]
<1> DEFINE pre == SubSeq(list, 1, lo)
           post == SubSeq(list, hi, Len(list))
<1>1. /\ pre \in Seq(S) /\ Len(pre) = lo
      /\ \A i \in 1..lo : pre[i] = list[i]
  OBVIOUS
<1>2. /\ post \in Seq(S) /\ Len(post) = Len(list) - hi + 1
      /\ \A i \in 1..(Len(list) - hi + 1) : post[i] = list[i + hi - 1]
  OBVIOUS
<1>3. /\ <<b>> \in Seq(S) /\ Len(<<b>>) = 1 /\ <<b>>[1] = b
  OBVIOUS
<1> HIDE DEF pre, post
<1>4. /\ pre \o <<b>> \in Seq(S) /\ Len(pre \o <<b>>) = lo + 1
      /\ \A i \in 1..(lo + 1) : (pre \o <<b>>)[i] = IF i <= lo THEN list[i] ELSE b
  BY <1>1, <1>3
<1> DEFINE front == pre \o <<b>>
           s == Splice(list, lo, hi, <<b>>)
<1>0. s = front \o post
  BY DEF Splice, pre, post
<1> HIDE DEF front
<1>5. front \in Seq(S) /\ Len(front) = lo + 1
  BY <1>4 DEF front
<1>6. /\ s \in Seq(S) /\ Len(s) = Len(front) + Len(post)
      /\ \A i \in 1..(Len(front) + Len(post)) :
           s[i] = IF i <= Len(front) THEN front[i] ELSE post[i - Len(front)]
  <2> DEFINE t == front \o post
  <2>1. /\ t \in Seq(S) /\ Len(t) = Len(front) + Len(post)
        /\ \A i \in 1..(Len(front) + Len(post)) :
             t[i] = IF i <= Len(front) THEN front[i] ELSE post[i - Len(front)]
    BY <1>2, <1>5, ConcatProperties
  <2> HIDE DEF t
  <2>2. s = t
    BY <1>0 DEF t
  <2> QED
    BY <2>1, <2>2
<1> HIDE DEF s
<1>7. Len(s) = Len(list) + lo - hi + 2
  BY <1>2, <1>5, <1>6
<1>8. ASSUME NEW i \in 1..Len(s)
      PROVE  s[i] = IF i <= lo THEN list[i]
                    ELSE IF i = lo + 1 THEN b ELSE list[i - lo - 2 + hi]
  <2>1. CASE i <= lo + 1
    BY <2>1, <1>4, <1>5, <1>6 DEF front
  <2>2. CASE i > lo + 1
    <3>1. i - Len(front) \in 1..(Len(list) - hi + 1)
      BY <2>2, <1>5, <1>7
    <3>2. s[i] = post[i - Len(front)]
      BY <2>2, <1>5, <1>6, <1>2
    <3> QED
      BY <3>1, <3>2, <2>2, <1>2, <1>5
  <2> QED
    BY <2>1, <2>2, <1>6, <1>5
<1> QED
  BY <1>6, <1>7, <1>8 DEF s

(* What Splice returns when it only removes blocks. *)
LEMMA SpliceNone ==
  ASSUME NEW list \in Seq(Block),
         NEW lo \in Nat, NEW hi \in Nat,
         lo < hi, hi <= Len(list) + 1
  PROVE  LET s == Splice(list, lo, hi, << >>) IN
         /\ s \in Seq(Block)
         /\ Len(s) = Len(list) + lo - hi + 1
         /\ \A i \in 1..Len(s) :
              s[i] = IF i <= lo THEN list[i] ELSE list[i - lo - 1 + hi]
<1> DEFINE pre == SubSeq(list, 1, lo)
           post == SubSeq(list, hi, Len(list))
<1>1. /\ pre \in Seq(Block) /\ Len(pre) = lo
      /\ \A i \in 1..lo : pre[i] = list[i]
  OBVIOUS
<1>2. /\ post \in Seq(Block) /\ Len(post) = Len(list) - hi + 1
      /\ \A i \in 1..(Len(list) - hi + 1) : post[i] = list[i + hi - 1]
  OBVIOUS
<1> HIDE DEF pre, post
<1> DEFINE s == Splice(list, lo, hi, << >>)
<1>0. s = pre \o post
  <2>1. pre \o << >> = pre
    BY <1>1, ConcatEmptySeq
  <2> QED
    BY <2>1 DEF Splice, pre, post
<1>3. /\ s \in Seq(Block) /\ Len(s) = Len(pre) + Len(post)
      /\ \A i \in 1..(Len(pre) + Len(post)) :
           s[i] = IF i <= Len(pre) THEN pre[i] ELSE post[i - Len(pre)]
  <2> DEFINE t == pre \o post
  <2>1. /\ t \in Seq(Block) /\ Len(t) = Len(pre) + Len(post)
        /\ \A i \in 1..(Len(pre) + Len(post)) :
             t[i] = IF i <= Len(pre) THEN pre[i] ELSE post[i - Len(pre)]
    BY <1>1, <1>2, ConcatProperties
  <2> HIDE DEF t
  <2>2. s = t
    BY <1>0 DEF t
  <2> QED
    BY <2>1, <2>2
<1> HIDE DEF s
<1>4. Len(s) = Len(list) + lo - hi + 1
  BY <1>1, <1>2, <1>3
<1>5. ASSUME NEW i \in 1..Len(s)
      PROVE  s[i] = IF i <= lo THEN list[i] ELSE list[i - lo - 1 + hi]
  <2>1. CASE i <= lo
    BY <2>1, <1>1, <1>3
  <2>2. CASE i > lo
    <3>1. i - Len(pre) \in 1..(Len(list) - hi + 1)
      BY <2>2, <1>1, <1>4
    <3>2. s[i] = post[i - Len(pre)]
      BY <2>2, <1>1, <1>2, <1>3
    <3>3. post[i - Len(pre)] = list[(i - Len(pre)) + hi - 1]
      BY <3>1, <1>2
    <3>4. (i - Len(pre)) + hi - 1 = i - lo - 1 + hi
      BY <1>1, <1>3
    <3> QED
      BY <3>2, <3>3, <3>4, <2>2
  <2> QED
    BY <2>1, <2>2, <1>1, <1>3
<1> QED
  BY <1>3, <1>4, <1>5 DEF s

(* A request takes a whole number of units: its header and at least its    *)
(* size.  This is where the requests must not wrap size_t.                 *)
LEMMA NeedProperties ==
  ASSUME NEW size \in Requests, size # 0
  PROVE  /\ Need(size) \in Nat
         /\ Need(size) % 64 = 0
         /\ Need(size) >= size + 64
         /\ Need(size) >= 128
<1>1. /\ size \in Nat /\ SizeLimit \in Nat
      /\ size + 64 < SizeLimit /\ size + 64 + 63 < SizeLimit
  BY RequestAssumption, PoolAssumption
<1>2. Need(size) = (size + 127) - ((size + 127) % 64)
  BY <1>1 DEF Need, align_up, Wrap
<1> QED
  BY <1>1, <1>2

-----------------------------------------------------------------------------
(* The inductive invariant.  Beyond the invariants of MemAlloc it says     *)
(* that every address and size is a multiple of 64 bytes, without which a  *)
(* payload could be misaligned or a tail too short to hold a header.       *)
Aligned(b) == b.addr % 64 = 0 /\ b.size % 64 = 0

GoodList(list) ==
  /\ list \in Seq(Block)
  /\ \A i \in 1..Len(list) :
       Aligned(list[i]) /\ Past(list[i]) <= RESERVED_MEMORY_SIZE
  /\ \A i, j \in 1..Len(list) : i < j => Past(list[i]) < list[j].addr

GoodLive ==
  /\ live \subseteq LiveBlock
  /\ \A b \in live : /\ Aligned(b)
                      /\ Past(b) <= RESERVED_MEMORY_SIZE
                      /\ b.size >= b.req
  /\ \A a, b \in live : a # b => Disjoint(a, b)

OffList(b, list) == \A i \in 1..Len(list) : Disjoint(b, list[i])

IInv ==
  /\ pool_base \in {NULL, 0}
  /\ slivers \in Nat
  /\ GoodList(free_list)
  /\ GoodLive
  /\ \A b \in live : OffList(b, free_list)
  /\ pool_base = NULL => free_list = << >> /\ live = {}

(* Block a lies inside block b. *)
Inside(a, b) == b.addr <= a.addr /\ Past(a) <= Past(b)

(* The pool as one free block is a good list, and a good list is what      *)
(* my_malloc always searches.                                              *)
LEMMA SearchedListGood ==
  ASSUME IInv
  PROVE  /\ GoodList(ListAfterInit)
         /\ \A b \in live : OffList(b, ListAfterInit)
<1>1. GoodList(WholePool)
  BY PoolAssumption DEF GoodList, WholePool, Block, Aligned, Past
<1> QED
  BY <1>1 DEF IInv, ListAfterInit, GoodList, OffList

LEMMA PastValue ==
  ASSUME NEW b, b.addr \in Nat, b.size \in Nat
  PROVE  Past(b) \in Nat /\ Past(b) = b.addr + 64 + b.size
BY DEF Past

(* What a good list says of its blocks, spelled out in their fields. *)
LEMMA GoodListFacts ==
  ASSUME NEW list, GoodList(list)
  PROVE  /\ list \in Seq(Block)
         /\ Len(list) \in Nat
         /\ RESERVED_MEMORY_SIZE \in Nat
         /\ \A p \in 1..Len(list) :
              /\ list[p] \in Block
              /\ list[p].addr \in Nat
              /\ list[p].size \in Nat
         /\ \A p \in 1..Len(list) :
              /\ list[p].addr % 64 = 0
              /\ list[p].size % 64 = 0
         /\ \A p \in 1..Len(list) :
              list[p].addr + 64 + list[p].size <= RESERVED_MEMORY_SIZE
         /\ \A p, q \in 1..Len(list) :
              p < q => list[p].addr + 64 + list[p].size < list[q].addr
<1>1. list \in Seq(Block) /\ Len(list) \in Nat /\ RESERVED_MEMORY_SIZE \in Nat
  BY PoolAssumption DEF GoodList
<1>2. ASSUME NEW p \in 1..Len(list)
      PROVE  list[p] \in Block /\ list[p].addr \in Nat /\ list[p].size \in Nat
  <2>1. list[p] \in Block
    BY <1>1
  <2> QED
    BY <2>1 DEF Block
<1>3. ASSUME NEW p \in 1..Len(list)
      PROVE  list[p].addr % 64 = 0 /\ list[p].size % 64 = 0
  BY DEF GoodList, Aligned
<1>4. ASSUME NEW p \in 1..Len(list)
      PROVE  list[p].addr + 64 + list[p].size <= RESERVED_MEMORY_SIZE
  BY DEF GoodList, Past
<1>5. ASSUME NEW p \in 1..Len(list), NEW q \in 1..Len(list), p < q
      PROVE  list[p].addr + 64 + list[p].size < list[q].addr
  BY <1>5 DEF GoodList, Past
<1> QED
  BY <1>1, <1>2, <1>3, <1>4, <1>5

(* s is the list without its block i. *)
IsUnlinked(s, list, i) ==
  /\ s \in Seq(Block) /\ Len(s) = Len(list) - 1
  /\ \A j \in 1..Len(s) : s[j] = IF j < i THEN list[j] ELSE list[j + 1]

LEMMA UnlinkOne ==
  ASSUME NEW list \in Seq(Block), NEW i \in 1..Len(list)
  PROVE  IsUnlinked(Splice(list, i - 1, i + 1, << >>), list, i)
<1> DEFINE lo == i - 1
           hi == i + 1
           s == Splice(list, lo, hi, << >>)
<1>1. /\ lo \in Nat /\ hi \in Nat /\ lo < hi /\ hi <= Len(list) + 1
      /\ Len(list) + lo - hi + 1 = Len(list) - 1
  OBVIOUS
<1>2. ASSUME NEW j \in Nat
      PROVE  j - lo - 1 + hi = j + 1 /\ (j <= lo <=> j < i)
  OBVIOUS
<1> HIDE DEF lo, hi
<1>3. /\ s \in Seq(Block) /\ Len(s) = Len(list) + lo - hi + 1
      /\ \A j \in 1..Len(s) :
           s[j] = IF j <= lo THEN list[j] ELSE list[j - lo - 1 + hi]
  BY <1>1, SpliceNone
<1> HIDE DEF s
<1>4. ASSUME NEW j \in 1..Len(s)
      PROVE  s[j] = IF j < i THEN list[j] ELSE list[j + 1]
  <2>1. /\ j \in Nat
        /\ s[j] = IF j <= lo THEN list[j] ELSE list[j - lo - 1 + hi]
    BY <1>1, <1>3
  <2>2. j - lo - 1 + hi = j + 1 /\ (j <= lo <=> j < i)
    BY <2>1, <1>2
  <2> QED
    BY <2>1, <2>2
<1>5. IsUnlinked(s, list, i)
  BY <1>1, <1>3, <1>4 DEF IsUnlinked
<1> QED
  BY <1>5 DEF s, lo, hi

(* `need' bytes can be taken from block i, the first that fits; b is the   *)
(* block they make.                                                        *)
CanTake(list, need, i, b) ==
  /\ GoodList(list)
  /\ need \in Nat /\ need % 64 = 0 /\ need >= 128
  /\ IsFirstFit(list, need, i)
  /\ b.addr = list[i].addr /\ b.size = need - 64

(* Taking `need' bytes from a block that fits leaves a good list, whose    *)
(* blocks lie inside those of the old one, and clear of the bytes taken,   *)
(* which lie inside a block of the old one.                                *)
LEMMA TakenGood ==
  ASSUME NEW list, NEW need, NEW i, NEW b, CanTake(list, need, i, b)
  PROVE  /\ GoodList(Taken(list, i, need))
         /\ OffList(b, Taken(list, i, need))
         /\ \A j \in 1..Len(Taken(list, i, need)) :
              \E m \in 1..Len(list) : Inside(Taken(list, i, need)[j], list[m])
         /\ Inside(b, list[i])
<1> DEFINE new == Taken(list, i, need)
           tail == SplitTail(list[i], need)
<1>0. /\ GoodList(list) /\ IsFirstFit(list, need, i)
      /\ need \in Nat /\ need >= 128
      /\ b.addr = list[i].addr /\ b.size = need - 64
  BY DEF CanTake
<1>0a. need % 64 = 0
  BY DEF CanTake
<1>1. /\ list \in Seq(Block) /\ Len(list) \in Nat /\ i \in 1..Len(list)
      /\ RESERVED_MEMORY_SIZE \in Nat
  BY <1>0, GoodListFacts DEF IsFirstFit
<1>2. \A p \in 1..Len(list) :
        /\ list[p] \in Block /\ list[p].addr \in Nat /\ list[p].size \in Nat
        /\ list[p].addr + 64 + list[p].size <= RESERVED_MEMORY_SIZE
  BY <1>0, GoodListFacts
<1>2a. \A p \in 1..Len(list) : list[p].addr % 64 = 0 /\ list[p].size % 64 = 0
  BY <1>0, GoodListFacts
<1>2b. b.addr \in Nat /\ b.size \in Nat
  BY <1>0, <1>1, <1>2
<1>3. \A p, q \in 1..Len(list) :
        p < q => list[p].addr + 64 + list[p].size < list[q].addr
  BY <1>0, GoodListFacts
<1>4. list[i].size + 64 >= need
  BY <1>0 DEF IsFirstFit, Fits
<1>5. Inside(b, list[i])
  <2>1. list[i].addr \in Nat /\ list[i].size \in Nat
    BY <1>1, <1>2
  <2> QED
    BY <2>1, <1>0, <1>4 DEF Inside, Past
<1>5a. Past(b) \in Nat /\ Past(b) <= list[i].addr + 64 + list[i].size
  <2>1. /\ list[i].addr \in Nat /\ list[i].size \in Nat
        /\ b.addr = list[i].addr /\ b.size = need - 64
    BY <1>0, <1>1, <1>2
  <2> QED
    BY <2>1, <1>0, <1>2b, <1>4 DEF Past
<1>6. CASE Splits(list[i], need)
  <2>1. new = Splice(list, i - 1, i + 1, <<tail>>)
    BY <1>6 DEF Taken
  <2>2. /\ tail.addr = list[i].addr + need
        /\ tail.size = list[i].size - need
        /\ tail.size >= 64
        /\ tail = [addr |-> tail.addr, size |-> tail.size]
    BY <1>0, <1>1, <1>2, <1>6 DEF SplitTail, Splits, Leftover
  <2> HIDE DEF new, tail
  <2>3. tail \in Block /\ tail.addr \in Nat /\ tail.size \in Nat
    <3>1. list[i].addr \in Nat /\ list[i].size \in Nat
      BY <1>1, <1>2
    <3>2. tail.addr \in Nat /\ tail.size \in Nat
      BY <3>1, <1>0, <2>2
    <3> QED
      BY <3>2, <2>2 DEF Block
  <2>4. Aligned(tail)
    <3>1. /\ list[i].addr \in Nat /\ list[i].size \in Nat
          /\ list[i].addr % 64 = 0 /\ list[i].size % 64 = 0
      BY <1>1, <1>2, <1>2a
    <3> QED
      BY <3>1, <1>0, <1>0a, <2>2 DEF Aligned
  <2>4a. /\ Past(tail) = Past(list[i]) /\ tail.addr > list[i].addr
         /\ Past(b) = tail.addr
    <3>1. /\ list[i].addr \in Nat /\ list[i].size \in Nat
          /\ b.addr = list[i].addr /\ b.size = need - 64
      BY <1>0, <1>1, <1>2
    <3> QED
      BY <3>1, <1>0, <2>2 DEF Past
  <2>5. /\ new \in Seq(Block) /\ Len(new) = Len(list)
        /\ \A j \in 1..Len(new) : new[j] = IF j = i THEN tail ELSE list[j]
    <3>1. /\ i - 1 \in Nat /\ i + 1 \in Nat
          /\ i - 1 < i + 1 /\ i + 1 <= Len(list) + 1
          /\ Len(list) + (i - 1) - (i + 1) + 2 = Len(list)
      BY <1>1
    <3>2. /\ new \in Seq(Block) /\ Len(new) = Len(list)
          /\ \A j \in 1..Len(new) :
               new[j] = IF j <= i - 1 THEN list[j]
                        ELSE IF j = (i - 1) + 1 THEN tail
                        ELSE list[j - (i - 1) - 2 + (i + 1)]
      <4> DEFINE lo == i - 1
                 hi == i + 1
      <4>1. /\ lo \in Nat /\ hi \in Nat /\ lo < hi /\ hi <= Len(list) + 1
            /\ Len(list) + lo - hi + 2 = Len(list)
        BY <3>1
      <4>2. list \in Seq(Block) /\ tail \in Block
        BY <1>1, <2>3
      <4>3. \A j : list[j - (i - 1) - 2 + (i + 1)] = list[j - lo - 2 + hi]
        OBVIOUS
      <4> DEFINE t == Splice(list, lo, hi, <<tail>>)
      <4>4. new = t
        BY <2>1
      <4> HIDE DEF lo, hi
      <4>5. /\ t \in Seq(Block) /\ Len(t) = Len(list) + lo - hi + 2
            /\ \A j \in 1..Len(t) :
                 t[j] = IF j <= lo THEN list[j]
                        ELSE IF j = lo + 1 THEN tail ELSE list[j - lo - 2 + hi]
        BY <4>1, <4>2, SpliceOne
      <4> QED
        BY <4>1, <4>3, <4>5, <4>4 DEF lo
    <3>3. ASSUME NEW j \in 1..Len(new)
          PROVE  new[j] = IF j = i THEN tail ELSE list[j]
      <4>1. j - (i - 1) - 2 + (i + 1) = j /\ (j <= i - 1 <=> j < i)
            /\ (i - 1) + 1 = i
        BY <3>2, <1>1
      <4>2. list[j - (i - 1) - 2 + (i + 1)] = list[j]
        BY <4>1
      <4>3. new[j] = IF j <= i - 1 THEN list[j] ELSE IF j = i THEN tail ELSE list[j]
        BY <3>2, <4>1, <4>2
      <4> QED
        BY <4>1, <4>3
    <3> QED
      BY <3>2, <3>3
  <2>6. GoodList(new)
    <3>1. ASSUME NEW p \in 1..Len(new)
          PROVE  Aligned(new[p]) /\ Past(new[p]) <= RESERVED_MEMORY_SIZE
      <4>1. CASE p = i
        <5>1. new[p] = tail /\ Past(tail) = Past(list[i])
          BY <4>1, <2>4a, <2>5
        <5>2. /\ list[i].addr \in Nat /\ list[i].size \in Nat
              /\ list[i].addr + 64 + list[i].size <= RESERVED_MEMORY_SIZE
          BY <1>1, <1>2
        <5>3. Past(list[i]) <= RESERVED_MEMORY_SIZE
          BY <5>2, PastValue
        <5> QED
          BY <5>1, <5>3, <2>4
      <4>2. CASE p # i
        <5>1. new[p] = list[p] /\ p \in 1..Len(list)
          BY <4>2, <2>5
        <5>2. /\ list[p].addr \in Nat /\ list[p].size \in Nat
              /\ list[p].addr + 64 + list[p].size <= RESERVED_MEMORY_SIZE
          BY <5>1, <1>2
        <5>3. Past(list[p]) <= RESERVED_MEMORY_SIZE
          BY <5>2, PastValue
        <5>4. Aligned(list[p])
          BY <5>1, <5>2, <1>2a DEF Aligned
        <5> QED
          BY <5>1, <5>3, <5>4
      <4> QED
        BY <4>1, <4>2
    <3>2. ASSUME NEW p \in 1..Len(new), NEW q \in 1..Len(new), p < q
          PROVE  Past(new[p]) < new[q].addr
      <4>1. /\ p \in 1..Len(list) /\ q \in 1..Len(list) /\ p < q
            /\ list[p].addr \in Nat /\ list[p].size \in Nat
            /\ list[q].addr \in Nat /\ list[q].size \in Nat
            /\ list[p].addr + 64 + list[p].size < list[q].addr
        BY <3>2, <2>5, <1>2, <1>3
      <4>2. Past(list[p]) < list[q].addr
        BY <4>1 DEF Past
      <4>3. Past(new[p]) = Past(list[p])
        BY <2>4a, <2>5
      <4>4. new[q].addr >= list[q].addr
        <5>1. CASE q = i
          BY <5>1, <4>1, <2>3, <2>4a, <2>5
        <5>2. CASE q # i
          BY <5>2, <4>1, <2>5
        <5> QED
          BY <5>1, <5>2
      <4>5. Past(list[p]) \in Nat /\ new[q].addr \in Nat
        <5>1. new[q] \in Block
          BY <2>5
        <5>2. new[q].addr \in Nat
          BY <5>1 DEF Block
        <5>3. Past(list[p]) \in Nat
          <6>1. list[p].addr \in Nat /\ list[p].size \in Nat
            BY <4>1
          <6> QED
            BY <6>1, PastValue
        <5> QED
          BY <5>2, <5>3
      <4>6. list[q].addr \in Nat
        BY <4>1
      <4> QED
        BY <4>2, <4>3, <4>4, <4>5, <4>6
    <3> QED
      BY <3>1, <3>2, <2>5 DEF GoodList
  <2>7. ASSUME NEW p \in 1..Len(new)
        PROVE  Disjoint(b, new[p])
    <3>1. /\ p \in 1..Len(list)
          /\ list[p].addr \in Nat /\ list[p].size \in Nat
          /\ list[i].addr \in Nat /\ list[i].size \in Nat
          /\ p < i => list[p].addr + 64 + list[p].size < list[i].addr
          /\ i < p => list[i].addr + 64 + list[i].size < list[p].addr
      BY <2>5, <1>1, <1>2, <1>3
    <3>2. CASE p = i
      <4>1. Past(b) <= new[p].addr
        BY <3>2, <2>3, <2>4a, <2>5
      <4> QED
        BY <4>1 DEF Disjoint
    <3>3. CASE p < i
      <4>1. new[p] = list[p] /\ b.addr = list[i].addr
        BY <3>1, <3>3, <2>5, <1>0, <1>1
      <4>2. list[p].addr + 64 + list[p].size <= list[i].addr
        BY SMTT(30), <3>1, <3>3
      <4>3. Past(list[p]) = list[p].addr + 64 + list[p].size
        BY <3>1, PastValue
      <4> QED
        BY <4>1, <4>2, <4>3 DEF Disjoint
    <3>4. CASE i < p
      <4>1. new[p] = list[p]
        BY <3>1, <3>4, <2>5, <1>1
      <4>2. Past(b) <= list[p].addr
        BY SMTT(30), <3>1, <3>4, <1>1, <1>5a
      <4> QED
        BY <4>1, <4>2 DEF Disjoint
    <3> QED
      BY <3>1, <3>2, <3>3, <3>4, <1>1
  <2>8. ASSUME NEW p \in 1..Len(new)
        PROVE  \E m \in 1..Len(list) : Inside(new[p], list[m])
    <3>1. Inside(new[p], list[p])
      <4>1. /\ p \in 1..Len(list)
            /\ list[p].addr \in Nat /\ list[p].size \in Nat
        BY <2>5, <1>2
      <4>2. CASE p = i
        <5>1. Past(new[p]) = Past(list[p]) /\ Past(list[p]) \in Nat
          BY <4>1, <4>2, <2>4a, <2>5 DEF Past
        <5>2. new[p].addr \in Nat /\ new[p].addr > list[p].addr
          BY <4>2, <2>3, <2>4a, <2>5
        <5> QED
          BY <5>1, <5>2, <4>1 DEF Inside
      <4>3. CASE p # i
        BY <4>1, <4>3, <2>5 DEF Inside, Past
      <4> QED
        BY <4>2, <4>3
    <3> QED
      BY <3>1, <2>5
  <2> QED
    BY <2>6, <2>7, <2>8, <1>5 DEF new, OffList
<1>7. CASE ~Splits(list[i], need)
  <2>1. new = Splice(list, i - 1, i + 1, << >>)
    BY <1>7 DEF Taken
  <2> HIDE DEF new
  <2>2. /\ new \in Seq(Block) /\ Len(new) = Len(list) - 1
        /\ \A j \in 1..Len(new) : new[j] = IF j < i THEN list[j] ELSE list[j + 1]
    <3>1. IsUnlinked(new, list, i)
      BY <2>1, <1>1, UnlinkOne
    <3> QED
      BY <3>1 DEF IsUnlinked
  <2> DEFINE old(p) == IF p < i THEN p ELSE p + 1
  <2>3. ASSUME NEW p \in 1..Len(new)
        PROVE  /\ old(p) \in 1..Len(list) /\ old(p) # i /\ new[p] = list[old(p)]
               /\ list[old(p)].addr \in Nat /\ list[old(p)].size \in Nat
    BY <2>2, <1>1, <1>2
  <2>4. GoodList(new)
    <3>1. ASSUME NEW p \in 1..Len(new)
          PROVE  Aligned(new[p]) /\ Past(new[p]) <= RESERVED_MEMORY_SIZE
      <4> DEFINE o == old(p)
      <4>1. o \in 1..Len(list) /\ new[p] = list[o]
        BY <2>3
      <4> HIDE DEF o
      <4> QED
        BY <4>1, <1>2, <1>2a DEF Aligned, Past
    <3>2. ASSUME NEW p \in 1..Len(new), NEW q \in 1..Len(new), p < q
          PROVE  Past(new[p]) < new[q].addr
      <4> DEFINE o == old(p)
                 r == old(q)
      <4>1. o < r
        BY <3>2, <2>2, <1>1
      <4>2. /\ o \in 1..Len(list) /\ new[p] = list[o]
            /\ r \in 1..Len(list) /\ new[q] = list[r]
        BY <2>3
      <4> HIDE DEF o, r
      <4> QED
        BY <4>1, <4>2, <1>3 DEF Past
    <3> QED
      BY <3>1, <3>2, <2>2 DEF GoodList
  <2>5. ASSUME NEW p \in 1..Len(new)
        PROVE  Disjoint(b, new[p])
    <3> DEFINE o == old(p)
    <3>1. /\ o \in 1..Len(list) /\ o # i /\ new[p] = list[o]
          /\ list[o].addr \in Nat /\ list[o].size \in Nat
      BY <2>3
    <3> HIDE DEF o
    <3>2. /\ list[i].addr \in Nat /\ list[i].size \in Nat
          /\ o < i => list[o].addr + 64 + list[o].size < list[i].addr
          /\ i < o => list[i].addr + 64 + list[i].size < list[o].addr
      BY <3>1, <1>1, <1>2, <1>3
    <3>3. CASE o < i
      <4>1. list[o].addr + 64 + list[o].size < list[i].addr
        BY <3>2, <3>3
      <4>2. Past(list[o]) = list[o].addr + 64 + list[o].size
        BY <3>1, PastValue
      <4>3. /\ b.addr = list[i].addr /\ list[i].addr \in Nat
            /\ list[o].addr \in Nat /\ list[o].size \in Nat
        BY <1>0, <3>1, <3>2
      <4>4. Past(list[o]) <= b.addr
        BY <4>1, <4>2, <4>3
      <4> QED
        BY <4>4, <3>1 DEF Disjoint
    <3>4. CASE i < o
      <4>1. Past(b) <= list[o].addr
        <5>1. /\ list[i].addr + 64 + list[i].size < list[o].addr
              /\ list[i].addr \in Nat /\ list[i].size \in Nat
              /\ list[o].addr \in Nat
          BY <3>1, <3>2, <3>4
        <5> QED
          BY SMTT(30), <5>1, <1>5a
      <4> QED
        BY <4>1, <3>1 DEF Disjoint
    <3> QED
      BY <3>1, <3>3, <3>4, <1>1
  <2>6. ASSUME NEW p \in 1..Len(new)
        PROVE  \E m \in 1..Len(list) : Inside(new[p], list[m])
    <3> DEFINE o == old(p)
    <3>1. /\ o \in 1..Len(list) /\ new[p] = list[o]
          /\ list[o].addr \in Nat /\ list[o].size \in Nat
      BY <2>3
    <3> HIDE DEF o
    <3>2. Inside(list[o], list[o])
      BY <3>1 DEF Inside, Past
    <3> QED
      BY <3>1, <3>2
  <2> QED
    BY <2>4, <2>5, <2>6, <1>5 DEF new, OffList
<1> QED
  BY <1>6, <1>7

(* Replacing blocks by one that lies strictly between those that stay      *)
(* leaves a good list of old blocks and the new one.                       *)
LEMMA SpliceGood ==
  ASSUME NEW list, GoodList(list),
         NEW lo \in Nat, NEW hi \in Nat, lo < hi, hi <= Len(list) + 1,
         NEW m \in Block, Aligned(m), Past(m) <= RESERVED_MEMORY_SIZE,
         \A p \in 1..Len(list) : p <= lo => Past(list[p]) < m.addr,
         \A p \in 1..Len(list) : p >= hi => Past(m) < list[p].addr
  PROVE  LET new == Splice(list, lo, hi, <<m>>) IN
         /\ GoodList(new)
         /\ \A j \in 1..Len(new) :
              new[j] = m \/ \E p \in 1..Len(list) : new[j] = list[p]
<1> DEFINE new == Splice(list, lo, hi, <<m>>)
           old(j) == IF j <= lo THEN j ELSE j - lo - 2 + hi
<1>1. list \in Seq(Block) /\ Len(list) \in Nat
  BY GoodListFacts
<1>2. /\ new \in Seq(Block)
      /\ Len(new) = Len(list) + lo - hi + 2
      /\ \A j \in 1..Len(new) :
           new[j] = IF j <= lo THEN list[j]
                    ELSE IF j = lo + 1 THEN m
                    ELSE list[j - lo - 2 + hi]
  BY <1>1, SpliceOne
<1> HIDE DEF new
<1>3. ASSUME NEW j \in 1..Len(new), j # lo + 1
      PROVE  /\ old(j) \in 1..Len(list) /\ new[j] = list[old(j)]
             /\ j <= lo => old(j) <= lo
             /\ j > lo => old(j) >= hi
  BY <1>1, <1>2, <1>3
<1>4. new[lo + 1] = m /\ lo + 1 \in 1..Len(new)
  BY <1>1, <1>2
<1>5. ASSUME NEW j \in 1..Len(new), NEW r \in 1..Len(new), j < r,
             j # lo + 1, r # lo + 1
      PROVE  old(j) < old(r)
  BY <1>1, <1>2, <1>5
<1>6. ASSUME NEW j \in 1..Len(new)
      PROVE  Aligned(new[j]) /\ Past(new[j]) <= RESERVED_MEMORY_SIZE
  <2>1. CASE j = lo + 1
    BY <2>1, <1>4
  <2>2. CASE j # lo + 1
    <3> DEFINE o == old(j)
    <3>1. o \in 1..Len(list) /\ new[j] = list[o]
      BY <2>2, <1>3
    <3> HIDE DEF o
    <3> QED
      BY <3>1 DEF GoodList
  <2> QED
    BY <2>1, <2>2
<1>7. ASSUME NEW j \in 1..Len(new), NEW r \in 1..Len(new), j < r
      PROVE  Past(new[j]) < new[r].addr
  <2> DEFINE o == old(j)
             q == old(r)
  <2>1. CASE j = lo + 1
    <3>1. q \in 1..Len(list) /\ new[r] = list[q] /\ q >= hi
      BY <2>1, <1>3, <1>7, <1>2
    <3> HIDE DEF q
    <3> QED
      BY <2>1, <3>1, <1>4
  <2>2. CASE r = lo + 1
    <3>1. o \in 1..Len(list) /\ new[j] = list[o] /\ o <= lo
      BY <2>2, <1>3, <1>7, <1>2
    <3> HIDE DEF o
    <3> QED
      BY <2>2, <3>1, <1>4
  <2>3. CASE j # lo + 1 /\ r # lo + 1
    <3>1. /\ o \in 1..Len(list) /\ new[j] = list[o]
          /\ q \in 1..Len(list) /\ new[r] = list[q]
      BY <2>3, <1>3
    <3>2. o < q
      BY <2>3, <1>5, <1>7
    <3> HIDE DEF o, q
    <3> QED
      BY <3>1, <3>2 DEF GoodList
  <2> QED
    BY <2>1, <2>2, <2>3
<1>8. GoodList(new)
  BY <1>2, <1>6, <1>7 DEF GoodList
<1>9. ASSUME NEW j \in 1..Len(new)
      PROVE  new[j] = m \/ \E p \in 1..Len(list) : new[j] = list[p]
  <2> DEFINE o == old(j)
  <2>1. CASE j = lo + 1
    BY <2>1, <1>4
  <2>2. CASE j # lo + 1
    <3>1. o \in 1..Len(list) /\ new[j] = list[o]
      BY <2>2, <1>3
    <3> HIDE DEF o
    <3> QED
      BY <3>1
  <2> QED
    BY <2>1, <2>2
<1> QED
  BY <1>8, <1>9 DEF new

(* A block absorbed into the one before it makes one block over both. *)
LEMMA AbsorbGood ==
  ASSUME NEW a \in Block, NEW b \in Block, Aligned(a), Aligned(b),
         Past(a) = b.addr
  PROVE  /\ Absorb(a, b) \in Block /\ Aligned(Absorb(a, b))
         /\ Absorb(a, b).addr = a.addr
         /\ Past(Absorb(a, b)) = Past(b)
         /\ \A c : /\ c.addr \in Nat /\ c.size \in Nat
                  /\ Disjoint(c, a) /\ Disjoint(c, b)
                  => Disjoint(c, Absorb(a, b))
<1> DEFINE m == Absorb(a, b)
<1>1. /\ a.addr \in Nat /\ a.size \in Nat /\ b.addr \in Nat /\ b.size \in Nat
      /\ b.addr = a.addr + 64 + a.size
  BY DEF Block, Past
<1>2. m.addr = a.addr /\ m.size = a.size + 64 + b.size
  BY DEF Absorb
<1>3. m \in Block
  BY <1>1 DEF Absorb, Block
<1> HIDE DEF m
<1>4. Past(m) = b.addr + 64 + b.size
  BY <1>1, <1>2 DEF Past
<1>5. Aligned(m)
  BY <1>1, <1>2 DEF Aligned
<1>6. ASSUME NEW c, c.addr \in Nat, c.size \in Nat, Disjoint(c, a), Disjoint(c, b)
      PROVE  Disjoint(c, m)
  BY <1>1, <1>2, <1>4, <1>6 DEF Disjoint, Past
<1> QED
  BY <1>1, <1>2, <1>3, <1>4, <1>5, <1>6 DEF m, Past

(* Freeing a block that is clear of the list keeps the list good, and what *)
(* is clear of the block and of the list stays clear of the list.          *)
LEMMA ReturnedGood ==
  ASSUME NEW list, GoodList(list),
         NEW blk \in Block, Aligned(blk), Past(blk) <= RESERVED_MEMORY_SIZE,
         OffList(blk, list),
         NEW k, IsInsertionPoint(list, blk, k)
  PROVE  /\ GoodList(Returned(list, blk, k))
         /\ \A c : /\ c.addr \in Nat /\ c.size \in Nat
                  /\ Disjoint(c, blk) /\ OffList(c, list)
                  => OffList(c, Returned(list, blk, k))
<1> DEFINE next == TouchesNext(list, blk, k)
           prev == TouchesPrev(list, blk, k)
           grown == IF next THEN Absorb(blk, list[k]) ELSE blk
           merged == IF prev THEN Absorb(list[k - 1], grown) ELSE grown
           lo == IF prev THEN k - 2 ELSE k - 1
           hi == IF next THEN k + 1 ELSE k
           Clear(c) == /\ c.addr \in Nat /\ c.size \in Nat
                       /\ Disjoint(c, blk) /\ OffList(c, list)
<1>1. /\ list \in Seq(Block) /\ Len(list) \in Nat
      /\ k \in 1..(Len(list) + 1)
      /\ \A p \in 1..Len(list) :
           /\ list[p] \in Block /\ Aligned(list[p])
           /\ list[p].addr \in Nat /\ Past(list[p]) \in Nat
           /\ Past(list[p]) > list[p].addr
           /\ Past(list[p]) <= RESERVED_MEMORY_SIZE
      /\ \A p, q \in 1..Len(list) : p < q => Past(list[p]) < list[q].addr
  <2>1. ASSUME NEW p \in 1..Len(list)
        PROVE  Past(list[p]) \in Nat /\ Past(list[p]) > list[p].addr
    <3>1. list[p].addr \in Nat /\ list[p].size \in Nat
      BY GoodListFacts
    <3> QED
      BY <3>1, PastValue
  <2> QED
    BY <2>1, GoodListFacts DEF GoodList, IsInsertionPoint
<1>2. /\ blk.addr \in Nat /\ blk.size \in Nat /\ Past(blk) \in Nat
      /\ Past(blk) > blk.addr
  BY PastValue DEF Block
<1>3. ASSUME NEW p \in 1..Len(list), p < k
      PROVE  Past(list[p]) <= blk.addr
  <2>1. list[p].addr < blk.addr /\ Disjoint(blk, list[p])
    BY <1>1, <1>3 DEF IsInsertionPoint, OffList
  <2> QED
    BY <2>1, <1>1, <1>2 DEF Disjoint
<1>4. ASSUME NEW p \in 1..Len(list), p >= k
      PROVE  Past(blk) <= list[p].addr
  <2>1. k \in 1..Len(list) /\ list[k].addr >= blk.addr
    BY <1>1, <1>4 DEF IsInsertionPoint
  <2>2. list[p].addr >= list[k].addr
    <3>1. CASE p = k
      BY <3>1, <1>1, <2>1
    <3>2. CASE p > k
      BY <3>2, <1>1, <2>1
    <3> QED
      BY <3>1, <3>2, <1>1, <1>4
  <2>3. Disjoint(blk, list[p])
    BY DEF OffList
  <2> QED
    BY <2>1, <2>2, <2>3, <1>1, <1>2 DEF Disjoint
<1>5. /\ grown \in Block /\ Aligned(grown) /\ grown.addr = blk.addr
      /\ Past(grown) = IF next THEN Past(list[k]) ELSE Past(blk)
      /\ \A c : Clear(c) => Disjoint(c, grown)
  <2>1. CASE next
    <3>1. k \in 1..Len(list) /\ Past(blk) = list[k].addr
      BY <2>1, <1>1 DEF TouchesNext
    <3>2. list[k] \in Block /\ Aligned(list[k])
      BY <3>1, <1>1
    <3>3. \A c : Clear(c) => Disjoint(c, list[k])
      BY <3>1 DEF OffList
    <3> QED
      BY <2>1, <3>1, <3>2, <3>3, AbsorbGood
  <2>2. CASE ~next
    BY <2>2
  <2> QED
    BY <2>1, <2>2
<1> HIDE DEF grown
<1>6. /\ merged \in Block /\ Aligned(merged) /\ Past(merged) = Past(grown)
      /\ merged.addr = IF prev THEN list[k - 1].addr ELSE blk.addr
      /\ \A c : Clear(c) => Disjoint(c, merged)
  <2>1. CASE prev
    <3>1. k - 1 \in 1..Len(list) /\ Past(list[k - 1]) = blk.addr
      BY <2>1, <1>1 DEF TouchesPrev
    <3>2. list[k - 1] \in Block /\ Aligned(list[k - 1])
      BY <3>1, <1>1
    <3>3. \A c : Clear(c) => Disjoint(c, list[k - 1])
      BY <3>1 DEF OffList
    <3> QED
      BY <2>1, <3>1, <3>2, <3>3, <1>5, AbsorbGood
  <2>2. CASE ~prev
    BY <2>2, <1>5
  <2> QED
    BY <2>1, <2>2
<1> HIDE DEF merged
<1>7. /\ lo \in Nat /\ hi \in Nat /\ lo < hi /\ hi <= Len(list) + 1
  BY <1>1 DEF TouchesPrev, TouchesNext
<1>8. ASSUME NEW p \in 1..Len(list), p <= lo
      PROVE  Past(list[p]) < merged.addr
  <2>1. CASE prev
    BY <2>1, <1>1, <1>6, <1>8 DEF TouchesPrev
  <2>2. CASE ~prev /\ p = k - 1
    <3>1. Past(list[p]) # blk.addr /\ Past(list[p]) <= blk.addr
      BY <2>2, <1>1, <1>3 DEF TouchesPrev
    <3> QED
      BY <3>1, <2>2, <1>1, <1>2, <1>6
  <2>3. CASE ~prev /\ p < k - 1
    <3>1. k - 1 \in 1..Len(list) /\ p < k - 1 /\ k - 1 < k
      BY <2>3, <1>1
    <3>2. /\ Past(list[p]) < list[k - 1].addr /\ Past(list[k - 1]) <= blk.addr
          /\ list[k - 1].addr < Past(list[k - 1])
          /\ list[k - 1].addr \in Nat /\ Past(list[p]) \in Nat /\ Past(list[k - 1]) \in Nat
      BY <3>1, <1>1, <1>3
    <3>3. merged.addr = blk.addr
      BY <2>3, <1>6
    <3> QED
      BY <3>2, <3>3, <1>2
  <2> QED
    BY <2>1, <2>2, <2>3, <1>1, <1>8
<1>9. ASSUME NEW p \in 1..Len(list), p >= hi
      PROVE  Past(merged) < list[p].addr
  <2>1. CASE next
    BY <2>1, <1>1, <1>5, <1>6, <1>9 DEF TouchesNext
  <2>2. CASE ~next /\ p = k
    <3>1. Past(blk) # list[p].addr /\ Past(blk) <= list[p].addr
      BY <2>2, <1>1, <1>4 DEF TouchesNext
    <3> QED
      BY SMTT(30), <3>1, <2>2, <1>1, <1>2, <1>5, <1>6
  <2>3. CASE ~next /\ p > k
    <3>1. k \in 1..Len(list) /\ k < p
      BY <2>3, <1>1
    <3>2. /\ Past(blk) <= list[k].addr /\ Past(list[k]) < list[p].addr
          /\ Past(list[k]) > list[k].addr
          /\ list[k].addr \in Nat /\ list[p].addr \in Nat /\ Past(list[k]) \in Nat
      BY <3>1, <1>1, <1>4
    <3>3. Past(merged) = Past(blk)
      BY <2>3, <1>5, <1>6
    <3> QED
      BY <3>2, <3>3, <1>2
  <2> QED
    BY <2>1, <2>2, <2>3, <1>1, <1>9
<1>10. Past(merged) <= RESERVED_MEMORY_SIZE
  <2>1. CASE next
    BY <2>1, <1>1, <1>5, <1>6 DEF TouchesNext
  <2>2. CASE ~next
    BY <2>2, <1>5, <1>6
  <2> QED
    BY <2>1, <2>2
<1>11. Returned(list, blk, k) = Splice(list, lo, hi, <<merged>>)
  BY DEF Returned, merged, grown
<1> DEFINE new == Splice(list, lo, hi, <<merged>>)
<1> HIDE DEF lo, hi
<1>12. /\ GoodList(new)
       /\ \A j \in 1..Len(new) :
            new[j] = merged \/ \E p \in 1..Len(list) : new[j] = list[p]
  BY <1>6, <1>7, <1>8, <1>9, <1>10, SpliceGood
<1> HIDE DEF new
<1>13. ASSUME NEW c, Clear(c)
       PROVE  OffList(c, new)
  BY <1>6, <1>12, <1>13 DEF OffList
<1> QED
  BY <1>11, <1>12, <1>13 DEF new

-----------------------------------------------------------------------------
(* my_malloc and my_free keep the inductive invariant. *)
LEMMA FirstFitKeepsIInv ==
  ASSUME IInv, NEW size \in Requests, MallocFirstFit(size)
  PROVE  IInv'
<1> DEFINE L == ListAfterInit
           need == Need(size)
<1>1. PICK i \in DOMAIN L :
        /\ IsFirstFit(L, need, i)
        /\ free_list' = Taken(L, i, need)
        /\ live' = live \cup
             {[addr |-> L[i].addr, size |-> need - ALLOC_HDR_SIZE, req |-> size]}
        /\ slivers' = IF Leftover(L[i], need) = ALIGN THEN slivers + 1 ELSE slivers
  BY DEF MallocFirstFit
<1> DEFINE b == [addr |-> L[i].addr, size |-> need - 64, req |-> size]
<1>2. /\ size \in Nat /\ size # 0
      /\ need \in Nat /\ need % 64 = 0 /\ need >= size + 64 /\ need >= 128
  BY NeedProperties, RequestAssumption DEF MallocFirstFit
<1>3. GoodList(L) /\ \A c \in live : OffList(c, L)
  BY SearchedListGood
<1> HIDE DEF L, need
<1>4. /\ i \in 1..Len(L) /\ L[i].addr \in Nat /\ L[i].size \in Nat
      /\ L[i].addr % 64 = 0
      /\ L[i].addr + 64 + L[i].size <= RESERVED_MEMORY_SIZE
      /\ RESERVED_MEMORY_SIZE \in Nat
  BY <1>1, <1>3, GoodListFacts DEF IsFirstFit
<1>5. b \in LiveBlock /\ b.addr = L[i].addr /\ b.size = need - 64 /\ b.req = size
  BY <1>2, <1>4 DEF LiveBlock
<1> HIDE DEF b
<1>6. /\ GoodList(free_list')
      /\ OffList(b, free_list')
      /\ \A j \in 1..Len(free_list') :
           \E m \in 1..Len(L) : Inside(free_list'[j], L[m])
      /\ Inside(b, L[i])
  <2>1. CanTake(L, need, i, b)
    BY <1>1, <1>2, <1>3, <1>5 DEF CanTake
  <2> QED
    BY <2>1, <1>1, TakenGood
<1>7. /\ Aligned(b) /\ Past(b) <= RESERVED_MEMORY_SIZE /\ b.size >= b.req
  <2>1. Past(b) <= Past(L[i]) /\ Past(L[i]) <= RESERVED_MEMORY_SIZE
    BY <1>3, <1>4, <1>6 DEF Inside, GoodList
  <2>2. Past(L[i]) \in Nat /\ Past(b) \in Nat
    <3>1. L[i].addr \in Nat /\ L[i].size \in Nat
      BY <1>4
    <3>2. b.addr \in Nat /\ b.size \in Nat
      BY <1>5 DEF LiveBlock
    <3> QED
      BY <3>1, <3>2, PastValue
  <2>3. Aligned(b)
    BY <1>2, <1>4, <1>5 DEF Aligned
  <2> QED
    BY <2>1, <2>2, <2>3, <1>2, <1>4, <1>5
<1>8. ASSUME NEW c \in live
      PROVE  Disjoint(b, c) /\ Disjoint(c, b) /\ OffList(c, free_list')
  <2>1. c.addr \in Nat /\ c.size \in Nat /\ Past(c) \in Nat
    BY PastValue DEF IInv, GoodLive, LiveBlock
  <2>2. Disjoint(c, L[i])
    BY <1>3, <1>4 DEF OffList
  <2>3. /\ Past(b) \in Nat /\ Past(L[i]) \in Nat
        /\ b.addr \in Nat
    BY SMTT(30), <1>2, <1>4, <1>5, PastValue
  <2>4. Disjoint(b, c) /\ Disjoint(c, b)
    BY SMTT(30), <2>1, <2>2, <2>3, <1>4, <1>6 DEF Disjoint, Inside
  <2>5. ASSUME NEW j \in 1..Len(free_list')
        PROVE  Disjoint(c, free_list'[j])
    <3>1. PICK m \in 1..Len(L) : Inside(free_list'[j], L[m])
      BY <1>6
    <3>2. /\ free_list'[j].addr \in Nat /\ free_list'[j].size \in Nat
          /\ L[m].addr \in Nat /\ L[m].size \in Nat
      BY <1>3, <1>6, GoodListFacts
    <3>3. Past(free_list'[j]) \in Nat /\ Past(L[m]) \in Nat
      BY <3>2, PastValue
    <3>4. Disjoint(c, L[m])
      BY <1>3 DEF OffList
    <3> QED
      BY SMTT(30), <2>1, <3>1, <3>2, <3>3, <3>4 DEF Disjoint, Inside
  <2> QED
    BY <2>4, <2>5 DEF OffList
<1>9. live' = live \cup {b}
  BY <1>1 DEF b
<1>10. GoodLive'
  <2>1. \A c \in live' : /\ c \in LiveBlock /\ Aligned(c)
                         /\ Past(c) <= RESERVED_MEMORY_SIZE /\ c.size >= c.req
    BY <1>5, <1>7, <1>9 DEF IInv, GoodLive
  <2>2. \A c, d \in live' : c # d => Disjoint(c, d)
    BY <1>8, <1>9 DEF IInv, GoodLive
  <2> QED
    BY <2>1, <2>2 DEF GoodLive, Aligned, Past, Disjoint
<1>11. \A c \in live' : OffList(c, free_list')
  BY <1>6, <1>8, <1>9
<1>12. slivers' \in Nat /\ pool_base' = 0
  BY <1>1 DEF IInv, MallocFirstFit
<1>13. 0 # NULL
  BY NullAssumption
<1> QED
  BY <1>6, <1>10, <1>11, <1>12, <1>13 DEF IInv, GoodList, OffList, Aligned, Past, Disjoint

LEMMA FreeKeepsIInv ==
  ASSUME IInv, NEW b \in live, my_free(b)
  PROVE  IInv'
<1> DEFINE blk == FreedBlock(b)
<1>1. PICK k \in 1..(Len(free_list) + 1) :
        /\ IsInsertionPoint(free_list, blk, k)
        /\ free_list' = Returned(free_list, blk, k)
  BY DEF my_free
<1>2. /\ b \in LiveBlock /\ b.addr \in Nat /\ b.size \in Nat
      /\ Aligned(b) /\ Past(b) <= RESERVED_MEMORY_SIZE /\ OffList(b, free_list)
  BY DEF IInv, GoodLive, LiveBlock
<1>3. blk = [addr |-> b.addr, size |-> b.size]
  BY <1>2 DEF FreedBlock
<1>4. blk \in Block /\ blk.addr = b.addr /\ blk.size = b.size
  BY <1>2, <1>3 DEF Block
<1> HIDE DEF blk
<1>5. /\ Aligned(blk) /\ Past(blk) <= RESERVED_MEMORY_SIZE
      /\ OffList(blk, free_list)
      /\ \A c : Disjoint(c, b) => Disjoint(c, blk)
  BY <1>2, <1>4 DEF Aligned, Past, OffList, Disjoint
<1>6. /\ GoodList(free_list')
      /\ \A c : /\ c.addr \in Nat /\ c.size \in Nat
               /\ Disjoint(c, blk) /\ OffList(c, free_list)
               => OffList(c, free_list')
  BY <1>1, <1>4, <1>5, ReturnedGood DEF IInv
<1>7. live' = live \ {b} /\ UNCHANGED <<pool_base, slivers>>
  BY DEF my_free
<1>8. ASSUME NEW c \in live'
      PROVE  OffList(c, free_list')
  <2>1. c \in live /\ c # b
    BY <1>7
  <2>2. /\ c.addr \in Nat /\ c.size \in Nat
        /\ Disjoint(c, b) /\ OffList(c, free_list)
    BY <2>1 DEF IInv, GoodLive, LiveBlock
  <2> QED
    BY <2>2, <1>5, <1>6
<1>9. GoodLive'
  BY <1>7 DEF IInv, GoodLive, Aligned, Past, Disjoint
<1>10. pool_base' # NULL
  BY <1>7 DEF IInv
<1> QED
  BY <1>6, <1>7, <1>8, <1>9, <1>10 DEF IInv, GoodList, OffList, Aligned, Past, Disjoint

(* A request that finds no block leaves the pool mapped and its list as it *)
(* was, or as pool_init has just made it.                                  *)
LEMMA OutOfMemoryKeepsIInv ==
  ASSUME IInv, NEW size \in Requests, MallocOutOfMemory(size)
  PROVE  IInv'
<1>1. /\ free_list' = ListAfterInit /\ live' = live /\ slivers' = slivers
      /\ pool_base' = 0
  BY DEF MallocOutOfMemory
<1>2. GoodList(ListAfterInit) /\ \A b \in live : OffList(b, ListAfterInit)
  BY SearchedListGood
<1> HIDE DEF ListAfterInit
<1>3. GoodList(free_list') /\ \A b \in live' : OffList(b, free_list')
  BY <1>1, <1>2
<1>4. GoodLive' /\ slivers' \in Nat /\ pool_base' # NULL
  BY <1>1, NullAssumption DEF IInv, GoodLive, Aligned, Past, Disjoint
<1> QED
  BY <1>1, <1>3, <1>4 DEF IInv, GoodList, OffList, Aligned, Past, Disjoint

LEMMA StutterKeepsIInv ==
  ASSUME IInv, UNCHANGED vars
  PROVE  IInv'
BY DEF IInv, vars, GoodList, GoodLive, OffList, Aligned, Past, Disjoint

(* The inductive invariant holds of every reachable state. *)
THEOREM InductiveInvariant == Spec => []IInv
<1>1. Init => IInv
  <2> SUFFICES ASSUME Init PROVE IInv
    OBVIOUS
  <2>1. GoodList(free_list)
    BY DEF Init, GoodList
  <2> QED
    BY <2>1 DEF Init, IInv, GoodLive
<1>2. IInv /\ [Next]_vars => IInv'
  <2> SUFFICES ASSUME IInv, [Next]_vars PROVE IInv'
    OBVIOUS
  <2>1. CASE MallocZero
    BY <2>1, StutterKeepsIInv DEF MallocZero
  <2>2. ASSUME NEW size \in Requests, my_malloc(size)
        PROVE  IInv'
    <3>1. CASE MallocMapFails(size)
      BY <3>1, StutterKeepsIInv DEF MallocMapFails
    <3>2. CASE MallocOutOfMemory(size)
      BY <3>2, OutOfMemoryKeepsIInv
    <3>3. CASE MallocFirstFit(size)
      BY <3>3, FirstFitKeepsIInv
    <3> QED
      BY <2>2, <3>1, <3>2, <3>3 DEF my_malloc
  <2>3. ASSUME NEW b \in live, my_free(b)
        PROVE  IInv'
    BY <2>3, FreeKeepsIInv
  <2>4. CASE UNCHANGED vars
    BY <2>4, StutterKeepsIInv
  <2> QED
    BY <2>1, <2>2, <2>3, <2>4 DEF Next
<1> QED
  BY <1>1, <1>2, PTL DEF Spec

(* What the inductive invariant says of a state, in MemAlloc's own terms.  *)
LEMMA InvariantsFromIInv ==
  ASSUME IInv
  PROVE  /\ TypeOK
         /\ FreeListCoalesced
         /\ LiveDisjoint /\ LiveOffFreeList
         /\ BlocksInPool
         /\ PayloadUsable
<1>1. DOMAIN free_list = 1..Len(free_list)
  BY DEF IInv, GoodList
<1>2. TypeOK
  BY DEF IInv, GoodList, GoodLive, TypeOK
<1>3. FreeListCoalesced
  BY <1>1 DEF IInv, GoodList, FreeListCoalesced
<1>4. LiveDisjoint /\ LiveOffFreeList
  BY <1>1 DEF IInv, GoodLive, OffList, LiveDisjoint, LiveOffFreeList
<1>5. BlocksInPool
  BY <1>1 DEF IInv, GoodList, GoodLive, BlocksInPool
<1>6. ASSUME NEW b \in live
      PROVE  (b.addr + ALLOC_HDR_SIZE) % ALIGN = 0 /\ b.size >= b.req
  <2>1. b.addr \in Nat /\ b.addr % 64 = 0 /\ b.size >= b.req
    BY DEF IInv, GoodLive, LiveBlock, Aligned
  <2> QED
    BY <2>1
<1> QED
  BY <1>2, <1>3, <1>4, <1>5, <1>6 DEF PayloadUsable

(* Every header and every entry of the free list is well formed.           *)
THEOREM TypeCorrect == Spec => []TypeOK
BY InductiveInvariant, InvariantsFromIInv, PTL

(* my_free leaves the list sorted, without two blocks that touch.          *)
THEOREM FreeListStaysCoalesced == Spec => []FreeListCoalesced
BY InductiveInvariant, InvariantsFromIInv, PTL

(* No two allocations share memory.                                        *)
THEOREM NoSharedMemory == Spec => []LiveDisjoint
BY InductiveInvariant, InvariantsFromIInv, PTL

(* The allocator stays inside the region it reserved.                      *)
THEOREM StaysInPool == Spec => []BlocksInPool
BY InductiveInvariant, InvariantsFromIInv, PTL

(* Every pointer is 64-byte aligned and has the bytes its caller asked for. *)
THEOREM PayloadsUsable == Spec => []PayloadUsable
BY InductiveInvariant, InvariantsFromIInv, PTL

(* No block a caller holds shares memory with the list stored in the pool. *)
THEOREM LiveStaysOffFreeList == Spec => []LiveOffFreeList
BY InductiveInvariant, InvariantsFromIInv, PTL

-----------------------------------------------------------------------------
LEMMA FreeUnitInBlock ==
  ASSUME NEW u \in FreeUnits
  PROVE  /\ u \in Nat
         /\ \E i \in DOMAIN free_list :
              free_list[i].addr <= u * 64 /\ u * 64 < Past(free_list[i])
<1>1. RESERVED_MEMORY_SIZE \div 64 \in Nat
  BY PoolAssumption
<1> QED
  BY <1>1 DEF FreeUnits

(* A run of free units lies in one block of the list: the unit after that  *)
(* block would be the first of another, and no two blocks touch.           *)
LEMMA RunInOneBlock ==
  ASSUME IInv, NEW u, NEW k \in Nat, k >= 1,
         u..(u + k - 1) \subseteq FreeUnits, u \in Nat
  PROVE  \E i \in DOMAIN free_list : free_list[i].size + 64 >= 64 * k
<1>1. GoodList(free_list)
  BY DEF IInv
<1>2. DOMAIN free_list = 1..Len(free_list)
  BY <1>1 DEF GoodList
<1>3. u \in FreeUnits
  OBVIOUS
<1>4. PICK i \in DOMAIN free_list :
        free_list[i].addr <= u * 64 /\ u * 64 < Past(free_list[i])
  BY <1>3, FreeUnitInBlock
<1> DEFINE end == free_list[i].addr + 64 + free_list[i].size
           e == end \div 64
<1>5. /\ end \in Nat /\ Past(free_list[i]) = end
      /\ free_list[i].addr \in Nat /\ free_list[i].size \in Nat
  BY <1>1, <1>2, GoodListFacts, PastValue
<1>6. end % 64 = 0
  <2>1. free_list[i].addr % 64 = 0 /\ free_list[i].size % 64 = 0
    BY <1>1, <1>2, GoodListFacts
  <2>2. \A a, b \in Nat : a % 64 = 0 /\ b % 64 = 0 => (a + 64 + b) % 64 = 0
    OBVIOUS
  <2> QED
    BY <1>5, <2>1, <2>2
<1>7. e \in Nat /\ end = e * 64
  BY <1>5, <1>6
<1> HIDE DEF e
<1>8. SUFFICES ASSUME free_list[i].size + 64 < 64 * k PROVE FALSE
  BY <1>5
<1>9. u < e /\ e < u + k
  <2>1. u * 64 < e * 64
    BY <1>4, <1>5, <1>7
  <2>2. e * 64 < u * 64 + 64 * k
    BY <1>4, <1>5, <1>7, <1>8
  <2> QED
    BY <1>7, <2>1, <2>2
<1>10. e \in FreeUnits
  BY <1>7, <1>9
<1>11. PICK j \in DOMAIN free_list :
         free_list[j].addr <= e * 64 /\ e * 64 < Past(free_list[j])
  BY <1>10, FreeUnitInBlock
<1>12. /\ free_list[j].addr \in Nat /\ free_list[j].size \in Nat
       /\ Past(free_list[j]) = free_list[j].addr + 64 + free_list[j].size
  BY <1>1, <1>2, GoodListFacts, PastValue
<1>13. CASE i < j
  <2>1. end < free_list[j].addr
    BY <1>1, <1>2, <1>13, GoodListFacts
  <2> QED
    BY <2>1, <1>5, <1>7, <1>11, <1>12
<1>14. CASE j < i
  <2>1. free_list[j].addr + 64 + free_list[j].size < free_list[i].addr
    BY <1>1, <1>2, <1>14, GoodListFacts
  <2> QED
    BY <2>1, <1>5, <1>7, <1>11, <1>12
<1>15. i # j
  BY <1>5, <1>7, <1>11
<1> QED
  BY <1>2, <1>13, <1>14, <1>15

LEMMA NoFalseOutOfMemory ==
  ASSUME IInv
  PROVE  OutOfMemoryIsReal
<1> SUFFICES ASSUME NEW size \in Requests \ {0}, NEW u \in FreeUnits,
                    u..(u + Need(size) \div ALIGN - 1) \subseteq FreeUnits
             PROVE  \E i \in DOMAIN free_list : Fits(free_list[i], Need(size))
  BY DEF OutOfMemoryIsReal
<1> DEFINE k == Need(size) \div 64
<1>1. Need(size) \in Nat /\ Need(size) % 64 = 0 /\ Need(size) >= 128
  BY NeedProperties
<1>2. k \in Nat /\ k >= 1 /\ Need(size) = 64 * k
  BY <1>1
<1>3. u \in Nat /\ u..(u + k - 1) \subseteq FreeUnits
  BY FreeUnitInBlock
<1> HIDE DEF k
<1>4. PICK i \in DOMAIN free_list : free_list[i].size + 64 >= 64 * k
  BY <1>2, <1>3, RunInOneBlock
<1> QED
  BY <1>2, <1>4 DEF Fits

(* my_malloc finds no block only where no run of free units, in however    *)
(* many pieces it was freed, is long enough.                               *)
THEOREM OutOfMemoryOnlyWhenReal == Spec => []OutOfMemoryIsReal
BY InductiveInvariant, NoFalseOutOfMemory, PTL

-----------------------------------------------------------------------------
(* Accounting.  A list of blocks takes the sum of its sequence of sizes.   *)
Weights(list) == [i \in DOMAIN list |-> Bytes(list[i])]

Space(list) == Total(Weights(list))

LEMMA WeightsType ==
  ASSUME NEW list \in Seq(Block)
  PROVE  /\ Weights(list) \in Seq(Int) /\ Len(Weights(list)) = Len(list)
         /\ \A i \in 1..Len(list) : Weights(list)[i] = Bytes(list[i])
         /\ Space(list) \in Int
<1>1. \A i \in 1..Len(list) : Bytes(list[i]) \in Int
  <2>1. \A b \in Block : Bytes(b) \in Int
    BY DEF Bytes, Block
  <2> QED
    BY <2>1
<1>2. Weights(list) \in Seq(Int) /\ Len(Weights(list)) = Len(list)
  BY <1>1 DEF Weights
<1> QED
  BY <1>2, TotalType DEF Space, Weights

LEMMA SpaceConcat ==
  ASSUME NEW l \in Seq(Block), NEW m \in Seq(Block)
  PROVE  Space(l \o m) = Space(l) + Space(m) /\ Space(l) \in Int /\ Space(m) \in Int
<1>1. l \o m \in Seq(Block)
  OBVIOUS
<1>2. Weights(l \o m) = Weights(l) \o Weights(m)
  <2> DEFINE u == Weights(l \o m)
             v == Weights(l)
             w == Weights(m)
             n == Len(l) + Len(m)
  <2>1. /\ u \in Seq(Int) /\ Len(u) = n
        /\ \A i \in 1..n : u[i] = Bytes((l \o m)[i])
    <3>1. Len(l \o m) = n
      OBVIOUS
    <3> QED
      BY <1>1, <3>1, WeightsType
  <2>2. /\ v \in Seq(Int) /\ Len(v) = Len(l) /\ \A i \in 1..Len(l) : v[i] = Bytes(l[i])
        /\ w \in Seq(Int) /\ Len(w) = Len(m) /\ \A i \in 1..Len(m) : w[i] = Bytes(m[i])
    BY WeightsType
  <2> HIDE DEF u, v, w
  <2>0. Len(l) \in Nat /\ Len(m) \in Nat
    OBVIOUS
  <2>3. v \o w \in Seq(Int) /\ Len(v \o w) = n
    <3>1. v \o w \in Seq(Int) /\ Len(v \o w) = Len(v) + Len(w)
      BY <2>2, ConcatProperties
    <3> QED
      BY <2>2, <3>1
  <2>4. ASSUME NEW i \in 1..n PROVE u[i] = (v \o w)[i]
    <3>1. CASE i <= Len(l)
      <4>1. (l \o m)[i] = l[i] /\ (v \o w)[i] = v[i] /\ i \in 1..Len(l)
        BY <2>2, <3>1
      <4> QED
        BY <2>1, <2>2, <4>1
    <3>2. CASE i > Len(l)
      <4>1. /\ (l \o m)[i] = m[i - Len(l)] /\ (v \o w)[i] = w[i - Len(l)]
            /\ i - Len(l) \in 1..Len(m)
        BY <2>2, <3>2
      <4> QED
        BY <2>1, <2>2, <4>1
    <3>3. i <= Len(l) \/ i > Len(l)
      BY <2>0
    <3> QED
      BY <3>1, <3>2, <3>3, Zenon
  <2>5. u = v \o w
    <3> DEFINE x == v \o w
    <3> HIDE DEF x
    <3>1. x \in Seq(Int) /\ Len(x) = n /\ \A i \in 1..n : u[i] = x[i]
      BY <2>3, <2>4 DEF x
    <3>2. u = x
      BY <2>0, <2>1, <3>1
    <3> QED
      BY <3>2 DEF x
  <2> QED
    BY <2>5 DEF u, v, w
<1>3. Total(Weights(l) \o Weights(m)) = Total(Weights(l)) + Total(Weights(m))
  BY WeightsType, TotalConcat
<1> QED
  BY <1>2, <1>3, WeightsType DEF Space

LEMMA SpaceSmall ==
  /\ Space(<< >>) = 0
  /\ \A b \in Block : Space(<<b>>) = Bytes(b)
<1>1. Weights(<< >>) = << >>
  BY DEF Weights
<1>2. ASSUME NEW b \in Block PROVE Space(<<b>>) = Bytes(b)
  <2>1. Weights(<<b>>) = <<Bytes(b)>> /\ Bytes(b) \in Int
    BY DEF Weights, Bytes, Block
  <2> QED
    BY <2>1, TotalSmall DEF Space
<1> QED
  BY <1>1, <1>2, TotalSmall DEF Space

(* Splice changes the sum by what goes and what comes. *)
LEMMA SpliceSpace ==
  ASSUME NEW list \in Seq(Block), NEW lo \in Nat, NEW hi \in Nat, NEW ins \in Seq(Block),
         lo < hi, hi <= Len(list) + 1
  PROVE  Space(Splice(list, lo, hi, ins))
           = Space(list) - Space(SubSeq(list, lo + 1, hi - 1)) + Space(ins)
<1> DEFINE pre == SubSeq(list, 1, lo)
           gap == SubSeq(list, lo + 1, hi - 1)
           post == SubSeq(list, hi, Len(list))
<1>1. pre \in Seq(Block) /\ gap \in Seq(Block) /\ post \in Seq(Block)
  OBVIOUS
<1>2. list = (pre \o gap) \o post
  <2>1. Len(pre) = lo /\ \A i \in 1..lo : pre[i] = list[i]
    OBVIOUS
  <2>2. Len(gap) = hi - 1 - lo /\ \A i \in 1..(hi - 1 - lo) : gap[i] = list[lo + i]
    BY SMTT(30)
  <2>3. /\ Len(post) = Len(list) - hi + 1
        /\ \A i \in 1..(Len(list) - hi + 1) : post[i] = list[hi - 1 + i]
    OBVIOUS
  <2> HIDE DEF pre, gap, post
  <2> DEFINE both == pre \o gap
  <2>4. /\ both \in Seq(Block) /\ Len(both) = hi - 1
        /\ \A i \in 1..(hi - 1) : both[i] = list[i]
    <3>1. ASSUME NEW i \in 1..(hi - 1), i > lo
          PROVE  i - lo \in 1..(hi - 1 - lo) /\ lo + (i - lo) = i
      BY <3>1
    <3>2. \A i \in 1..(hi - 1) : both[i] = IF i <= lo THEN pre[i] ELSE gap[i - lo]
      BY <1>1, <2>1, <2>2
    <3>3. both \in Seq(Block) /\ Len(both) = hi - 1
      <4>1. both \in Seq(Block) /\ Len(both) = Len(pre) + Len(gap)
        BY <1>1
      <4>2. lo + (hi - 1 - lo) = hi - 1
        OBVIOUS
      <4> HIDE DEF both
      <4> QED
        BY <2>1, <2>2, <4>1, <4>2
    <3> HIDE DEF both
    <3>4. ASSUME NEW i \in 1..(hi - 1) PROVE both[i] = list[i]
      <4>1. CASE i <= lo
        BY <4>1, <2>1, <3>2
      <4>2. CASE i > lo
        BY <4>2, <2>2, <3>1, <3>2
      <4> QED
        BY <4>1, <4>2
    <3> QED
      BY <3>3, <3>4
  <2> HIDE DEF both
  <2>5. both \o post = list
    <3> DEFINE all == both \o post
    <3>1. all \in Seq(Block) /\ Len(all) = Len(list)
      BY <1>1, <2>3, <2>4
    <3>2. \A i \in 1..Len(list) : all[i] = IF i <= hi - 1 THEN both[i] ELSE post[i - (hi - 1)]
      BY <1>1, <2>3, <2>4
    <3>3. ASSUME NEW i \in 1..Len(list), i > hi - 1
          PROVE  i - (hi - 1) \in 1..(Len(list) - hi + 1) /\ hi - 1 + (i - (hi - 1)) = i
      BY <3>3
    <3> HIDE DEF all
    <3>4. ASSUME NEW i \in 1..Len(list) PROVE all[i] = list[i]
      <4>1. CASE i <= hi - 1
        BY <4>1, <2>4, <3>2
      <4>2. CASE i > hi - 1
        BY <4>2, <2>3, <3>2, <3>3
      <4> QED
        BY <4>1, <4>2
    <3>5. all = list
      BY <3>1, <3>4
    <3> QED
      BY <3>5 DEF all
  <2> QED
    BY <2>5 DEF both
<1> HIDE DEF pre, gap, post
<1>3. Space(list) = Space(pre) + Space(gap) + Space(post)
  <2>1. pre \o gap \in Seq(Block)
    BY <1>1
  <2> QED
    BY <1>1, <1>2, <2>1, SpaceConcat
<1>4. Space(Splice(list, lo, hi, ins)) = Space(pre) + Space(ins) + Space(post)
  <2>1. pre \o ins \in Seq(Block) /\ Splice(list, lo, hi, ins) = (pre \o ins) \o post
    BY <1>1 DEF Splice, pre, post
  <2> QED
    BY <1>1, <2>1, SpaceConcat
<1>5. Space(pre) \in Int /\ Space(gap) \in Int /\ Space(post) \in Int /\ Space(ins) \in Int
  BY <1>1, WeightsType
<1>6. Space(Splice(list, lo, hi, ins)) = Space(list) - Space(gap) + Space(ins)
  BY <1>3, <1>4, <1>5
<1> QED
  BY <1>6 DEF gap

LEMMA BytesFacts ==
  /\ \A b \in Block : b.addr \in Nat /\ b.size \in Nat /\ Bytes(b) = b.size + 64 /\ Bytes(b) \in Int
  /\ \A a, b \in Block : Absorb(a, b) \in Block /\ Bytes(Absorb(a, b)) = Bytes(a) + Bytes(b)
  /\ \A a, n \in Nat : LET b == [addr |-> a, size |-> n] IN b \in Block /\ Bytes(b) = n + 64
<1>1. \A b \in Block : b.addr \in Nat /\ b.size \in Nat /\ Bytes(b) = b.size + 64 /\ Bytes(b) \in Int
  BY DEF Block, Bytes
<1>2. ASSUME NEW a \in Nat, NEW n \in Nat
      PROVE  [addr |-> a, size |-> n] \in Block /\ Bytes([addr |-> a, size |-> n]) = n + 64
  BY DEF Block, Bytes
<1>3. ASSUME NEW a \in Block, NEW b \in Block
      PROVE  Absorb(a, b) \in Block /\ Bytes(Absorb(a, b)) = Bytes(a) + Bytes(b)
  <2>1. a.addr \in Nat /\ a.size \in Nat /\ b.size \in Nat
    BY <1>1
  <2>2. a.size + 64 + b.size \in Nat
    BY <2>1
  <2>3. Absorb(a, b) = [addr |-> a.addr, size |-> a.size + 64 + b.size]
    BY DEF Absorb
  <2>4. Absorb(a, b) \in Block /\ Bytes(Absorb(a, b)) = (a.size + 64 + b.size) + 64
    BY <1>2, <2>1, <2>2, <2>3
  <2> QED
    BY <1>1, <2>1, <2>4
<1> QED
  BY <1>1, <1>2, <1>3

(* The blocks between two places that are next to each other, or but one   *)
(* or two apart.                                                           *)
LEMMA Gaps ==
  ASSUME NEW S, NEW s \in Seq(S), NEW k \in 1..(Len(s) + 1)
  PROVE  /\ SubSeq(s, k, k - 1) = << >>
         /\ k <= Len(s) => SubSeq(s, k, k) = <<s[k]>> /\ s[k] \in S
         /\ k > 1 => SubSeq(s, k - 1, k - 1) = <<s[k - 1]>> /\ s[k - 1] \in S
         /\ k > 1 /\ k <= Len(s) => SubSeq(s, k - 1, k) = <<s[k - 1]>> \o <<s[k]>>
<1>0. Len(s) \in Nat
  OBVIOUS
<1>1. SubSeq(s, k, k - 1) = << >>
  OBVIOUS
<1>2. ASSUME NEW j \in 1..Len(s) PROVE SubSeq(s, j, j) = <<s[j]>> /\ s[j] \in S
  <2> DEFINE t == SubSeq(s, j, j)
  <2>1. t \in Seq(S) /\ Len(t) = 1 /\ t[1] = s[j] /\ s[j] \in S
    OBVIOUS
  <2> HIDE DEF t
  <2>2. t = <<s[j]>>
    BY <2>1
  <2> QED
    BY <2>1, <2>2 DEF t
<1>3. ASSUME k > 1, k <= Len(s) PROVE SubSeq(s, k - 1, k) = <<s[k - 1]>> \o <<s[k]>>
  <2> DEFINE t == SubSeq(s, k - 1, k)
  <2>1. s[k - 1] \in S /\ s[k] \in S
    BY <1>3
  <2>2. t \in Seq(S) /\ Len(t) = 2 /\ t[1] = s[k - 1] /\ t[2] = s[k]
    BY <1>3
  <2> HIDE DEF t
  <2> DEFINE x == <<s[k - 1]>>
             y == <<s[k]>>
             u == x \o y
  <2>3. /\ x \in Seq(S) /\ Len(x) = 1 /\ x[1] = s[k - 1]
        /\ y \in Seq(S) /\ Len(y) = 1 /\ y[1] = s[k]
    BY <2>1
  <2> HIDE DEF x, y
  <2>4. u \in Seq(S) /\ Len(u) = 2 /\ u[1] = x[1] /\ u[2] = y[1]
    <3>1. /\ u \in Seq(S) /\ Len(u) = Len(x) + Len(y)
          /\ \A i \in 1..(Len(x) + Len(y)) :
               u[i] = IF i <= Len(x) THEN x[i] ELSE y[i - Len(x)]
      BY <2>3, ConcatProperties
    <3> HIDE DEF u
    <3> QED
      BY <2>3, <3>1
  <2> HIDE DEF u
  <2>5. t = u
    BY <2>2, <2>3, <2>4
  <2> QED
    BY <2>5 DEF t, u, x, y
<1> QED
  BY <1>0, <1>1, <1>2, <1>3

(* my_free: the list grows by the block that is returned. *)
LEMMA ReturnedSpace ==
  ASSUME NEW list \in Seq(Block), NEW blk \in Block, NEW k \in 1..(Len(list) + 1)
  PROVE  Space(Returned(list, blk, k)) = Space(list) + Bytes(blk)
<1> DEFINE next == TouchesNext(list, blk, k)
           prev == TouchesPrev(list, blk, k)
           grown == IF next THEN Absorb(blk, list[k]) ELSE blk
           merged == IF prev THEN Absorb(list[k - 1], grown) ELSE grown
           lo == IF prev THEN k - 2 ELSE k - 1
           hi == IF next THEN k + 1 ELSE k
           gap == SubSeq(list, lo + 1, hi - 1)
           gone == (IF prev THEN Bytes(list[k - 1]) ELSE 0)
                     + (IF next THEN Bytes(list[k]) ELSE 0)
<1>1. Returned(list, blk, k) = Splice(list, lo, hi, <<merged>>)
  BY DEF Returned
<1>2. (next => k \in 1..Len(list)) /\ (prev => k - 1 \in 1..Len(list))
  BY DEF TouchesNext, TouchesPrev
<1> HIDE DEF next, prev
<1>3. /\ next => list[k] \in Block
      /\ prev => list[k - 1] \in Block
      /\ \A b \in Block : Bytes(b) \in Int
  BY <1>2, BytesFacts
<1>4. grown \in Block /\ Bytes(grown) = Bytes(blk) + (IF next THEN Bytes(list[k]) ELSE 0)
  <2>1. CASE next
    BY <1>3, <2>1, BytesFacts
  <2>2. CASE ~next
    BY <1>3, <2>2
  <2> QED
    BY <2>1, <2>2
<1> HIDE DEF grown
<1>5. merged \in Block /\ Bytes(merged) = Bytes(blk) + gone
  <2>1. CASE prev
    <3>1. merged \in Block /\ Bytes(merged) = Bytes(list[k - 1]) + Bytes(grown)
      BY <1>3, <1>4, <2>1, BytesFacts
    <3> QED
      BY <1>3, <1>4, <2>1, <3>1
  <2>2. CASE ~prev
    BY <1>3, <1>4, <2>2
  <2> QED
    BY <2>1, <2>2
<1> HIDE DEF merged
<1>6. Space(gap) = gone
  <2>1. CASE next /\ prev
    <3>1. k > 1 /\ k <= Len(list) /\ lo + 1 = k - 1 /\ hi - 1 = k
      BY <1>2, <2>1
    <3>2. gap = <<list[k - 1]>> \o <<list[k]>>
      BY <3>1, Gaps
    <3>3. <<list[k - 1]>> \in Seq(Block) /\ <<list[k]>> \in Seq(Block)
      BY <1>3, <2>1
    <3> HIDE DEF gap, lo, hi
    <3> QED
      BY <1>3, <2>1, <3>2, <3>3, SpaceConcat, SpaceSmall
  <2>2. CASE next /\ ~prev
    <3>1. k <= Len(list) /\ lo + 1 = k /\ hi - 1 = k
      BY <1>2, <2>2
    <3>2. gap = <<list[k]>>
      BY <3>1, Gaps
    <3> HIDE DEF gap, lo, hi
    <3> QED
      BY <1>3, <2>2, <3>2, SpaceSmall
  <2>3. CASE ~next /\ prev
    <3>1. k > 1 /\ lo + 1 = k - 1 /\ hi - 1 = k - 1
      BY <1>2, <2>3
    <3>2. gap = <<list[k - 1]>>
      BY <3>1, Gaps
    <3> HIDE DEF gap, lo, hi
    <3> QED
      BY <1>3, <2>3, <3>2, SpaceSmall
  <2>4. CASE ~next /\ ~prev
    <3>1. lo + 1 = k /\ hi - 1 = k - 1
      BY <2>4
    <3>2. gap = << >>
      BY <3>1, Gaps
    <3> HIDE DEF gap, lo, hi
    <3> QED
      BY <2>4, <3>2, SpaceSmall
  <2> QED
    BY <2>1, <2>2, <2>3, <2>4
<1>7. lo \in Nat /\ hi \in Nat /\ lo < hi /\ hi <= Len(list) + 1
  BY <1>2
<1>8. <<merged>> \in Seq(Block) /\ Space(<<merged>>) = Bytes(merged)
  BY <1>5, SpaceSmall
<1> HIDE DEF lo, hi
<1>9. Space(Splice(list, lo, hi, <<merged>>)) = Space(list) - Space(gap) + Space(<<merged>>)
  BY <1>7, <1>8, SpliceSpace
<1>10. Space(list) \in Int /\ Bytes(blk) \in Int /\ gone \in Int
  BY <1>3, WeightsType
<1> HIDE DEF gap, gone
<1> QED
  BY <1>1, <1>5, <1>6, <1>8, <1>9, <1>10

(* my_malloc: the list shrinks by what is taken, and by a tail of 64 bytes *)
(* that is too short to become a free block.                               *)
LEMMA TakenSpace ==
  ASSUME NEW list, GoodList(list), NEW need \in Nat, need % 64 = 0, need >= 128,
         NEW i, IsFirstFit(list, need, i)
  PROVE  /\ Leftover(list[i], need) = 64 \/ Space(Taken(list, i, need)) = Space(list) - need
         /\ Leftover(list[i], need) = 64 => Space(Taken(list, i, need)) = Space(list) - need - 64
<1> DEFINE tail == SplitTail(list[i], need)
           left == Leftover(list[i], need)
           ins == IF Splits(list[i], need) THEN <<tail>> ELSE << >>
           gap == SubSeq(list, (i - 1) + 1, (i + 1) - 1)
<1>1. /\ list \in Seq(Block) /\ i \in 1..Len(list) /\ list[i] \in Block
      /\ list[i].addr \in Nat /\ list[i].size \in Nat /\ list[i].size % 64 = 0
  BY GoodListFacts DEF IsFirstFit
<1>2. left \in Nat /\ left % 64 = 0 /\ left = list[i].size + 64 - need
  <2>1. Fits(list[i], need)
    BY DEF IsFirstFit
  <2>2. left = list[i].size + 64 - need /\ list[i].size + 64 >= need
    BY <2>1 DEF Leftover, Fits
  <2> HIDE DEF left
  <2>3. \A a, b \in Nat : a % 64 = 0 /\ b % 64 = 0 /\ a + 64 >= b =>
          a + 64 - b \in Nat /\ (a + 64 - b) % 64 = 0
    OBVIOUS
  <2> QED
    BY <1>1, <2>2, <2>3
<1>3. Splits(list[i], need) <=> left >= 128
  BY DEF Splits
<1> HIDE DEF left
<1>4. gap = <<list[i]>> /\ Space(gap) = list[i].size + 64
  <2>1. gap = <<list[i]>>
    <3>1. (i - 1) + 1 = i /\ (i + 1) - 1 = i /\ i \in 1..(Len(list) + 1) /\ i <= Len(list)
      BY <1>1
    <3> QED
      BY <1>1, <3>1, Gaps
  <2>2. Bytes(list[i]) = list[i].size + 64
    BY <1>1, BytesFacts
  <2> QED
    BY <1>1, <2>1, <2>2, SpaceSmall
<1>5. ins \in Seq(Block) /\ Space(ins) = IF left >= 128 THEN left ELSE 0
  <2>1. CASE left >= 128
    <3>1. tail \in Block /\ Bytes(tail) = left
      <4>1. list[i].addr + need \in Nat /\ left - 64 \in Nat /\ (left - 64) + 64 = left
        BY SMTT(30), <1>1, <1>2, <2>1
      <4>2. tail = [addr |-> list[i].addr + need, size |-> left - 64]
        BY DEF SplitTail, left
      <4> QED
        BY <4>1, <4>2, BytesFacts
    <3>2. ins = <<tail>>
      BY <1>3, <2>1
    <3> HIDE DEF tail, ins
    <3> QED
      BY <2>1, <3>1, <3>2, SpaceSmall
  <2>2. CASE ~(left >= 128)
    BY <1>3, <2>2, SpaceSmall
  <2> QED
    BY <2>1, <2>2
<1> HIDE DEF ins, gap
<1>6. Space(Taken(list, i, need)) = Space(list) - Space(gap) + Space(ins)
  <2>1. /\ i - 1 \in Nat /\ i + 1 \in Nat /\ i - 1 < i + 1 /\ i + 1 <= Len(list) + 1
    BY <1>1
  <2> QED
    BY ZenonT(30), <1>1, <1>5, <2>1, SpliceSpace DEF Taken, ins, gap, tail
<1>7. left < 128 => left = 0 \/ left = 64
  BY <1>2
<1>8. Space(list) \in Int
  BY <1>1, WeightsType
<1>9. \/ left # 64 /\ Space(Taken(list, i, need)) = Space(list) - need
      \/ left = 64 /\ Space(Taken(list, i, need)) = Space(list) - need - 64
  <2>1. Space(gap) = left + need /\ left \in Nat
    BY <1>1, <1>2, <1>4
  <2>2. Space(ins) = IF left >= 128 THEN left ELSE 0
    BY <1>5
  <2>3. CASE left = 64
    BY <1>6, <1>8, <2>1, <2>2, <2>3
  <2>4. CASE left = 0 \/ left >= 128
    BY <1>6, <1>8, <2>1, <2>2, <2>4
  <2> QED
    BY <1>7, <2>1, <2>3, <2>4
<1> QED
  BY <1>9 DEF left

(* What the callers hold is finite, and with the free list and the unused  *)
(* tails it is the pool.                                                   *)
HeldSpace(blocks) == SumFunctionOnSet([b \in blocks |-> Bytes(b)], blocks)

Accounts ==
  /\ IsFiniteSet(live)
  /\ pool_base # NULL => Space(free_list) + HeldSpace(live) + 64 * slivers = RESERVED_MEMORY_SIZE
  /\ pool_base = NULL => slivers = 0

LEMMA NothingTakenYet == Init => Accounts
BY FS_EmptySet DEF Init, Accounts

LEMMA HeldChanges ==
  ASSUME NEW blocks, IsFiniteSet(blocks), \A b \in blocks : Bytes(b) \in Int,
         NEW x, x \notin blocks, Bytes(x) \in Int
  PROVE  /\ IsFiniteSet(blocks \cup {x})
         /\ HeldSpace(blocks) \in Int
         /\ HeldSpace(blocks \cup {x}) = HeldSpace(blocks) + Bytes(x)
<1> DEFINE F == [b \in blocks |-> Bytes(b)]
           more == blocks \cup {x}
           G == [b \in more |-> Bytes(b)]
<1>0. IsFiniteSet(blocks \cup {x})
  BY FS_AddElement
<1>1. IsFiniteSet(more)
  BY <1>0
<1>2. IntOn(F, blocks) /\ IntOn(G, more) /\ IntOn(G, blocks)
  BY <1>1 DEF IntOn
<1>3. /\ \A b \in blocks : F[b] = G[b]
      /\ x \in more /\ G[x] = Bytes(x) /\ more \ {x} = blocks
  OBVIOUS
<1> HIDE DEF F, G, more
<1>4. SumFunctionOnSet(G, more) = G[x] + SumFunctionOnSet(G, more \ {x})
  BY <1>2, <1>3, SumRemove
<1>5. SumFunctionOnSet(F, blocks) = SumFunctionOnSet(G, blocks)
  BY <1>2, <1>3, SumSame
<1>6. SumFunctionOnSet(F, blocks) \in Int
  BY <1>2, SumType
<1>7. HeldSpace(blocks) = SumFunctionOnSet(F, blocks)
  BY DEF HeldSpace, F
<1>8. HeldSpace(blocks \cup {x}) = SumFunctionOnSet(G, more)
  BY DEF HeldSpace, G, more
<1> QED
  <2>1. SumFunctionOnSet(G, more) = Bytes(x) + SumFunctionOnSet(F, blocks)
    BY <1>3, <1>4, <1>5, Zenon
  <2>2. Bytes(x) + SumFunctionOnSet(F, blocks) = SumFunctionOnSet(F, blocks) + Bytes(x)
    BY <1>6
  <2>3. HeldSpace(blocks \cup {x}) = HeldSpace(blocks) + Bytes(x)
    BY <1>7, <1>8, <2>1, <2>2, Zenon
  <2> QED
    BY <1>0, <1>6, <1>7, <2>3, Zenon

(* The list that my_malloc searches holds what is not held. *)
LEMMA SearchedSpace ==
  ASSUME IInv, Accounts
  PROVE  Space(ListAfterInit) + HeldSpace(live) + 64 * slivers = RESERVED_MEMORY_SIZE
<1>1. CASE pool_base = NULL
  <2>1. RESERVED_MEMORY_SIZE - 64 \in Nat /\ 0 \in Nat
    BY PoolAssumption
  <2> DEFINE b == [addr |-> 0, size |-> RESERVED_MEMORY_SIZE - 64]
  <2>2. b \in Block /\ Bytes(b) = RESERVED_MEMORY_SIZE
    BY <2>1, BytesFacts, PoolAssumption
  <2>3. ListAfterInit = <<b>>
    BY <1>1 DEF ListAfterInit, WholePool
  <2> HIDE DEF b
  <2>4. Space(ListAfterInit) = RESERVED_MEMORY_SIZE
    BY <2>2, <2>3, SpaceSmall
  <2>5. HeldSpace(live) = 0 /\ slivers = 0
    <3>1. live = {} /\ slivers = 0
      BY <1>1 DEF IInv, Accounts
    <3> QED
      BY <3>1, SumEmpty DEF HeldSpace
  <2> QED
    BY <2>4, <2>5, PoolAssumption
<1>2. CASE pool_base # NULL
  BY <1>2 DEF ListAfterInit, Accounts
<1> QED
  BY <1>1, <1>2

LEMMA FirstFitAccounts ==
  ASSUME IInv, Accounts, NEW size \in Requests, MallocFirstFit(size)
  PROVE  Accounts'
<1> DEFINE L == ListAfterInit
           need == Need(size)
<1>1. PICK i \in DOMAIN L :
        /\ IsFirstFit(L, need, i)
        /\ free_list' = Taken(L, i, need)
        /\ live' = live \cup
             {[addr |-> L[i].addr, size |-> need - ALLOC_HDR_SIZE, req |-> size]}
        /\ slivers' = IF Leftover(L[i], need) = ALIGN THEN slivers + 1 ELSE slivers
  BY DEF MallocFirstFit
<1> DEFINE x == [addr |-> L[i].addr, size |-> need - 64, req |-> size]
<1>2. need \in Nat /\ need % 64 = 0 /\ need >= 128
  BY NeedProperties DEF MallocFirstFit
<1>3. GoodList(L) /\ \A c \in live : OffList(c, L)
  BY SearchedListGood
<1>4. Space(L) + HeldSpace(live) + 64 * slivers = RESERVED_MEMORY_SIZE
  BY SearchedSpace
<1> HIDE DEF L, need
<1>5. x.addr = L[i].addr /\ Bytes(x) = need
  BY <1>2 DEF Bytes
<1>6. live' = live \cup {x}
  BY <1>1
<1>7. i \in 1..Len(L) /\ L[i].addr \in Nat /\ L[i].size \in Nat /\ L \in Seq(Block)
  BY <1>1, <1>3, GoodListFacts DEF IsFirstFit
<1> HIDE DEF x
<1>8. \A c \in live : c.addr \in Nat /\ c.size \in Nat /\ Bytes(c) \in Int
  BY DEF IInv, GoodLive, LiveBlock, Bytes
<1>9. x \notin live
  <2> SUFFICES ASSUME x \in live PROVE FALSE
    OBVIOUS
  <2>1. Disjoint(x, L[i])
    BY <1>3, <1>7 DEF OffList
  <2> QED
    BY <1>5, <1>7, <1>8, <2>1 DEF Disjoint, Past
<1>10. /\ IsFiniteSet(live') /\ HeldSpace(live) \in Int
       /\ HeldSpace(live') = HeldSpace(live) + need
  <2>1. /\ IsFiniteSet(live) /\ \A c \in live : Bytes(c) \in Int
        /\ Bytes(x) \in Int
    BY <1>2, <1>5, <1>8 DEF Accounts
  <2>2. /\ IsFiniteSet(live \cup {x}) /\ HeldSpace(live) \in Int
        /\ HeldSpace(live \cup {x}) = HeldSpace(live) + Bytes(x)
    BY <1>9, <2>1, HeldChanges
  <2> QED
    BY <1>5, <1>6, <2>2
<1>11. \/ Leftover(L[i], need) # 64 /\ Space(free_list') = Space(L) - need
       \/ Leftover(L[i], need) = 64 /\ Space(free_list') = Space(L) - need - 64
  BY <1>1, <1>2, <1>3, TakenSpace
<1>12. Space(L) \in Int /\ slivers \in Nat
  BY <1>7, WeightsType DEF IInv
<1>13. Space(free_list') + HeldSpace(live') + 64 * slivers' = RESERVED_MEMORY_SIZE
  <2>1. CASE Leftover(L[i], need) = 64
    BY <1>1, <1>2, <1>4, <1>10, <1>11, <1>12, <2>1
  <2>2. CASE Leftover(L[i], need) # 64
    BY <1>1, <1>2, <1>4, <1>10, <1>11, <1>12, <2>2
  <2> QED
    BY <2>1, <2>2
<1>14. pool_base' # NULL
  BY NullAssumption DEF MallocFirstFit
<1> QED
  BY <1>10, <1>13, <1>14 DEF Accounts, Space, Weights, HeldSpace, Bytes

LEMMA FreeAccounts ==
  ASSUME IInv, Accounts, NEW b \in live, my_free(b)
  PROVE  Accounts'
<1> DEFINE blk == FreedBlock(b)
           rest == live \ {b}
<1>1. PICK k \in 1..(Len(free_list) + 1) : free_list' = Returned(free_list, blk, k)
  BY DEF my_free
<1>2. \A c \in live : c.addr \in Nat /\ c.size \in Nat /\ Bytes(c) = c.size + 64
  BY DEF IInv, GoodLive, LiveBlock, Bytes
<1>3. blk \in Block /\ Bytes(blk) = Bytes(b)
  BY <1>2, BytesFacts DEF FreedBlock, Bytes
<1> HIDE DEF blk
<1>4. live' = rest /\ UNCHANGED <<pool_base, slivers>>
  BY DEF my_free
<1>5. free_list \in Seq(Block) /\ pool_base # NULL
  BY DEF IInv, GoodList
<1>6. Space(free_list') = Space(free_list) + Bytes(blk) /\ Space(free_list) \in Int
  BY <1>1, <1>3, <1>5, ReturnedSpace, WeightsType
<1>7. IsFiniteSet(rest)
  BY FS_RemoveElement DEF Accounts
<1>8. HeldSpace(live) = HeldSpace(rest) + Bytes(b) /\ HeldSpace(rest) \in Int
  <2>1. rest \cup {b} = live /\ b \notin rest /\ \A c \in rest : Bytes(c) \in Int
    BY <1>2
  <2>2. Bytes(b) \in Int
    BY <1>2
  <2> HIDE DEF rest
  <2> QED
    BY <1>7, <2>1, <2>2, HeldChanges
<1>9. Bytes(b) \in Int /\ slivers \in Nat
  BY <1>2 DEF IInv
<1> HIDE DEF rest
<1>10. Space(free_list') + HeldSpace(live') + 64 * slivers' = RESERVED_MEMORY_SIZE
  BY <1>3, <1>4, <1>5, <1>6, <1>8, <1>9 DEF Accounts
<1> QED
  BY <1>4, <1>5, <1>7, <1>10 DEF Accounts, Space, Weights, HeldSpace, Bytes

LEMMA StutterAccounts ==
  ASSUME Accounts, UNCHANGED vars
  PROVE  Accounts'
BY DEF vars, Accounts, Space, Weights, HeldSpace, Bytes

LEMMA OutOfMemoryAccounts ==
  ASSUME IInv, Accounts, NEW size \in Requests, MallocOutOfMemory(size)
  PROVE  Accounts'
<1>1. /\ free_list' = ListAfterInit /\ live' = live /\ slivers' = slivers
      /\ pool_base' = 0 /\ 0 # NULL
  BY NullAssumption DEF MallocOutOfMemory
<1>2. Space(ListAfterInit) + HeldSpace(live) + 64 * slivers = RESERVED_MEMORY_SIZE
  BY SearchedSpace
<1> HIDE DEF ListAfterInit
<1> QED
  BY <1>1, <1>2 DEF Accounts, Space, Weights, HeldSpace, Bytes

LEMMA AccountsKept == IInv /\ Accounts /\ [Next]_vars => Accounts'
<1> SUFFICES ASSUME IInv, Accounts, [Next]_vars PROVE Accounts'
  OBVIOUS
<1>1. CASE UNCHANGED vars
  BY <1>1, StutterAccounts
<1>3. ASSUME NEW size \in Requests, my_malloc(size) PROVE Accounts'
  BY <1>1, <1>3, FirstFitAccounts, OutOfMemoryAccounts DEF my_malloc, MallocMapFails
<1>4. CASE MallocZero
  BY <1>1, <1>4 DEF MallocZero
<1>5. ASSUME NEW b \in live, my_free(b) PROVE Accounts'
  BY <1>5, FreeAccounts
<1> QED
  BY <1>1, <1>3, <1>4, <1>5 DEF Next

LEMMA AccountedFor == IInv /\ Accounts => EveryByteAccounted
<1> SUFFICES ASSUME IInv, Accounts, pool_base # NULL
             PROVE  FreeBytes + LiveBytes + ALIGN * slivers = RESERVED_MEMORY_SIZE
  BY DEF EveryByteAccounted
<1>1. FreeBytes = Space(free_list)
  <2>1. DOMAIN free_list = 1..Len(free_list)
    BY DEF IInv, GoodList
  <2>2. Len(Weights(free_list)) = Len(free_list)
    BY WeightsType DEF IInv, GoodList
  <2> QED
    BY <2>1, <2>2 DEF FreeBytes, SumFunction, Space, Total, Weights
<1>2. LiveBytes = HeldSpace(live)
  BY DEF LiveBytes, SumFunction, HeldSpace
<1> QED
  BY <1>1, <1>2 DEF Accounts

(* Through every splitting and merging, the free blocks, the live blocks   *)
(* and the tails too short to be free blocks make up the whole pool.       *)
THEOREM NoByteIsLost == Spec => []EveryByteAccounted
BY NothingTakenYet, AccountsKept, InductiveInvariant, AccountedFor, PTL DEF Spec

-----------------------------------------------------------------------------
(* The blocks of a good list lie one behind the other, with bytes between  *)
(* any two of them: as far as the n-th they take no more than the bytes    *)
(* from the first to its end, and fewer if there are several.              *)
Upto(list, n) == SumFunctionOnSet(Weights(list), 1..n)

LEMMA BlocksTakeLess ==
  ASSUME NEW list, GoodList(list), NEW n \in 1..Len(list)
  PROVE  /\ Upto(list, n) \in Int
         /\ Upto(list, n) + list[1].addr <= Past(list[n])
         /\ n > 1 => Upto(list, n) + list[1].addr < Past(list[n])
<1> DEFINE W == Weights(list)
           Claim(k) == /\ Upto(list, k) \in Int
                       /\ Upto(list, k) + list[1].addr <= Past(list[k])
                       /\ k > 1 => Upto(list, k) + list[1].addr < Past(list[k])
           S == {k \in Nat : k + 1 <= Len(list) => Claim(k + 1)}
<1>0. /\ list \in Seq(Block) /\ Len(list) \in Nat
      /\ \A p \in 1..Len(list) : /\ list[p].addr \in Nat /\ list[p].size \in Nat
                                 /\ Past(list[p]) = list[p].addr + 64 + list[p].size
                                 /\ Past(list[p]) \in Nat
      /\ \A p, q \in 1..Len(list) : p < q => Past(list[p]) < list[q].addr
  <2>1. \A p \in 1..Len(list) : /\ list[p].addr \in Nat /\ list[p].size \in Nat
                                /\ Past(list[p]) = list[p].addr + 64 + list[p].size
                                /\ Past(list[p]) \in Nat
    BY GoodListFacts, PastValue
  <2> QED
    BY <2>1, GoodListFacts DEF GoodList
<1>1. \A p \in 1..Len(list) : W[p] = 64 + list[p].size /\ W[p] \in Int
  BY <1>0, WeightsType DEF Bytes
<1>2. \A k \in 1..Len(list) : IntOn(W, 1..k)
  BY <1>1, FS_Interval DEF IntOn
<1>3. \A k \in 1..Len(list) : Upto(list, k) = W[k] + Upto(list, k - 1)
  <2> SUFFICES ASSUME NEW k \in 1..Len(list)
               PROVE  Upto(list, k) = W[k] + Upto(list, k - 1)
    OBVIOUS
  <2>1. k \in 1..k /\ (1..k) \ {k} = 1..(k - 1)
    BY <1>0
  <2> QED
    BY <1>2, <2>1, SumRemove DEF Upto
<1>4. 0 \in S
  <2> SUFFICES ASSUME 1 <= Len(list) PROVE Claim(1)
    OBVIOUS
  <2>1. 1 \in 1..Len(list) /\ 1..0 = {}
    BY <1>0
  <2>2. Upto(list, 0) = 0
    BY <2>1, SumEmpty DEF Upto
  <2> HIDE DEF W
  <2>3. Upto(list, 1) = W[1]
    BY <1>1, <1>3, <2>1, <2>2
  <2>4. /\ list[1].addr \in Nat /\ list[1].size \in Nat
        /\ Past(list[1]) = list[1].addr + 64 + list[1].size
        /\ Upto(list, 1) = 64 + list[1].size
    BY <1>0, <1>1, <2>1, <2>3
  <2>5. /\ Upto(list, 1) \in Int
        /\ Upto(list, 1) + list[1].addr <= Past(list[1])
    BY <2>4
  <2> QED
    BY <2>5
<1>5. ASSUME NEW k \in Nat, k \in S PROVE k + 1 \in S
  <2> SUFFICES ASSUME k + 2 <= Len(list) PROVE Claim(k + 2)
    BY <1>0
  <2>1. /\ k + 1 \in 1..Len(list) /\ k + 2 \in 1..Len(list) /\ k + 1 < k + 2
        /\ (k + 2) - 1 = k + 1
    BY <1>0
  <2>2. Claim(k + 1)
    BY <1>5, <2>1
  <2> HIDE DEF W
  <2>3. Upto(list, k + 2) = W[k + 2] + Upto(list, k + 1)
    BY <1>3, <2>1
  <2>4. /\ Past(list[k + 1]) < list[k + 2].addr
        /\ Past(list[k + 2]) = list[k + 2].addr + 64 + list[k + 2].size
        /\ W[k + 2] = 64 + list[k + 2].size /\ W[k + 2] \in Int
        /\ Past(list[k + 1]) \in Nat /\ Past(list[k + 2]) \in Nat
        /\ list[1].addr \in Nat /\ list[k + 2].addr \in Nat /\ list[k + 2].size \in Nat
    BY SMTT(30), <1>0, <1>1, <2>1
  <2>5. Upto(list, k + 1) \in Int /\ Upto(list, k + 1) + list[1].addr <= Past(list[k + 1])
    BY <2>2
  <2> HIDE DEF Claim
  <2>6. /\ Upto(list, k + 2) \in Int
        /\ Upto(list, k + 2) + list[1].addr < Past(list[k + 2])
    <3> DEFINE sum == Upto(list, k + 1)
               start == list[1].addr
               old == Past(list[k + 1])
               at == list[k + 2].addr
               size == list[k + 2].size
    <3>1. /\ sum \in Int /\ start \in Nat /\ old \in Nat /\ at \in Nat /\ size \in Nat
          /\ sum + start <= old /\ old < at
      BY <2>4, <2>5
    <3>2. Upto(list, k + 2) = (64 + size) + sum /\ Past(list[k + 2]) = at + 64 + size
      BY <2>3, <2>4
    <3> HIDE DEF sum, start, old, at, size
    <3>3. (64 + size) + sum \in Int /\ ((64 + size) + sum) + start < at + 64 + size
      BY <3>1
    <3> QED
      BY <3>2, <3>3 DEF start
  <2>7. /\ Upto(list, k + 2) + list[1].addr \in Int /\ Past(list[k + 2]) \in Int
        /\ Upto(list, k + 2) + list[1].addr <= Past(list[k + 2])
    <3>1. ASSUME NEW s \in Int, NEW a \in Nat, NEW b \in Nat, s + a < b
          PROVE  s + a \in Int /\ b \in Int /\ s + a <= b
      BY <3>1
    <3> QED
      BY <2>4, <2>6, <3>1
  <2> QED
    BY <2>6, <2>7 DEF Claim
<1> HIDE DEF S
<1>6. n - 1 \in S
  <2>1. Nat \subseteq S
    BY <1>4, <1>5, SetInduction
  <2> QED
    BY <1>0, <2>1
<1> QED
  BY <1>0, <1>6 DEF S

(* A list with all bytes of the pool is the one pool_init makes. *)
LEMMA AllBytesInOneBlock ==
  ASSUME NEW list, GoodList(list), Space(list) = RESERVED_MEMORY_SIZE
  PROVE  list = WholePool
<1>1. /\ list \in Seq(Block) /\ Len(list) \in Nat
      /\ RESERVED_MEMORY_SIZE \in Nat /\ RESERVED_MEMORY_SIZE > 0
  BY GoodListFacts, PoolAssumption
<1>2. Space(list) = Upto(list, Len(list))
  BY WeightsType, <1>1 DEF Space, Total, Upto
<1>3. Len(list) # 0
  <2>1. Space(<< >>) = 0
    BY SpaceSmall
  <2> QED
    BY <1>1, <2>1
<1>4. 1 \in 1..Len(list) /\ Len(list) \in 1..Len(list)
  BY <1>1, <1>3
<1>5. /\ RESERVED_MEMORY_SIZE + list[1].addr <= Past(list[Len(list)])
      /\ Len(list) > 1 => RESERVED_MEMORY_SIZE + list[1].addr < Past(list[Len(list)])
  BY <1>2, <1>4, BlocksTakeLess
<1>6. /\ Past(list[Len(list)]) <= RESERVED_MEMORY_SIZE
      /\ Past(list[Len(list)]) \in Nat
  BY <1>4, GoodListFacts, PastValue DEF GoodList
<1>7. /\ list[1] \in Block /\ list[1].addr \in Nat /\ list[1].size \in Nat
      /\ Past(list[1]) = list[1].addr + 64 + list[1].size
  BY <1>4, GoodListFacts, PastValue
<1>8. Len(list) = 1 /\ list[1].addr = 0
  <2> DEFINE end == Past(list[Len(list)])
             start == list[1].addr
             size == RESERVED_MEMORY_SIZE
  <2>1. /\ size + start <= end /\ end <= size
        /\ Len(list) > 1 => size + start < end
        /\ size \in Nat /\ start \in Nat /\ end \in Nat
    BY <1>1, <1>5, <1>6, <1>7
  <2> HIDE DEF end, start, size
  <2>2. ~(Len(list) > 1) /\ start = 0
    BY <2>1
  <2>3. Len(list) = 1
    <3>1. \A l \in Nat : l # 0 /\ ~(l > 1) => l = 1
      OBVIOUS
    <3> QED
      BY <1>1, <1>3, <2>2, <3>1, Zenon
  <2>4. list[1].addr = 0
    BY <2>2 DEF start
  <2> QED
    BY <2>3, <2>4
<1>9. list[1].size = RESERVED_MEMORY_SIZE - 64
  BY <1>1, <1>5, <1>6, <1>7, <1>8
<1>10. list[1] = [addr |-> 0, size |-> RESERVED_MEMORY_SIZE - 64]
  BY <1>7, <1>8, <1>9 DEF Block
<1> QED
  BY <1>1, <1>8, <1>10 DEF WholePool

LEMMA FreedIsWhole ==
  ASSUME IInv, Accounts, slivers = 0
  PROVE  EverythingFreedIsWhole
<1> SUFFICES ASSUME pool_base # NULL, live = {} PROVE free_list = WholePool
  BY DEF EverythingFreedIsWhole
<1>1. HeldSpace(live) = 0
  BY SumEmpty DEF HeldSpace
<1>2. GoodList(free_list) /\ Space(free_list) \in Int
  BY WeightsType DEF IInv, GoodList
<1>3. Space(free_list) = RESERVED_MEMORY_SIZE
  BY <1>1, <1>2 DEF Accounts
<1> QED
  BY <1>2, <1>3, AllBytesInOneBlock

(* When everything is freed the pool is one block again, in whatever order *)
(* it was allocated and freed, unless a block was handed out with a tail   *)
(* of 64 bytes: nothing else ever keeps two free blocks apart.             *)
THEOREM EverythingFreedWithoutSlivers ==
  Spec => [](slivers = 0 => EverythingFreedIsWhole)
<1>1. IInv /\ Accounts => (slivers = 0 => EverythingFreedIsWhole)
  BY FreedIsWhole
<1> QED
  BY <1>1, NothingTakenYet, AccountsKept, InductiveInvariant, PTL DEF Spec

-----------------------------------------------------------------------------
(* The allocator implements a Heap: the allocation a caller sees for a     *)
(* live block is the payload after its header.                             *)
Payload(b) == [ptr |-> b.addr + ALLOC_HDR_SIZE, size |-> b.req]

Held == {Payload(b) : b \in live}

(* Two live blocks do not have one payload. *)
LEMMA PayloadInjective ==
  ASSUME IInv, NEW a \in live, NEW b \in live, Payload(a) = Payload(b)
  PROVE  a = b
<1>1. /\ a.addr \in Nat /\ a.size \in Nat /\ b.addr \in Nat /\ b.size \in Nat
  BY DEF IInv, GoodLive, LiveBlock
<1>2. a.addr = b.addr
  <2>1. Payload(a).ptr = a.addr + 64 /\ Payload(b).ptr = b.addr + 64
    BY DEF Payload
  <2> QED
    BY <2>1, <1>1
<1>3. ~Disjoint(a, b)
  BY <1>1, <1>2 DEF Disjoint, Past
<1> QED
  BY <1>3 DEF IInv, GoodLive

LEMMA FirstFitGrants ==
  ASSUME IInv, IInv', NEW size \in Requests, MallocFirstFit(size)
  PROVE  Abstract!Grant(size)
<1>1. PICK b : /\ live' = live \cup {b} /\ b.req = size
               /\ \A c \in live : c.addr # b.addr
  <2> DEFINE L == ListAfterInit
             need == Need(size)
  <2>1. PICK i \in DOMAIN L :
          /\ IsFirstFit(L, need, i)
          /\ live' = live \cup
               {[addr |-> L[i].addr, size |-> need - ALLOC_HDR_SIZE, req |-> size]}
    BY DEF MallocFirstFit
  <2>2. ASSUME NEW c \in live
        PROVE  c.addr # L[i].addr
    <3>1. GoodList(L) /\ OffList(c, L)
      BY SearchedListGood
    <3>2. i \in 1..Len(L)
      BY <2>1, <3>1 DEF GoodList
    <3>3. L[i].addr \in Nat /\ L[i].size \in Nat
      BY <3>1, <3>2, GoodListFacts
    <3>4. c.addr \in Nat /\ c.size \in Nat
      BY DEF IInv, GoodLive, LiveBlock
    <3>5. Disjoint(c, L[i])
      BY <3>1, <3>2 DEF OffList
    <3> QED
      BY <3>3, <3>4, <3>5 DEF Disjoint, Past
  <2> DEFINE x == [addr |-> L[i].addr, size |-> need - ALLOC_HDR_SIZE, req |-> size]
  <2>3. x.req = size /\ x.addr = L[i].addr /\ live' = live \cup {x}
    BY <2>1
  <2> HIDE DEF x, L
  <2> QED
    BY <2>2, <2>3
<1>2. /\ b \in live' /\ b.addr \in Nat /\ b.size \in Nat /\ b.req \in Nat
      /\ b.addr % 64 = 0 /\ b.size >= b.req
      /\ b.addr + 64 + b.size <= RESERVED_MEMORY_SIZE
      /\ RESERVED_MEMORY_SIZE \in Nat
  <2>1. b \in live'
    BY <1>1
  <2>2. /\ b \in LiveBlock /\ Aligned(b) /\ b.size >= b.req
        /\ Past(b) <= RESERVED_MEMORY_SIZE
    BY <2>1 DEF IInv, GoodLive, Aligned, Past
  <2>3. b.addr \in Nat /\ b.size \in Nat /\ b.req \in Nat
    BY <2>2, RequestAssumption DEF LiveBlock
  <2> QED
    BY <2>1, <2>2, <2>3, PoolAssumption DEF Aligned, Past
<1> DEFINE ptr == b.addr + 64
           e == [ptr |-> ptr, size |-> size]
<1>3. /\ ptr \in 0..RESERVED_MEMORY_SIZE /\ ptr % 64 = 0
      /\ ptr + size <= RESERVED_MEMORY_SIZE
  BY <1>1, <1>2
<1>4. e = Payload(b)
  BY <1>1 DEF Payload
<1>5. ASSUME NEW h \in Held
      PROVE  e.ptr + e.size <= h.ptr \/ h.ptr + h.size <= e.ptr
  <2>1. PICK c \in live : h = Payload(c)
    BY DEF Held
  <2>2. c \in live' /\ c # b
    BY <1>1, <2>1
  <2>3. Disjoint(b, c)
    BY <1>2, <2>2 DEF IInv, GoodLive, Disjoint, Past
  <2>4. c.addr \in Nat /\ c.size \in Nat /\ c.req \in Nat /\ c.size >= c.req
    BY RequestAssumption DEF IInv, GoodLive, LiveBlock
  <2>5. h.ptr = c.addr + 64 /\ h.size = c.req /\ e.ptr = b.addr + 64 /\ e.size = b.req
    BY <2>1, <1>4 DEF Payload
  <2> QED
    BY <2>3, <2>4, <2>5, <1>2 DEF Disjoint, Past
<1>6. Held' = Held \cup {e}
  BY <1>1, <1>4 DEF Held, Payload
<1> HIDE DEF ptr
<1>7. \E p \in 0..RESERVED_MEMORY_SIZE :
        LET x == [ptr |-> p, size |-> size] IN
          /\ p % 64 = 0
          /\ p + size <= RESERVED_MEMORY_SIZE
          /\ \A h \in Held : x.ptr + x.size <= h.ptr \/ h.ptr + h.size <= x.ptr
          /\ Held' = Held \cup {x}
  BY <1>3, <1>5, <1>6
<1> QED
  BY <1>7 DEF Abstract!Grant, Abstract!Apart, Held, Payload

LEMMA FreeReleases ==
  ASSUME IInv, NEW b \in live, my_free(b)
  PROVE  \E e \in Held : Abstract!Release(e)
<1>1. live' = live \ {b}
  BY DEF my_free
<1>2. Payload(b) \in Held
  BY DEF Held
<1>3. Held' = Held \ {Payload(b)}
  BY <1>1, PayloadInjective DEF Held, Payload
<1> QED
  BY <1>2, <1>3 DEF Abstract!Release, Held, Payload

(* Every behaviour of the allocator is a behaviour of Heap.                *)
THEOREM Refinement == Spec => ImplementsHeap
<1>1. Init => Abstract!Init
  BY DEF Init, Abstract!Init
<1>2. IInv /\ IInv' /\ [Next]_vars => [Abstract!Next]_Held
  <2> SUFFICES ASSUME IInv, IInv', [Next]_vars
               PROVE  Abstract!Next \/ Held' = Held
    BY DEF Held
  <2>1. CASE UNCHANGED live
    BY <2>1 DEF Held, Payload
  <2>2. ASSUME NEW size \in Requests, my_malloc(size)
        PROVE  Abstract!Next \/ Held' = Held
    <3>1. CASE MallocFirstFit(size)
      BY <3>1, FirstFitGrants DEF Abstract!Next
    <3>2. CASE UNCHANGED live
      BY <3>2, <2>1
    <3> QED
      BY <2>2, <3>1, <3>2
         DEF my_malloc, MallocMapFails, MallocOutOfMemory, vars
  <2>3. ASSUME NEW b \in live, my_free(b)
        PROVE  Abstract!Next
    BY <2>3, FreeReleases DEF Abstract!Next, Held, Payload
  <2>4. CASE MallocZero \/ UNCHANGED vars
    BY <2>4, <2>1 DEF MallocZero, vars
  <2> QED
    BY <2>2, <2>3, <2>4 DEF Next
<1>3. Held = {[ptr |-> b.addr + ALLOC_HDR_SIZE, size |-> b.req] : b \in live}
  BY DEF Held, Payload
<1> QED
  BY <1>1, <1>2, InductiveInvariant, PTL
     DEF Spec, ImplementsHeap, Abstract!Spec, Held, Payload

-----------------------------------------------------------------------------
(* How far the pool can have been used up: a free block reaches the end of *)
(* the pool, and it begins at h or below.                                  *)
Ends(b, h) == Past(b) = RESERVED_MEMORY_SIZE /\ b.addr <= h

Reaches(list, h) == \E q \in 1..Len(list) : Ends(list[q], h)

LEMMA WholePoolReaches == Reaches(WholePool, 0)
<1>1. Len(WholePool) = 1 /\ WholePool[1].addr = 0 /\ Past(WholePool[1]) = RESERVED_MEMORY_SIZE
  BY PoolAssumption DEF WholePool, Past
<1> QED
  BY <1>1 DEF Reaches, Ends

(* The blocks around the place of a splice stay on the list. *)
LEMMA SpliceReaches ==
  ASSUME NEW list \in Seq(Block), NEW m \in Block, NEW lo \in Nat, NEW hi \in Nat,
         lo < hi, hi <= Len(list) + 1, NEW h
  PROVE  /\ Ends(m, h) => Reaches(Splice(list, lo, hi, <<m>>), h)
         /\ \A q \in 1..Len(list) :
              (q <= lo \/ q >= hi) /\ Ends(list[q], h)
                => Reaches(Splice(list, lo, hi, <<m>>), h)
<1> DEFINE new == Splice(list, lo, hi, <<m>>)
<1>1. /\ Len(new) = Len(list) + lo - hi + 2
      /\ \A j \in 1..Len(new) :
           new[j] = IF j <= lo THEN list[j]
                    ELSE IF j = lo + 1 THEN m
                    ELSE list[j - lo - 2 + hi]
  BY SpliceOne
<1> HIDE DEF new
<1>2. Len(list) \in Nat
  OBVIOUS
<1>3. ASSUME Ends(m, h) PROVE Reaches(new, h)
  <2>1. lo + 1 \in 1..Len(new) /\ ~(lo + 1 <= lo)
    BY <1>1, <1>2
  <2>2. new[lo + 1] = m
    BY <1>1, <2>1
  <2> QED
    BY <1>3, <2>1, <2>2 DEF Reaches
<1>4. ASSUME NEW q \in 1..Len(list), q <= lo, Ends(list[q], h) PROVE Reaches(new, h)
  <2>1. q \in 1..Len(new)
    BY <1>1, <1>2, <1>4
  <2>2. new[q] = list[q]
    BY <1>1, <1>4, <2>1
  <2> QED
    BY <1>4, <2>1, <2>2 DEF Reaches
<1>5. ASSUME NEW q \in 1..Len(list), q >= hi, Ends(list[q], h) PROVE Reaches(new, h)
  <2> DEFINE p == q + lo + 2 - hi
  <2>1. p \in 1..Len(new) /\ ~(p <= lo) /\ p # lo + 1 /\ p - lo - 2 + hi = q
    BY <1>1, <1>2, <1>5
  <2> HIDE DEF p
  <2>2. new[p] = list[q]
    BY <1>1, <2>1
  <2> QED
    BY <1>5, <2>1, <2>2 DEF Reaches
<1> QED
  BY <1>3, <1>4, <1>5 DEF new

(* There is a good list, and on it a block that reaches the end of the     *)
(* pool and is long enough for `need' bytes and a tail.                    *)
Roomy(list, need, h) ==
  /\ GoodList(list) /\ Reaches(list, h)
  /\ need \in Nat /\ h \in Nat /\ h + need + 128 <= RESERVED_MEMORY_SIZE

LEMMA RoomyFits ==
  ASSUME NEW list, NEW need, NEW h, Roomy(list, need, h)
  PROVE  \E q \in DOMAIN list :
           /\ Ends(list[q], h) /\ Fits(list[q], need) /\ Splits(list[q], need)
           /\ SplitTail(list[q], need) \in Block
           /\ Ends(SplitTail(list[q], need), h + need)
           /\ Ends(list[q], h + need)
<1>1. PICK q \in 1..Len(list) : Ends(list[q], h)
  BY DEF Roomy, Reaches
<1>2. /\ list[q].addr \in Nat /\ list[q].size \in Nat /\ q \in DOMAIN list
  BY GoodListFacts DEF Roomy
<1> DEFINE a == list[q].addr
           z == list[q].size
           tail == SplitTail(list[q], need)
<1>3. a + 64 + z = RESERVED_MEMORY_SIZE /\ a <= h
  BY <1>1 DEF Ends, Past
<1>4. tail = [addr |-> a + need, size |-> (z + 64 - need) - 64]
  BY DEF SplitTail, Leftover
<1>5. /\ z + 64 >= need <=> Fits(list[q], need)
      /\ z + 64 - need >= 128 <=> Splits(list[q], need)
  BY DEF Fits, Splits, Leftover
<1>6. a \in Nat /\ z \in Nat /\ need \in Nat /\ h \in Nat /\ h + need + 128 <= RESERVED_MEMORY_SIZE
  BY <1>2 DEF Roomy
<1> HIDE DEF a, z, tail
<1>7. /\ z + 64 - need >= 128 /\ z + 64 >= need /\ a <= h + need /\ a + need <= h + need
      /\ a + need \in Nat /\ (z + 64 - need) - 64 \in Nat
      /\ (a + need) + 64 + ((z + 64 - need) - 64) = RESERVED_MEMORY_SIZE
  BY <1>3, <1>6
<1>8. tail \in Block
  BY <1>4, <1>7 DEF Block
<1>9. Ends(tail, h + need)
  <2>1. tail.addr = a + need /\ tail.size = (z + 64 - need) - 64
    BY <1>4
  <2>2. Past(tail) = tail.addr + 64 + tail.size
    BY DEF Past
  <2> QED
    BY <1>7, <2>1, <2>2 DEF Ends
<1>10. Ends(list[q], h + need)
  BY <1>1, <1>7 DEF Ends, a
<1> QED
  BY <1>1, <1>2, <1>5, <1>7, <1>8, <1>9, <1>10 DEF tail

(* What my_malloc takes comes off the front of it, or off another block.   *)
LEMMA TakenReaches ==
  ASSUME NEW list, NEW need, NEW h, Roomy(list, need, h), NEW i, IsFirstFit(list, need, i)
  PROVE  Reaches(Taken(list, i, need), h + need)
<1> DEFINE lo == i - 1
           hi == i + 1
           tail == SplitTail(list[i], need)
<1>1. PICK q \in DOMAIN list :
        /\ Ends(list[q], h) /\ Fits(list[q], need) /\ Splits(list[q], need)
        /\ SplitTail(list[q], need) \in Block
        /\ Ends(SplitTail(list[q], need), h + need)
        /\ Ends(list[q], h + need)
  BY RoomyFits
<1>2. /\ list \in Seq(Block) /\ i \in 1..Len(list) /\ q \in 1..Len(list)
      /\ Len(list) \in Nat /\ list[i].addr \in Nat /\ list[i].size \in Nat
      /\ need \in Nat
  <2>1. GoodList(list) /\ need \in Nat /\ i \in DOMAIN list
    BY DEF Roomy, IsFirstFit
  <2>2. list \in Seq(Block) /\ Len(list) \in Nat
    BY <2>1, GoodListFacts
  <2>3. i \in 1..Len(list) /\ q \in 1..Len(list)
    BY <2>1, <2>2
  <2> QED
    BY <2>1, <2>2, <2>3, GoodListFacts
<1>3. q >= i
  BY <1>1, <1>2 DEF IsFirstFit
<1>4. /\ lo \in Nat /\ hi \in Nat /\ lo < hi /\ hi <= Len(list) + 1
      /\ q # i => q >= hi
  BY <1>2, <1>3
<1>5. CASE Splits(list[i], need)
  <2>1. Taken(list, i, need) = Splice(list, lo, hi, <<tail>>)
    BY <1>5 DEF Taken
  <2>2. tail \in Block
    <3>1. tail = [addr |-> list[i].addr + need, size |-> Leftover(list[i], need) - 64]
      BY DEF SplitTail
    <3>2. Leftover(list[i], need) \in Int /\ Leftover(list[i], need) >= 128
      BY <1>2, <1>5 DEF Splits, Leftover
    <3>3. list[i].addr + need \in Nat /\ Leftover(list[i], need) - 64 \in Nat
      BY <1>2, <3>2
    <3> HIDE DEF tail
    <3> QED
      BY <3>1, <3>3 DEF Block
  <2>3. q = i => Ends(tail, h + need)
    BY <1>1
  <2> HIDE DEF lo, hi, tail
  <2> QED
    BY <1>1, <1>2, <1>4, <2>1, <2>2, <2>3, SpliceReaches
<1>6. CASE ~Splits(list[i], need)
  <2>1. Taken(list, i, need) = Splice(list, i - 1, i + 1, << >>)
    BY <1>6 DEF Taken
  <2> DEFINE s == Taken(list, i, need)
  <2>2. IsUnlinked(s, list, i)
    BY <1>2, <2>1, UnlinkOne
  <2> HIDE DEF s
  <2>3. q # i
    BY <1>1, <1>6
  <2>4. q - 1 \in 1..Len(s) /\ ~(q - 1 < i) /\ (q - 1) + 1 = q
    BY <1>2, <1>3, <2>2, <2>3 DEF IsUnlinked
  <2>5. s[q - 1] = list[q]
    BY <2>2, <2>4 DEF IsUnlinked
  <2>6. Reaches(s, h + need)
    BY <1>1, <2>4, <2>5 DEF Reaches
  <2> QED
    BY <2>6 DEF s
<1> QED
  BY <1>5, <1>6

LEMMA AbsorbFacts ==
  ASSUME NEW a \in Block, NEW b \in Block, Past(a) = b.addr
  PROVE  /\ Absorb(a, b) \in Block /\ Absorb(a, b).addr = a.addr
         /\ Past(Absorb(a, b)) = Past(b) /\ a.addr <= b.addr
<1>1. /\ a.addr \in Nat /\ a.size \in Nat /\ b.addr \in Nat /\ b.size \in Nat
      /\ b.addr = a.addr + 64 + a.size /\ Past(b) = b.addr + 64 + b.size
  BY DEF Block, Past
<1> DEFINE c == Absorb(a, b)
<1>2. c = [addr |-> a.addr, size |-> a.size + 64 + b.size]
  BY DEF Absorb
<1> HIDE DEF c
<1>3. a.size + 64 + b.size \in Nat
  BY <1>1
<1>4. c \in Block /\ c.addr = a.addr /\ c.size = a.size + 64 + b.size
  BY <1>1, <1>2, <1>3 DEF Block
<1>5. Past(c) = c.addr + 64 + c.size
  BY DEF Past
<1>6. Past(c) = Past(b) /\ a.addr <= b.addr
  BY <1>1, <1>4, <1>5
<1> QED
  BY <1>4, <1>6 DEF c

(* What my_free returns leaves it as it is or extends it downwards.        *)
LEMMA ReturnedReaches ==
  ASSUME NEW list, GoodList(list), NEW blk \in Block, Past(blk) <= RESERVED_MEMORY_SIZE,
         NEW k, IsInsertionPoint(list, blk, k), NEW h \in Nat, Reaches(list, h)
  PROVE  Reaches(Returned(list, blk, k), h)
<1> DEFINE next == TouchesNext(list, blk, k)
           prev == TouchesPrev(list, blk, k)
           grown == IF next THEN Absorb(blk, list[k]) ELSE blk
           merged == IF prev THEN Absorb(list[k - 1], grown) ELSE grown
           lo == IF prev THEN k - 2 ELSE k - 1
           hi == IF next THEN k + 1 ELSE k
<1>1. PICK q \in 1..Len(list) : Ends(list[q], h)
  BY DEF Reaches
<1>2. /\ list \in Seq(Block) /\ Len(list) \in Nat /\ RESERVED_MEMORY_SIZE \in Nat
      /\ k \in 1..(Len(list) + 1) /\ q \in Nat
      /\ \A p \in 1..Len(list) : list[p] \in Block
  BY GoodListFacts DEF IsInsertionPoint
<1>3. /\ next => k \in 1..Len(list) /\ Past(blk) = list[k].addr
      /\ prev => k - 1 \in 1..Len(list) /\ Past(list[k - 1]) = blk.addr
  BY <1>2 DEF TouchesNext, TouchesPrev
<1>4. Returned(list, blk, k) = Splice(list, lo, hi, <<merged>>)
  BY DEF Returned
<1> HIDE DEF next, prev
<1>5. /\ grown \in Block /\ grown.addr = blk.addr
      /\ next => Past(grown) = Past(list[k]) /\ blk.addr <= list[k].addr
  <2>1. CASE next
    BY <1>2, <1>3, <2>1, AbsorbFacts
  <2>2. CASE ~next
    BY <2>2
  <2> QED
    BY <2>1, <2>2
<1> HIDE DEF grown
<1>6. merged \in Block /\ merged.addr <= blk.addr /\ Past(merged) = Past(grown)
  <2>1. CASE prev
    BY <1>2, <1>3, <1>5, <2>1, AbsorbFacts
  <2>2. CASE ~prev
    <3>1. blk.addr <= blk.addr
      BY DEF Block
    <3> QED
      BY <1>5, <2>2, <3>1
  <2> QED
    BY <2>1, <2>2
<1> HIDE DEF merged
<1>7. /\ lo \in Nat /\ hi \in Nat /\ lo < hi /\ hi <= Len(list) + 1
      /\ q <= lo \/ q >= hi \/ (next /\ q = k) \/ (prev /\ q = k - 1)
  <2>1. k \in Nat /\ k >= 1 /\ k <= Len(list) + 1
    BY <1>2
  <2>2. (next => k <= Len(list)) /\ (prev => k >= 2)
    BY <1>2, <1>3
  <2>3. lo \in Nat /\ lo <= k - 1 /\ (~prev => lo = k - 1) /\ (prev => lo = k - 2)
    BY <2>1, <2>2
  <2>4. hi \in Nat /\ hi >= k /\ (~next => hi = k) /\ (next => hi = k + 1)
    BY <2>1
  <2> HIDE DEF lo, hi
  <2> QED
    BY <1>2, <2>1, <2>2, <2>3, <2>4
<1> HIDE DEF lo, hi
<1>8. CASE next /\ q = k
  <2>1. Past(merged) = RESERVED_MEMORY_SIZE
    BY <1>1, <1>5, <1>6, <1>8 DEF Ends
  <2>2. merged.addr <= h
    <3>1. merged.addr \in Nat /\ blk.addr \in Nat /\ list[k].addr \in Nat
      BY <1>2, <1>3, <1>6, <1>8 DEF Block
    <3>2. merged.addr <= blk.addr /\ blk.addr <= list[k].addr /\ list[k].addr <= h
      BY <1>1, <1>5, <1>6, <1>8 DEF Ends
    <3> QED
      BY <3>1, <3>2
  <2> QED
    BY <1>2, <1>4, <1>6, <1>7, <2>1, <2>2, SpliceReaches DEF Ends
<1>9. CASE prev /\ q = k - 1
  <2>1. blk.addr = RESERVED_MEMORY_SIZE
    BY <1>1, <1>3, <1>9 DEF Ends
  <2>2. blk.addr \in Nat /\ blk.size \in Nat /\ Past(blk) = blk.addr + 64 + blk.size
    BY DEF Block, Past
  <2> QED
    BY <1>2, <2>1, <2>2
<1>10. CASE q <= lo \/ q >= hi
  BY <1>1, <1>2, <1>4, <1>6, <1>7, <1>10, SpliceReaches
<1> QED
  BY <1>7, <1>8, <1>9, <1>10
=============================================================================
