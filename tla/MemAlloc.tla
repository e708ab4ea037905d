------------------------------ MODULE MemAlloc ------------------------------
(***************************************************************************)
(* The allocator of apps/hello_xsai/mem.c: first fit over an intrusive     *)
(* free list that is kept sorted by address, with block splitting on       *)
(* my_malloc and coalescing on my_free, inside one mmap'ed region.         *)
(*                                                                         *)
(* Addresses are byte offsets from pool_base and sizes are bytes, with the *)
(* code's 64-byte headers.  The linked list is a sequence of blocks in     *)
(* list order; the headers the code stores inside the pool are the records *)
(* of that sequence and of `live'.  A block [addr, size] occupies its      *)
(* 64-byte header and `size' bytes after it.                               *)
(*                                                                         *)
(* The program calls the allocator from one thread, so a call is one step. *)
(***************************************************************************)
EXTENDS Integers, Sequences, Functions

CONSTANTS
  RESERVED_MEMORY_SIZE,  \* bytes of the pool (1 GB in the code)
  SizeLimit,             \* SIZE_MAX + 1: size_t arithmetic is modulo this
  Requests,              \* the sizes callers pass to my_malloc
  NULL                   \* the null pointer

ALIGN == 64
ALLOC_HDR_SIZE == 64
FREE_HDR_SIZE == 64

(* The pool is a whole number of aligned blocks and holds at least one     *)
(* header; size_t can count past its end.                                  *)
ASSUME PoolAssumption ==
  /\ RESERVED_MEMORY_SIZE \in Nat
  /\ RESERVED_MEMORY_SIZE >= FREE_HDR_SIZE
  /\ RESERVED_MEMORY_SIZE % ALIGN = 0
  /\ SizeLimit \in Nat
  /\ RESERVED_MEMORY_SIZE + 2 * ALIGN < SizeLimit

(* Callers ask for sizes of matrices and test buffers: rounding them up    *)
(* with a header does not wrap size_t.  Zero is a legal request.           *)
ASSUME RequestAssumption ==
  \A s \in Requests : s \in Nat /\ s + ALLOC_HDR_SIZE + ALIGN < SizeLimit

ASSUME NullAssumption == NULL \notin Int

VARIABLES
  pool_base,  \* NULL until pool_init has mapped the pool, then offset 0
  free_list,  \* the free blocks, in list order
  live,       \* blocks handed out: header [addr, size] and the size asked for
  slivers     \* (history) blocks handed out with 64 unrecorded bytes at the end

vars == <<pool_base, free_list, live, slivers>>

Block == [addr : Nat, size : Nat]
LiveBlock == [addr : Nat, size : Nat, req : Requests]

Past(b) == b.addr + FREE_HDR_SIZE + b.size

-----------------------------------------------------------------------------
(* size_t arithmetic: one addition wraps at most once. *)
Wrap(n) == IF n >= SizeLimit THEN n - SizeLimit ELSE n

align_up(v) == LET w == Wrap(v + ALIGN - 1) IN w - (w % ALIGN)

MutantNeed(size) == align_up(size)  \* forgets the header

(* Bytes taken from the pool for a request, header included. *)
Need(size) == align_up(Wrap(size + ALLOC_HDR_SIZE))

MutantFits(b, need) == b.size + 2 * FREE_HDR_SIZE >= need

Fits(b, need) == b.size + FREE_HDR_SIZE >= need

IsFirstFit(list, need, i) ==
  /\ i \in DOMAIN list
  /\ Fits(list[i], need)
  /\ \A j \in 1..(i - 1) : ~Fits(list[j], need)

Leftover(b, need) == b.size + FREE_HDR_SIZE - need

MutantSplits(b, need) == Leftover(b, need) >= 0

(* Whether the tail of the block becomes a free block of its own. *)
Splits(b, need) == Leftover(b, need) >= FREE_HDR_SIZE + ALIGN

MutantTail(b, need) == [addr |-> b.addr + need, size |-> Leftover(b, need)]

SplitTail(b, need) ==
  [addr |-> b.addr + need, size |-> Leftover(b, need) - FREE_HDR_SIZE]

(* The list with its blocks lo+1 .. hi-1 replaced by the blocks `ins'. *)
Splice(list, lo, hi, ins) ==
  SubSeq(list, 1, lo) \o ins \o SubSeq(list, hi, Len(list))

(* Splits without unlinking the block it hands out. *)
MutantTaken(list, i, need) ==
  Splice(list, i, i + 1,
         IF Splits(list[i], need) THEN <<SplitTail(list[i], need)>> ELSE << >>)

(* The list once `need' bytes have been taken from the front of block i. *)
Taken(list, i, need) ==
  Splice(list, i - 1, i + 1,
         IF Splits(list[i], need) THEN <<SplitTail(list[i], need)>> ELSE << >>)

(* The block is inserted before the first block not below it. *)
IsInsertionPoint(list, blk, k) ==
  /\ k \in 1..(Len(list) + 1)
  /\ \A j \in 1..(k - 1) : list[j].addr < blk.addr
  /\ k <= Len(list) => list[k].addr >= blk.addr

MutantTouchesNext(list, blk, k) == FALSE

MutantTouchesPrev(list, blk, k) == FALSE

TouchesNext(list, blk, k) == k <= Len(list) /\ Past(blk) = list[k].addr

TouchesPrev(list, blk, k) == k > 1 /\ Past(list[k - 1]) = blk.addr

MutantAbsorb(a, b) == [addr |-> a.addr, size |-> a.size + b.size]

(* Block a extended over the block b that starts where a ends. *)
Absorb(a, b) == [addr |-> a.addr, size |-> a.size + FREE_HDR_SIZE + b.size]

(* The list once blk has been inserted at k and merged with its neighbours. *)
Returned(list, blk, k) ==
  LET next == TouchesNext(list, blk, k)
      prev == TouchesPrev(list, blk, k)
      grown == IF next THEN Absorb(blk, list[k]) ELSE blk
      merged == IF prev THEN Absorb(list[k - 1], grown) ELSE grown
  IN Splice(list, IF prev THEN k - 2 ELSE k - 1,
                  IF next THEN k + 1 ELSE k, <<merged>>)

WholePool == <<[addr |-> 0, size |-> RESERVED_MEMORY_SIZE - FREE_HDR_SIZE]>>

-----------------------------------------------------------------------------
Init ==
  /\ pool_base = NULL
  /\ free_list = << >>
  /\ live = {}
  /\ slivers = 0

(* The list my_malloc searches: pool_init, on the first call that succeeds *)
(* in mapping the pool, makes the whole pool one free block.               *)
ListAfterInit == IF pool_base = NULL THEN WholePool ELSE free_list

(* A request for no bytes returns NULL before the pool is looked at. *)
MallocZero == 0 \in Requests /\ UNCHANGED vars

(* open or mmap fails: my_malloc returns NULL and the next call retries. *)
MallocMapFails(size) == size # 0 /\ pool_base = NULL /\ UNCHANGED vars

(* No block is large enough: my_malloc returns NULL. *)
MallocOutOfMemory(size) ==
  /\ size # 0
  /\ \A i \in DOMAIN ListAfterInit : ~Fits(ListAfterInit[i], Need(size))
  /\ pool_base' = 0
  /\ free_list' = ListAfterInit
  /\ UNCHANGED <<live, slivers>>

(* The first block that fits is handed out: my_malloc returns its payload. *)
MallocFirstFit(size) ==
  /\ size # 0
  /\ pool_base' = 0
  /\ \E i \in DOMAIN ListAfterInit :
       LET b == ListAfterInit[i]
           need == Need(size)
       IN /\ IsFirstFit(ListAfterInit, need, i)
          /\ free_list' = Taken(ListAfterInit, i, need)
          /\ live' = live \cup
               {[addr |-> b.addr, size |-> need - ALLOC_HDR_SIZE, req |-> size]}
          /\ slivers' = IF Leftover(b, need) = ALIGN THEN slivers + 1 ELSE slivers

my_malloc(size) ==
  \/ MallocMapFails(size)
  \/ MallocOutOfMemory(size)
  \/ MallocFirstFit(size)

(* The free block made of a live one: its header is overwritten in place. *)
FreedBlock(b) ==
  [addr |-> b.addr, size |-> b.size + ALLOC_HDR_SIZE - FREE_HDR_SIZE]

(* A caller frees a block it holds.  my_free(NULL) does nothing. *)
my_free(b) ==
  /\ \E k \in 1..(Len(free_list) + 1) :
       /\ IsInsertionPoint(free_list, FreedBlock(b), k)
       /\ free_list' = Returned(free_list, FreedBlock(b), k)
  /\ live' = live \ {b}
  /\ UNCHANGED <<pool_base, slivers>>

Next ==
  \/ MallocZero
  \/ \E size \in Requests : my_malloc(size)
  \/ \E b \in live : my_free(b)

Spec == Init /\ [][Next]_vars

-----------------------------------------------------------------------------
(* The headers in the pool hold block addresses and sizes. *)
TypeOK ==
  /\ pool_base \in {NULL, 0}
  /\ free_list \in Seq(Block)
  /\ live \subseteq LiveBlock
  /\ slivers \in Nat

(* The free list is sorted by address, as the comment on free_list says,   *)
(* and no two free blocks overlap or even touch: my_free has merged every  *)
(* pair of neighbours whatever the order of the calls.                     *)
FreeListCoalesced ==
  \A i, j \in DOMAIN free_list :
    i < j => Past(free_list[i]) < free_list[j].addr

Disjoint(a, b) == Past(a) <= b.addr \/ Past(b) <= a.addr

(* No byte of a block that a caller holds, header included, belongs to     *)
(* another such block: two my_malloc calls never hand out the same memory. *)
LiveDisjoint == \A a, b \in live : a # b => Disjoint(a, b)

(* No byte of a block that a caller holds is on the free list, so writing  *)
(* to it cannot corrupt the list stored in the pool.                       *)
LiveOffFreeList ==
  \A b \in live : \A i \in DOMAIN free_list : Disjoint(b, free_list[i])

(* Every block lies in the pool; before the pool exists there is none. *)
BlocksInPool ==
  /\ \A i \in DOMAIN free_list : Past(free_list[i]) <= RESERVED_MEMORY_SIZE
  /\ \A b \in live : Past(b) <= RESERVED_MEMORY_SIZE
  /\ pool_base = NULL => free_list = << >> /\ live = {}

(* The payload is aligned for the AME and as long as the caller asked. *)
PayloadUsable ==
  \A b \in live : (b.addr + ALLOC_HDR_SIZE) % ALIGN = 0 /\ b.size >= b.req

-----------------------------------------------------------------------------
Bytes(b) == FREE_HDR_SIZE + b.size

FreeBytes == SumFunction([i \in DOMAIN free_list |-> Bytes(free_list[i])])

LiveBytes == SumFunction([b \in live |-> Bytes(b)])

(* Nothing is lost or counted twice: once the pool is mapped, its bytes    *)
(* are those of the free blocks, of the live blocks, and 64 for each block *)
(* handed out with a tail too short to become a free block.                *)
EveryByteAccounted ==
  pool_base # NULL =>
    FreeBytes + LiveBytes + ALIGN * slivers = RESERVED_MEMORY_SIZE

(* When callers have freed everything the free list is the single block    *)
(* pool_init made: mem_test.c says of its pool after freeing everything    *)
(* that it "should be fully coalesced".                                    *)
EverythingFreedIsWhole ==
  pool_base # NULL /\ live = {} => free_list = WholePool

-----------------------------------------------------------------------------
(* The aligned 64-byte units that lie on the free list. *)
FreeUnits ==
  UNION {{u \in 0..(RESERVED_MEMORY_SIZE \div ALIGN) :
            /\ free_list[i].addr <= u * ALIGN
            /\ u * ALIGN < Past(free_list[i])} : i \in DOMAIN free_list}

(* my_malloc reports "out of memory" only when it must: if some run of     *)
(* free units is long enough for a request, however many blocks it was     *)
(* freed as, then one block of the list is.                                *)
OutOfMemoryIsReal ==
  pool_base # NULL =>
    \A size \in Requests \ {0} :
      (\E u \in FreeUnits :
         u..(u + Need(size) \div ALIGN - 1) \subseteq FreeUnits)
        => \E i \in DOMAIN free_list : Fits(free_list[i], Need(size))

(* my_malloc never moves, shrinks or drops a block a caller already holds, *)
(* and the allocator is a Heap of the payloads.                            *)
Abstract == INSTANCE Heap WITH
  RegionSize <- RESERVED_MEMORY_SIZE,
  Alignment <- ALIGN,
  Sizes <- Requests,
  held <- {[ptr |-> b.addr + ALLOC_HDR_SIZE, size |-> b.req] : b \in live}

ImplementsHeap == Abstract!Spec
=============================================================================
