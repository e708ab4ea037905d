------------------------------ MODULE MemTest ------------------------------
(***************************************************************************)
(* apps/hello_xsai/mem_test.c: the eight unit tests of the allocator as    *)
(* the calls they make, in order.  Pointers are named by the place they    *)
(* have in the array of their test; local variables are numbered likewise. *)
(* The bytes that test 5 writes and reads back are left out.               *)
(***************************************************************************)
EXTENDS Integers, Sequences

CONSTANTS
  N_PTRS,   \* blocks of tests 1 and 2 (16 in the code)
  CHUNK,    \* their size (4096)
  N_ALIGN,  \* blocks of test 4 (8)
  M,        \* blocks of test 6 (64)
  SMALL     \* their size (512)

(* An array of C has an element, and only the last test asks for no bytes. *)
ASSUME ScaleAssumption ==
  /\ N_PTRS \in Nat \ {0} /\ N_ALIGN \in Nat /\ M \in Nat \ {0, 1}
  /\ CHUNK \in Nat \ {0, 1} /\ SMALL \in Nat \ {0}

big == -1

Slots == {big} \cup 0..3 \cup 0..(N_PTRS - 1) \cup 0..(N_ALIGN - 1) \cup 0..(M - 1)

(* The stack frame of a test: nothing in it has a value yet. *)
Enter == <<[op |-> "enter"]>>

Malloc(p, size) == <<[op |-> "malloc", ptr |-> p, size |-> size, loop |-> FALSE]>>

(* The loop `ptrs[i] = my_malloc(size)' that breaks off at the first NULL. *)
MallocLoop(count, size) ==
  [k \in 1..count |-> [op |-> "malloc", ptr |-> k - 1, size |-> size, loop |-> k > 1]]

(* The loop that asks for all of the sizes, whatever it gets. *)
MallocEach(sizes) ==
  [k \in DOMAIN sizes |->
     [op |-> "malloc", ptr |-> k - 1, size |-> sizes[k], loop |-> FALSE]]

Free(p) == <<[op |-> "free", ptr |-> p]>>

(* The loop that frees the pointers ps, in this order. *)
FreeEach(ps) == [k \in DOMAIN ps |-> [op |-> "free", ptr |-> ps[k]]]

(* CHECK: all pointers of ps are blocks, in test 4 aligned ones; p is NULL. *)
CheckHeld(ps, aligned) == <<[op |-> "check_held", ptrs |-> ps, aligned |-> aligned]>>
CheckNull(p) == <<[op |-> "check_null", ptr |-> p]>>

AllocCheckFree(p, size) == Malloc(p, size) \o CheckHeld({p}, FALSE) \o Free(p)

test_basic == Enter \o AllocCheckFree(0, 128) \o AllocCheckFree(1, 128)

test_multi_alloc_free_forward ==
  Enter \o MallocLoop(N_PTRS, CHUNK) \o CheckHeld(0..(N_PTRS - 1), FALSE)
  \o FreeEach([k \in 1..N_PTRS |-> k - 1])
  \o AllocCheckFree(big, CHUNK * N_PTRS)

test_multi_alloc_free_reverse ==
  Enter \o MallocLoop(N_PTRS, CHUNK) \o CheckHeld(0..(N_PTRS - 1), FALSE)
  \o FreeEach([k \in 1..N_PTRS |-> N_PTRS - k])
  \o AllocCheckFree(big, CHUNK * N_PTRS)

(* a, b, c and b2 are 0 to 3. *)
test_fragmentation ==
  Enter \o Malloc(0, CHUNK) \o Malloc(1, CHUNK) \o Malloc(2, CHUNK)
  \o CheckHeld(0..2, FALSE) \o Free(1)
  \o Malloc(3, CHUNK \div 2) \o CheckHeld({3}, FALSE)
  \o Free(0) \o Free(3) \o Free(2)
  \o AllocCheckFree(big, CHUNK * 3)

test_alignment ==
  Enter \o MallocEach([k \in 1..N_ALIGN |-> 1 + (k - 1) * 13])
  \o CheckHeld(0..(N_ALIGN - 1), TRUE)
  \o FreeEach([k \in 1..N_ALIGN |-> k - 1])

test_write_read == Enter \o AllocCheckFree(0, 1024)

(* The blocks at even places are freed first, then those between them. *)
test_full_coalesce ==
  Enter \o MallocLoop(M, SMALL) \o CheckHeld(0..(M - 1), FALSE)
  \o FreeEach([k \in 1..((M + 1) \div 2) |-> 2 * k - 2])
  \o FreeEach([k \in 1..(M \div 2) |-> 2 * k - 1])
  \o AllocCheckFree(big, SMALL * M)

test_zero_alloc == Enter \o Malloc(0, 0) \o CheckNull(0) \o Free(0)

mem_test_calls ==
  test_basic \o test_multi_alloc_free_forward \o test_multi_alloc_free_reverse
  \o test_fragmentation \o test_alignment \o test_write_read
  \o test_full_coalesce \o test_zero_alloc

(* The sizes mem_test asks for. *)
TestSizes ==
  {128, CHUNK, CHUNK * N_PTRS, CHUNK \div 2, CHUNK * 3, 1024, SMALL, SMALL * M, 0}
  \cup {1 + k * 13 : k \in 0..(N_ALIGN - 1)}
=============================================================================
