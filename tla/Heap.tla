-------------------------------- MODULE Heap --------------------------------
(***************************************************************************)
(* What callers of my_malloc and my_free (apps/hello_xsai/mem.h) rely on:  *)
(* a pointer handed out is aligned for the AME, its bytes lie in the       *)
(* reserved region, no two live allocations share a byte, and nothing but  *)
(* my_free ends an allocation.  A request may be refused at any time.      *)
(***************************************************************************)
EXTENDS Integers

CONSTANTS
  RegionSize,  \* bytes of the reserved region
  Alignment,   \* alignment of every pointer handed out
  Sizes        \* the sizes callers ask for

VARIABLE held  \* the allocations callers hold: records [ptr, size]

(* The payloads a and b have no byte in common. *)
Apart(a, b) == a.ptr + a.size <= b.ptr \/ b.ptr + b.size <= a.ptr

Grant(size) ==
  \E ptr \in 0..RegionSize :
    LET e == [ptr |-> ptr, size |-> size] IN
      /\ ptr % Alignment = 0
      /\ ptr + size <= RegionSize
      /\ \A h \in held : Apart(e, h)
      /\ held' = held \cup {e}

Release(e) == held' = held \ {e}

Init == held = {}

Next ==
  \/ \E size \in Sizes : Grant(size)
  \/ \E e \in held : Release(e)

Spec == Init /\ [][Next]_held
=============================================================================
