----------------------------- MODULE MCMemAlloc -----------------------------
(***************************************************************************)
(* Model checking of MemAlloc: a pool of ten 64-byte units.                *)
(***************************************************************************)
EXTENDS MemAlloc

MCPoolSize == 640

(* size_t holds values up to 2047. *)
MCSizeLimit == 2048

(* No bytes, one unit exactly filled, one byte over it, three units, and   *)
(* more than the pool can serve once it has been split.                    *)
MCRequests == {0, 64, 65, 192, 500}
=============================================================================
