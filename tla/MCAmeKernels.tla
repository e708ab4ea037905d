---------------------------- MODULE MCAmeKernels ----------------------------
(* Tiles of two and of four rows and columns; a shape narrower than a tile *)
(* that is clipped in m and, after three blocks, in k; then one with an    *)
(* edge in each dimension.                                                 *)
EXTENDS AmeKernels

S(m, n, k) == [m |-> m, n |-> n, k |-> k]

MCshapes == <<S(5, 1, 7), S(3, 3, 3)>>
MCtile_sets == <<S(2, 2, 2), S(4, 4, 2)>>
MCf16_shape == S(2, 3, 4)
=============================================================================
