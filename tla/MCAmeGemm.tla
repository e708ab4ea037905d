----------------------------- MODULE MCAmeGemm -----------------------------
(* A zero, a positive and a negative tile. *)
EXTENDS AmeGemm

MCValues == {-1, 0, 2}
=============================================================================
