----------------------------- MODULE AmeKernels -----------------------------
(***************************************************************************)
(* apps/mnn/test_ame_kernels.c: a matrix product of any shape, computed    *)
(* tile by tile on the AME.  The rows of both operands are packed into     *)
(* blocks of a pool that all tiles and all cases use again, the AME        *)
(* multiplies the blocks into a tile of a third pool, and the real part of *)
(* that tile is copied out and compared with a scalar product.             *)
(*                                                                         *)
(* Arrays are flat, as in the code.  An element of a product is the sum    *)
(* that was computed and how far off the AME stored it: exactly, near (a   *)
(* float within the tolerance of the comparison), far, or not a number.    *)
(* The rounding of bfloat16 sums, which the tolerance is for, and the      *)
(* cycle counts at the end of main are left out.                           *)
(*                                                                         *)
(* Its names are apart from those of AmeGemm, the other programs on the    *)
(* AME, so that they can be reasoned about together.                       *)
(***************************************************************************)
EXTENDS Integers, Sequences, FiniteSetsExt, SequencesExt

CONSTANTS
  shapes,         \* the sequence of the shapes [m, n, k] to be tried
  tile_sets,      \* the two tiles [m, n, k] of the int8 kernel
  bf16_tile_k,    \* tile_k of the bfloat16 kernel
  f16_shape,      \* the shape of the case with converted fp16 operands
  MAXM, MAXN, MAXK,
  Capacities,     \* rows and columns the hardware may report, 0 without AME
  MaxFaults       \* bound: wrong elements the AME produces in a run

Shape == [m : Nat \ {0}, n : Nat \ {0}, k : Nat \ {0}]

ASSUME ShapeAssumption ==
  /\ shapes \in Seq(Shape) /\ tile_sets \in [1..2 -> Shape]
  /\ f16_shape \in Shape /\ bf16_tile_k \in Nat \ {0}
  /\ MAXM \in Nat \ {0} /\ MAXN \in Nat \ {0} /\ MAXK \in Nat \ {0}
  /\ Capacities \subseteq Nat /\ MaxFaults \in Nat

(* The tiles fit in the pools, whose depth is a whole number of blocks,   *)
(* and the case that is not clipped fits in the arrays.                    *)
ASSUME TileAssumption ==
  /\ \A ts \in 1..2 : /\ tile_sets[ts].m <= MAXM /\ tile_sets[ts].n <= MAXN
                       /\ tile_sets[ts].k <= MAXK /\ MAXK % tile_sets[ts].k = 0
                       /\ tile_sets[ts].m * tile_sets[ts].n <= MAXN * MAXN
  /\ bf16_tile_k <= MAXK /\ MAXK % bf16_tile_k = 0
  /\ f16_shape.m <= MAXM /\ f16_shape.n <= MAXN /\ f16_shape.k <= MAXK

VARIABLES
  at,        \* where the program is
  cases,     \* the cases of this target, in order
  case,      \* the one being tried
  m0, n0,    \* the corner of the tile being computed
  a_rows, bt_rows,  \* the operands, the second transposed
  pool_a, pool_b, pool_c,
  out,       \* the product, as far as it has been computed
  fails,     \* failures of the target's tile
  altFails,  \* failures of the other one
  faults,    \* (history) the error of each <<case, row, column>> the AME got wrong
  exit_code  \* the exit code, -1 while the program runs

kernels_vars == <<at, cases, case, m0, n0, a_rows, bt_rows, pool_a, pool_b, pool_c, out,
          fails, altFails, faults, exit_code>>

counts == <<fails, altFails, exit_code>>

-----------------------------------------------------------------------------
k_tiles_of(k, tk) == (k + tk - 1) \div tk

Clipped(s) == [m |-> Min({s.m, MAXM}), n |-> Min({s.n, MAXN}),
               k |-> Min({s.k, MAXK})]

CaseOf(type, s, tile, primary) ==
  [type |-> type, m |-> s.m, n |-> s.n, k |-> s.k, tm |-> tile.m, tn |-> tile.n, tk |-> tile.k,
   primary |-> primary]

(* The target's own tile is tried, the other one on request; the wide one  *)
(* only where the hardware has room for it, of which there is always       *)
(* enough for the portable one.                                            *)
Tried(ts, hw, spec, alt) ==
  /\ ts = spec \/ alt
  /\ ts = 2 => LET m_max == Max({hw, tile_sets[1].m}) IN
               LET n_max == Max({hw, tile_sets[1].n}) IN
               m_max >= tile_sets[2].m /\ n_max >= tile_sets[2].n

BF16Tile(ts) == [tile_sets[ts] EXCEPT !.k = bf16_tile_k]

(* The cases where the probe found capacity hw, the target uses tile spec, *)
(* and alt says whether XSAI_AME_ALT_SPEC is set: int8, then bfloat16 with *)
(* one and with two pairs of registers, then fp16 operands with the        *)
(* target's tile, whatever it is.                                          *)
Cases(hw, spec, alt) ==
  LET CasesOf(type, ts, tile) ==
        IF Tried(ts, hw, spec, alt)
        THEN [s \in DOMAIN shapes |-> CaseOf(type, Clipped(shapes[s]), tile, ts = spec)]
        ELSE << >> IN
  FlattenSeq(<<CasesOf("int8", 1, tile_sets[1]), CasesOf("int8", 2, tile_sets[2]),
               CasesOf("bf16", 1, BF16Tile(1)), CasesOf("bf16", 1, BF16Tile(1)),
               CasesOf("bf16", 2, BF16Tile(2)), CasesOf("bf16", 2, BF16Tile(2)),
               <<CaseOf("f16", f16_shape, BF16Tile(spec), TRUE)>>>>)

tried == cases[case]

(* rnd8 and rnd_bf16_float: the i-th number drawn for a case. *)
Random(i) == ((case + 3 * i + i * i) % 11) - 5

(* The scalar product of row i of a and row j of bt. *)
Dot(row, col, i, j, k) ==
  SumFunction([x \in 0..(k - 1) |-> row[i * k + x] * col[j * k + x]])

reference == [q \in 0..(tried.m * tried.n - 1) |->
                Dot(a_rows, bt_rows, q \div tried.n, q % tried.n, tried.k)]

MutantPackRows(dst, src, row, rows, tm) ==
  [p \in DOMAIN dst |->
     LET t == p \div (tm * tried.tk) IN
     LET r == (p \div tried.tk) % tm IN
     LET kk == t * tried.tk + (p % tried.tk) IN
     IF t < k_tiles_of(tried.k, tried.tk) /\ r < rows /\ kk < tried.k
     THEN src[(row + r) * tried.k + kk]
     ELSE dst[p]]

(* Block t holds columns t*tk on of tm rows of src from row on: zeros      *)
(* beyond the last column and beyond the rows there are.                   *)
pack_rows(dst, src, row, rows, tm) ==
  [p \in DOMAIN dst |->
     LET t == p \div (tm * tried.tk) IN
     LET r == (p \div tried.tk) % tm IN
     LET kk == t * tried.tk + (p % tried.tk) IN
     IF t >= k_tiles_of(tried.k, tried.tk) THEN dst[p]
     ELSE IF r < rows /\ kk < tried.k THEN src[(row + r) * tried.k + kk]
     ELSE 0]

(* The rows of the tile that are rows of the matrix. *)
RowsFrom(first, all, tile) == Min({all - first, tile})

mrows == RowsFrom(m0, tried.m, tried.tm)
nrows == RowsFrom(n0, tried.n, tried.tn)

(* The kernel's product of block t of both pools, summed over the blocks.  *)
TileElement(r, col) ==
  SumFunction([x \in 0..(k_tiles_of(tried.k, tried.tk) * tried.tk - 1) |->
    LET t == x \div tried.tk IN
    pool_a[(t * tried.tm + r) * tried.tk + (x % tried.tk)]
      * pool_b[(t * tried.tn + col) * tried.tk + (x % tried.tk)]])

(* What the AME may have stored in place of a sum: only a float is ever no *)
(* number.                                                                 *)
Element(sum, error) == [sum |-> sum, error |-> error]

Errors(type) == {"near", "far"} \cup (IF type = "int8" THEN {} ELSE {"nan"})

-----------------------------------------------------------------------------
(* Places for an element, which may have two bytes. *)
PoolA == 0..(MAXM * MAXK - 1)
PoolB == 0..(MAXN * MAXK - 1)
PoolC == 0..(MAXN * MAXN - 1)

KernelsInit ==
  /\ \E hw \in Capacities, spec \in 1..2, alt \in BOOLEAN : cases = Cases(hw, spec, alt)
  /\ at = "alloc_a" /\ case = 1 /\ m0 = 0 /\ n0 = 0
  /\ a_rows = << >> /\ bt_rows = << >> /\ out = << >>
  /\ pool_a = << >> /\ pool_b = << >> /\ pool_c = << >>
  /\ fails = 0 /\ altFails = 0 /\ faults = << >> /\ exit_code = -1

NoMemory == at' = "exit" /\ exit_code' = 1

(* One pool after the other is filled with zeros, unless there is no       *)
(* memory for it.                                                          *)
pool_alloc ==
  /\ \/ /\ at = "alloc_a" /\ at' = "alloc_b" /\ pool_a' = [p \in PoolA |-> 0]
        /\ UNCHANGED <<pool_b, pool_c, exit_code>>
     \/ /\ at = "alloc_b" /\ at' = "alloc_c" /\ pool_b' = [p \in PoolB |-> 0]
        /\ UNCHANGED <<pool_a, pool_c, exit_code>>
     \/ /\ at = "alloc_c" /\ at' = "malloc" /\ pool_c' = [p \in PoolC |-> Element(0, "none")]
        /\ UNCHANGED <<pool_a, pool_b, exit_code>>
     \/ /\ at \in {"alloc_a", "alloc_b", "alloc_c"} /\ NoMemory
        /\ UNCHANGED <<pool_a, pool_b, pool_c>>
  /\ UNCHANGED <<cases, case, m0, n0, a_rows, bt_rows, out, fails, altFails, faults>>

(* The host's own arrays, all or none. *)
host_malloc ==
  /\ at = "malloc"
  /\ \/ at' = "fill" /\ UNCHANGED exit_code
     \/ NoMemory
  /\ UNCHANGED <<cases, case, m0, n0, a_rows, bt_rows, pool_a, pool_b, pool_c, out, fails,
                 altFails, faults>>

(* The operands of a case, and a product of zeros. *)
BeginCase ==
  /\ at = "fill"
  /\ a_rows' = [i \in 0..(tried.m * tried.k - 1) |-> Random(i)]
  /\ bt_rows' = [i \in 0..(tried.n * tried.k - 1) |-> Random(tried.m * tried.k + i)]
  /\ out' = [q \in 0..(tried.m * tried.n - 1) |-> Element(0, "none")]
  /\ m0' = 0 /\ n0' = 0 /\ at' = "pack_b"
  /\ UNCHANGED <<cases, case, pool_a, pool_b, pool_c, faults, counts>>

PackB ==
  /\ at = "pack_b"
  /\ pool_b' = pack_rows(pool_b, bt_rows, n0, nrows, tried.tn)
  /\ at' = "pack_a"
  /\ UNCHANGED <<cases, case, m0, n0, a_rows, bt_rows, pool_a, pool_c, out, faults, counts>>

PackA ==
  /\ at = "pack_a"
  /\ pool_a' = pack_rows(pool_a, a_rows, m0, mrows, tried.tm)
  /\ at' = "kernel"
  /\ UNCHANGED <<cases, case, m0, n0, a_rows, bt_rows, pool_b, pool_c, out, faults, counts>>

(* The AME overwrites a tile of pool_c.  A faulty one may get one of the   *)
(* corners wrong: the first is always part of the matrix, the last may lie *)
(* beyond its edge.                                                        *)
xsai_ame_gemm_tile_kloop ==
  /\ at = "kernel"
  /\ \E wrong \in SUBSET {0, tried.tm * tried.tn - 1} :
     \E error \in [wrong -> Errors(tried.type)] :
       /\ Cardinality(DOMAIN faults) + Cardinality(wrong) <= MaxFaults
       /\ pool_c' = [p \in DOMAIN pool_c |->
            IF p >= tried.tm * tried.tn THEN pool_c[p]
            ELSE Element(TileElement(p \div tried.tn, p % tried.tn),
                         IF p \in wrong THEN error[p] ELSE "none")]
       /\ faults' =
            [x \in DOMAIN faults \cup
                  {<<case, m0 + (p \div tried.tn), n0 + (p % tried.tn)>> : p \in wrong} |->
               IF x \in DOMAIN faults THEN faults[x]
               ELSE error[(x[2] - m0) * tried.tn + (x[3] - n0)]]
  /\ at' = "copy"
  /\ UNCHANGED <<cases, case, m0, n0, a_rows, bt_rows, pool_a, pool_b, out, counts>>

(* The tile's part of the product is copied; then the next tile, down the  *)
(* rows first.                                                             *)
CopyTile ==
  /\ at = "copy"
  /\ out' = [q \in DOMAIN out |->
       LET i == (q \div tried.n) - m0 IN
       LET j == (q % tried.n) - n0 IN
       IF i \in 0..(mrows - 1) /\ j \in 0..(nrows - 1)
       THEN pool_c[i * tried.tn + j] ELSE out[q]]
  /\ IF m0 + tried.tm < tried.m
     THEN m0' = m0 + tried.tm /\ at' = "pack_a" /\ UNCHANGED n0
     ELSE /\ m0' = 0 /\ n0' = n0 + tried.tn
          /\ at' = IF n0' < tried.n THEN "pack_b" ELSE "compare"
  /\ UNCHANGED <<cases, case, a_rows, bt_rows, pool_a, pool_b, pool_c, faults, counts>>

MutantIsBad == \E q \in DOMAIN out : out[q].error # "nan"
                 /\ (out[q].sum # reference[q] \/ out[q].error = "far")

(* Integers have to be equal.  For floats only a distance above the        *)
(* tolerance counts: that of a value that is no number compares as false.  *)
Unequal(x, y) == x.sum # y \/ x.error # "none"

Exceeds(x, y) == x.error # "nan" /\ (x.sum # y \/ x.error = "far")

IsBad == \E q \in DOMAIN out :
  IF tried.type = "int8" THEN Unequal(out[q], reference[q]) ELSE Exceeds(out[q], reference[q])

(* A bad case counts against the tile it was tried with. *)
report_case ==
  /\ at = "compare"
  /\ fails' = fails + (IF IsBad /\ tried.primary THEN 1 ELSE 0)
  /\ altFails' = altFails + (IF IsBad /\ ~tried.primary THEN 1 ELSE 0)
  /\ IF case < Len(cases)
     THEN case' = case + 1 /\ at' = "fill" /\ UNCHANGED exit_code
     ELSE at' = "end" /\ exit_code' = (IF fails' > 0 THEN 1 ELSE 0) /\ UNCHANGED case
  /\ UNCHANGED <<cases, m0, n0, a_rows, bt_rows, pool_a, pool_b, pool_c, out, faults>>

run_int8_case == PackB \/ PackA \/ xsai_ame_gemm_tile_kloop \/ CopyTile

KernelsNext == pool_alloc \/ host_malloc \/ BeginCase \/ run_int8_case \/ report_case

KernelsSpec == KernelsInit /\ [][KernelsNext]_kernels_vars

-----------------------------------------------------------------------------
(* The elements of the product that lie in tiles already copied. *)
Computed(q) ==
  LET i == q \div tried.n IN
  LET j == q % tried.n IN
  at = "compare" \/ j < n0 \/ (j < n0 + tried.tn /\ i < m0)

Error(i, j) ==
  IF <<case, i, j>> \in DOMAIN faults THEN faults[<<case, i, j>>] ELSE "none"

(* The parts of the product copied so far equal the scalar product, for    *)
(* every shape and tile, each with the error the AME made there, if any;   *)
(* the others are still zero.  What an earlier tile or case of another     *)
(* shape left in the pools never shows.                                    *)
TilesMatchReference ==
  at \in {"pack_b", "pack_a", "kernel", "copy", "compare"} =>
    \A q \in DOMAIN out :
      out[q] = IF ~Computed(q) THEN Element(0, "none")
               ELSE Element(reference[q], Error(q \div tried.n, q % tried.n))

(* Every wrong integer is to be noticed, but of the floats only those far  *)
(* off: one within the tolerance is right, and one that is no number is    *)
(* not told from it.                                                       *)
Noticed(type, error) == type = "int8" \/ error = "far"

(* The cases that the AME noticeably spoilt within the matrix. *)
BadCases == {d \in 1..Len(cases) :
  \E i \in 0..(cases[d].m - 1), j \in 0..(cases[d].n - 1) :
    <<d, i, j>> \in DOMAIN faults /\ Noticed(cases[d].type, faults[<<d, i, j>>])}

(* At the end each case that the AME noticeably spoilt has been counted    *)
(* once, against the right tile, and no other case has: a fault beyond the *)
(* edge or of the other tile does not make the target fail, and a float    *)
(* that is no number passes.  The program succeeds only if it has tried    *)
(* every case and the target's tile did not fail, never when it ran out of *)
(* memory.                                                                 *)
VerdictCountsFaults ==
  /\ at = "end" =>
       /\ fails = Cardinality({d \in BadCases : cases[d].primary})
       /\ altFails = Cardinality({d \in BadCases : ~cases[d].primary})
  /\ at \in {"end", "exit"} =>
       (exit_code = 0 <=> at = "end" /\ \A d \in BadCases : ~cases[d].primary)
=============================================================================
