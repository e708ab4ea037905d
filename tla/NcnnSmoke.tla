----------------------------- MODULE NcnnSmoke -----------------------------
(***************************************************************************)
(* apps/ncnn/ncnn_ame_smoke.cpp, the program of the ncnn-smoke workload:   *)
(* it computes the same convolutions in two modes, "ref" with the stock    *)
(* kernels and "ame" with those of the matrix extension, and writes the    *)
(* results of the int8 cases and of the bf16 cases to a file each, which   *)
(* the workload then compares.                                             *)
(*                                                                         *)
(* The result of an int8 case is "reference", what the stock kernel        *)
(* computes, or "other"; that of a bf16 case is "near" its scalar          *)
(* reference, "far" from it, or "nan".  The convolutions are NCNN's.       *)
(***************************************************************************)
EXTENDS Integers, Sequences

CONSTANTS
  Int8Cases,   \* how many int8 cases
  Bf16Cases    \* how many bf16 cases

ASSUME CasesAssumption == Int8Cases \in Nat \ {0} /\ Bf16Cases \in Nat

Int8Results(mode) == IF mode = "ref" THEN {"reference"} ELSE {"reference", "other"}

(* The stock kernel computes in fp32, off the bf16 grid. *)
Bf16Results(mode) == IF mode = "ref" THEN {"far"} ELSE {"near", "far", "nan"}

(* The results printed before the first case that fails. *)
UpTo(results, most) == UNION {[1..k -> results] : k \in 0..most}

(* The program's own gate on a bf16 result.  The difference of a NaN is    *)
(* not greater than the tolerance.                                         *)
Accepted(mode, result) == mode = "ref" \/ result # "far"

AllRun(int8, bf16) == Len(int8) = Int8Cases /\ Len(bf16) = Bf16Cases

(* A case is run only if those before it did not fail. *)
InOrder(int8, bf16) == bf16 # << >> => Len(int8) = Int8Cases

(* The program prints these results and ends with rc; `signals' are the    *)
(* codes it can be killed with, in any case.  Status 2: it cannot open one *)
(* of its files.  Status 255, main's -1: a layer cannot be made or run, or *)
(* its bf16 result is refused.                                             *)
SmokeMain(mode, int8, bf16, rc, signals) ==
  /\ InOrder(int8, bf16)
  /\ \A i \in DOMAIN bf16 : Accepted(mode, bf16[i])
  /\ \/ rc = 0 /\ AllRun(int8, bf16)
     \/ rc = 2 /\ int8 = << >> /\ bf16 = << >>
     \/ rc \in {255} \cup signals /\ ~AllRun(int8, bf16)

(* The scratch directory: how many more results it has room for, and the   *)
(* int8 files; `ame' is (history) what the AME kernels computed.           *)
NoScratch ==
  [room |-> 0, ref_txt |-> << >>, ame_txt |-> << >>,
   ame |-> [int8 |-> << >>, bf16 |-> << >>]]

Fits(results, room) ==
  SubSeq(results, 1, IF Len(results) < room THEN Len(results) ELSE room)

RoomAfter(room, int8, bf16) ==
  LET used == Len(int8) + Len(bf16) IN IF used < room THEN room - used ELSE 0

(* Nobody looks at what fprintf, fflush and fclose return: where the       *)
(* directory is full the rest is lost.                                     *)
Written(scratch, mode, int8, bf16) ==
  LET left == [scratch EXCEPT !.room = RoomAfter(@, int8, bf16)] IN
  IF mode = "ref"
  THEN [left EXCEPT !.ref_txt = Fits(int8, scratch.room)]
  ELSE [left EXCEPT !.ame_txt = Fits(int8, scratch.room),
                    !.ame = [int8 |-> int8, bf16 |-> bf16]]

MutantSameOutputs(scratch) == scratch.ref_txt = scratch.ame_txt

(* test -s of both files and cmp -s; the bf16 files are not compared. *)
SameOutputs(scratch) ==
  /\ scratch.ref_txt # << >> /\ scratch.ame_txt # << >>
  /\ scratch.ref_txt = scratch.ame_txt
=============================================================================
