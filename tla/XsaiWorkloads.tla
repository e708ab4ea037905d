--------------------------- MODULE XsaiWorkloads ---------------------------
(***************************************************************************)
(* The workload table of rootfsimg/xsai-workloads.sh: which commands and   *)
(* checks each workload is made of, in which order, how the calls around   *)
(* each of them test its result, and so what its failure does to the ones  *)
(* after it, to WORKLOAD_STATUS and, under `set -e', to the shell.         *)
(*                                                                         *)
(* A stage is one command or one check of its results; `tests' are the     *)
(* tests its failure meets on the way out of the functions, the innermost  *)
(* first.  A command without a test of its own that ends its function has  *)
(* the function's.                                                         *)
(*   "return"   `|| return $?', `|| exit $?' in a subshell so tested, an   *)
(*              `if' that returns the code: the function is over           *)
(*   "keep"     the suite's `if': the first failure is kept, the next      *)
(*              model is run                                               *)
(*   "capture"  the `if' that sets WORKLOAD_STATUS                         *)
(*   "ignore"   `|| true', `|| warn', an `if' that only warns              *)
(* What the stages print, the arguments of the commands and the variables  *)
(* they export are left out.                                               *)
(***************************************************************************)
EXTENDS Naturals, Sequences

Stage(name, bin, kind) == [name |-> name, bin |-> bin, kind |-> kind, tests |-> << >>]

(* The same stages, called under one more test. *)
Under(test, stages) ==
  [i \in DOMAIN stages |->
     [stages[i] EXCEPT !.tests = Append(stages[i].tests, test)]]

(* `set -e' ends the shell when a failure meets no test but those that     *)
(* pass it on; inside a tested call it is off.                             *)
EndsShell(tests, rc) == rc # 0 /\ \A i \in DOMAIN tests : tests[i] = "return"

(* A command: 127 if its binary is missing, else whatever it exits with.   *)
Command(name, bin) == Stage(name, bin, "run")

(* A test of files the script makes: 1 if it fails. *)
Check(name) == Stage(name, "sh", "check")

(* A test that the binary can be run: 127 if not. *)
Present(bin) == Stage("present", bin, "present")

MutantRunAndCapture(bin) == <<Command(bin, bin)>>

run_and_capture(bin) == Under("capture", <<Command(bin, bin)>>)

(* The AME correctness gate; the variable XSAI_LLAMA_TEST_BACKEND_OPS can  *)
(* disable it.                                                             *)
GateStages == {"q8_0", "soft_max", "bf16_1", "bf16_2", "bf16_3"}

run_llama_test_backend_ops(gate) ==
  IF gate
  THEN Under("return", <<Command("q8_0", "test-backend-ops"),
                         Command("soft_max", "test-backend-ops"),
                         Command("bf16_1", "test-backend-ops"),
                         Command("bf16_2", "test-backend-ops"),
                         Command("bf16_3", "test-backend-ops")>>)
  ELSE << >>

run_llama_bf16_test_ops ==
  Under("return", <<Present("test-backend-ops"),
                    Command("CPY", "test-backend-ops"),
                    Command("MUL_MAT", "test-backend-ops"),
                    Command("SOFT_MAX", "test-backend-ops")>>)

(* The gate, then every model, whatever the models before it returned, and *)
(* the `return "$status"' of what they left.                               *)
run_llama_fake_bench_suite(gate) ==
  Under("return", run_llama_test_backend_ops(gate))
  \o Under("keep", <<Command("bench_15M", "llama-bench"),
                     Command("bench_1B", "llama-bench")>>)
  \o <<Stage("suite", "sh", "result")>>

run_mnn_smoke ==
  Under("return", <<Check("inputs"), Check("scratch"),
                    Command("mnn", "MNNV2Basic.out"),
                    Check("output"), Check("argmax")>>)

(* The smoke program in a mode, its scratch directory, and the comparison  *)
(* of its outputs: what they return is NcnnSmoke's.                        *)
Smoke(kind, name) == Stage(name, "ncnn_ame_smoke", kind)

run_ncnn_smoke(ncnn_test) ==
  Under("return",
        <<Present("ncnn_ame_smoke"), Smoke("mktemp", "scratch"),
          Smoke("smoke", "ref"), Smoke("smoke", "ame"), Smoke("cmp", "cmp")>>
        \o IF ncnn_test THEN <<Command("convolution", "ncnn_test_convolution_3")>>
                        ELSE << >>)

(* Workloads that do nothing, and those that are one command. *)
Idle == {"none", "shell"}

Single == {"hello_xsai", "gemm_precomp", "pmu_test", "llama-bench",
           "llama-simple", "llama-simple-xsai", "llama-xsai"}

Staged == {"test-backend-ops", "llama-bf16-test-ops", "llama-fake-bench-suite",
           "mnn-smoke", "ncnn-smoke"}

BinaryOf(w) ==
  IF w \in {"llama-simple", "llama-simple-xsai"} THEN "llama-simple-xsai" ELSE w

(* The stages of a workload under a configuration; a name the table does   *)
(* not have has none.                                                      *)
StagesOf(w, gate, ncnn_test) ==
  CASE w \in {"hello_xsai", "gemm_precomp", "pmu_test"} -> run_and_capture(w)
    [] w \in {"llama-bench", "llama-simple", "llama-simple-xsai", "llama-xsai"} ->
         Under("capture", <<Command(w, BinaryOf(w))>>)
    [] w = "test-backend-ops" -> Under("capture", run_llama_test_backend_ops(gate))
    [] w = "llama-bf16-test-ops" -> Under("capture", run_llama_bf16_test_ops)
    [] w = "llama-fake-bench-suite" ->
         Under("capture", run_llama_fake_bench_suite(gate))
    [] w = "mnn-smoke" -> Under("capture", run_mnn_smoke)
    [] w = "ncnn-smoke" -> Under("capture", run_ncnn_smoke(ncnn_test))
    [] OTHER -> << >>

MutantLastResult(status, rc) == rc

MutantSum(status, rc) == status + rc

(* The suite keeps the first failure of its models. *)
FirstFailure(status, rc) == IF status = 0 THEN rc ELSE status

Innermost(stage) == IF stage.tests = << >> THEN "none" ELSE stage.tests[1]

(* A code that only the last test of all would see, and that is not the    *)
(* code of the last command: nothing keeps it.                             *)
Lost(stages) == Innermost(Head(stages)) = "capture" /\ Tail(stages) # << >>

MutantRemaining(stages, rc) == Tail(stages)

(* What is left to run after a stage returned rc.  A function that returns *)
(* the code of its stage is itself tested by a caller that returns it or   *)
(* is done, so that nothing of the workload is left.                       *)
Remaining(stages, rc) ==
  IF rc # 0 /\ Innermost(Head(stages)) = "return" THEN << >> ELSE Tail(stages)
=============================================================================
