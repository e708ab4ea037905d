SPECIFICATION Spec
CONSTANTS
  Workloads = {"none", "hello_xsai", "llama-simple", "test-backend-ops",
               "llama-bf16-test-ops", "llama-fake-bench-suite", "mnn-smoke",
               "ncnn-smoke", "typo"}
  ExitCodes = {5, 7}
  Binaries = {"test-backend-ops", "llama-bench", "after_workload", "ncnn_ame_smoke"}
  Int8Cases = 2
  Bf16Cases = 1
  Rooms = {0, 1, 3, 4, 5}
  NoStatus = NoStatus
INVARIANTS
  TypeOK
  StatusIsFirstFailure
  BenchOnlyAfterGate
  SmokePassIsReal
PROPERTIES
  WorkloadNeverKillsInit
  UnattendedRunsEnd
CHECK_DEADLOCK FALSE
