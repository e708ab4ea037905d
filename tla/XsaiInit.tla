------------------------------ MODULE XsaiInit ------------------------------
(***************************************************************************)
(* PID 1 of the XSAI guest: rootfsimg/init-disk-xsai.sh with the functions *)
(* of xsai-init-common.sh, under `set -eu'.  It prepares the system, reads *)
(* its configuration from the image and the kernel command line, runs the  *)
(* selected workload, hands the status to the simulator, and ends in a     *)
(* shell or in a power-off.                                                *)
(*                                                                         *)
(* A command fails or succeeds as the environment likes; the ncnn-smoke    *)
(* workload is composed with its program and the files it leaves.  Every   *)
(* call carries the tests around it: if a command fails and none of them   *)
(* stops the failure, `set -e' ends PID 1 and the kernel panics.           *)
(***************************************************************************)
EXTENDS XsaiWorkloads, NcnnSmoke, SequencesExt

CONSTANTS
  Workloads,   \* values of WORKLOAD
  ExitCodes,   \* nonzero exit codes of the commands
  Binaries,    \* binaries that an image may lack
  Rooms,       \* results the file system of /tmp may have room for
  NoStatus     \* no status has been reported

ASSUME CodeAssumption ==
  ExitCodes \subseteq 1..254 /\ Rooms \subseteq Nat /\ NoStatus \notin Nat

Modes == {"ci", "manual", "shell", "none", "other"}

VARIABLES
  phase,    \* "env", "main", "workload", "finish", or how it ended
  step,     \* the next step of env_init
  cfg,      \* the configuration
  missing,  \* binaries the image lacks
  stages,   \* stages of the workload still to be run
  ran,      \* (history) the stages run, with their return codes
  status,   \* WORKLOAD_STATUS
  scratch,  \* the scratch directory of ncnn-smoke
  told      \* the status after_workload gave the simulator

vars == <<phase, step, cfg, missing, stages, ran, status, scratch, told>>

(* simulation_over: the simulator stopped at after_workload's signal. *)
Ended == {"shell", "power_off", "exited", "panic", "simulation_over"}

(* The command line can also set the workload to "none". *)
Config == [mode : Modes, workload : Workloads \cup {"none"}, auto_exit : BOOLEAN,
           drop_shell : BOOLEAN, run_after : BOOLEAN, gate : BOOLEAN,
           ncnn_test : BOOLEAN]

(* The configuration the Makefile puts into /etc/xsai-init.conf for an     *)
(* XSAI_INIT_MODE; the workload and the options can be set on its command  *)
(* line.                                                                   *)
ImageConfig(mode, workload, gate, ncnn_test) ==
  [mode |-> mode, workload |-> workload,
   auto_exit |-> mode = "ci", drop_shell |-> mode # "ci",
   run_after |-> TRUE, gate |-> gate, ncnn_test |-> ncnn_test]

(* The steps of env_init, and how their failures are tested. *)
EnvSteps ==
  <<[does |-> "busybox --install", tests |-> << >>],
    [does |-> "mount /proc, /sys, /dev", tests |-> << >>],
    [does |-> "read /proc/cmdline", tests |-> << >>],
    [does |-> "mkdir /models", tests |-> << >>],
    [does |-> "mount /dev/vda", tests |-> <<"ignore">>],
    [does |-> "write perf_user_access and thp", tests |-> << >>],
    [does |-> "make dsid cgroups", tests |-> << >>],
    [does |-> "mount dsid cgroups", tests |-> <<"ignore">>],
    [does |-> "set dsids", tests |-> <<"ignore">>],
    [does |-> "probe AME", tests |-> <<"ignore">>]>>

(* The greps of dump_thp_counters, and the call of after_workload, which   *)
(* dies of an unknown instruction where there is no simulator.             *)
dump_thp_counters == <<"ignore">>

after_workload == <<"ignore">>

(* Where PID 1 is after a call that returned rc. *)
Onward(tests, rc, next) == IF EndsShell(tests, rc) THEN "panic" ELSE next

-----------------------------------------------------------------------------
Init ==
  /\ phase = "env" /\ step = 1
  /\ \E mode \in {"ci", "manual", "shell"}, w \in Workloads, option \in BOOLEAN :
       cfg = ImageConfig(mode, w, option, option)
  /\ missing \in {{}} \cup {{b} : b \in Binaries}
  /\ stages = << >> /\ ran = << >>
  /\ status = 0 /\ scratch = NoScratch /\ told = NoStatus

Override(c, m, w, a, d, r) ==
  [c EXCEPT !.mode = m, !.workload = w, !.auto_exit = a, !.drop_shell = d,
            !.run_after = r]

(* What the kernel command line can make of a configuration. *)
Overridden(c) ==
  {Override(c, m, w, a, d, r) :
     m \in {c.mode, "none", "other"}, w \in {c.workload, "none"},
     a \in BOOLEAN, d \in BOOLEAN, r \in BOOLEAN}

(* A step of env_init succeeds, or fails where a failure is passed over.   *)
EnvStep ==
  /\ phase = "env" /\ step \in DOMAIN EnvSteps
  /\ IF EnvSteps[step].does = "read /proc/cmdline"
     THEN cfg' \in Overridden(cfg)
     ELSE UNCHANGED cfg
  /\ step' = step + 1
  /\ phase' = IF step = Len(EnvSteps) THEN "main" ELSE "env"
  /\ UNCHANGED <<missing, stages, ran, status, scratch, told>>

EnvStepFails ==
  /\ phase = "env" /\ EndsShell(EnvSteps[step].tests, 1)
  /\ phase' = "panic"
  /\ UNCHANGED <<step, cfg, missing, stages, ran, status, scratch, told>>

StatusOfUnknown == 2

Known == Idle \cup Single \cup Staged

RunsWorkload == cfg.mode \in {"ci", "manual"}

(* main chooses by mode; run_workload may dump the counters, and           *)
(* run_selected_workload looks the workload up.                            *)
main ==
  /\ phase = "main"
  /\ \E grep \in {0, 1} :
       phase' = IF RunsWorkload THEN Onward(dump_thp_counters, grep, "workload")
                ELSE "finish"
  /\ stages' = IF RunsWorkload
               THEN StagesOf(cfg.workload, cfg.gate, cfg.ncnn_test)
               ELSE << >>
  /\ status' = IF \/ cfg.mode = "other"
                  \/ RunsWorkload /\ cfg.workload \notin Known
               THEN StatusOfUnknown ELSE 0
  /\ UNCHANGED <<step, cfg, missing, ran, scratch, told>>

(* What a stage may return. *)
Returns(stage) ==
  CASE stage.kind = "check" -> {0, 1}
    [] stage.kind = "result" -> {status}
    [] stage.bin \in missing -> {127}
    [] stage.kind = "present" -> {0}
    [] OTHER -> {0} \cup ExitCodes

(* A stage of ncnn-smoke returns rc.  The export of XSAI_NCNN_AME before   *)
(* the second run changes nothing: the program sets it itself.             *)
SmokeStage(stage, rc) ==
  \/ /\ stage.kind = "mktemp"
     /\ \/ rc = 0 /\ \E room \in Rooms : scratch' = [NoScratch EXCEPT !.room = room]
        \/ rc = 1 /\ UNCHANGED scratch
  \/ /\ stage.kind = "smoke"
     /\ \E int8 \in UpTo(Int8Results(stage.name), Int8Cases),
           bf16 \in UpTo(Bf16Results(stage.name), Bf16Cases) :
          /\ SmokeMain(stage.name, int8, bf16, rc, ExitCodes)
          /\ scratch' = Written(scratch, stage.name, int8, bf16)
  \/ /\ stage.kind = "cmp"
     /\ rc = IF SameOutputs(scratch) THEN 0 ELSE 1
     /\ UNCHANGED scratch

RunStage ==
  /\ phase = "workload" /\ stages # << >>
  /\ \E rc \in {0, 1, 2, 127, 255} \cup ExitCodes :
       /\ IF Head(stages).kind \in {"mktemp", "smoke", "cmp"}
          THEN SmokeStage(Head(stages), rc)
          ELSE rc \in Returns(Head(stages)) /\ UNCHANGED scratch
       /\ ran' = Append(ran, [name |-> Head(stages).name, rc |-> rc])
       /\ stages' = Remaining(stages, rc)
       /\ status' = IF Lost(stages) THEN status ELSE FirstFailure(status, rc)
       /\ phase' = Onward(Head(stages).tests, rc, "workload")
  /\ UNCHANGED <<step, cfg, missing, told>>

WorkloadOver == stages = << >>

(* after_workload signals the status to the simulator, which stops there;  *)
(* on another platform it fails and init goes on, after another dump of    *)
(* the counters.                                                           *)
run_after_workload ==
  /\ phase = "workload" /\ WorkloadOver
  /\ \/ /\ cfg.run_after /\ "after_workload" \notin missing
        /\ told' = status
        /\ phase' = "simulation_over"
     \/ /\ UNCHANGED told
        /\ \E rc \in {0} \cup ExitCodes, grep \in {0, 1} :
             phase' = Onward(after_workload, rc, Onward(dump_thp_counters, grep, "finish"))
  /\ UNCHANGED <<step, cfg, missing, stages, ran, status, scratch>>

MutantEntersShell == cfg.drop_shell \/ cfg.auto_exit

EntersShell == cfg.drop_shell \/ ~cfg.auto_exit

(* Power-off or halt; if neither works PID 1 exits with the status. *)
finish_init ==
  /\ phase = "finish"
  /\ phase' \in IF EntersShell THEN {"shell"} ELSE {"power_off", "exited"}
  /\ UNCHANGED <<step, cfg, missing, stages, ran, status, scratch, told>>

Next ==
  \/ EnvStep \/ EnvStepFails \/ main \/ RunStage
  \/ run_after_workload \/ finish_init

(* PID 1 is always scheduled and its commands return. *)
Spec == Init /\ [][Next]_vars /\ WF_vars(Next)

-----------------------------------------------------------------------------
(* The status is a code some command or check can return; no workload has *)
(* more than eight stages.                                                 *)
TypeOK ==
  /\ phase \in {"env", "main", "workload", "finish"} \cup Ended
  /\ step \in 1..(Len(EnvSteps) + 1)
  /\ cfg \in Config
  /\ status \in {0, 1, 2, 127, 255} \cup ExitCodes
  /\ told \in {NoStatus, 0, 1, 2, 127, 255} \cup ExitCodes
  /\ Len(stages) + Len(ran) <= 8

Reported == phase \in {"finish", "shell", "power_off", "exited", "simulation_over"}

(* The status is zero only if every stage of the selected workload was run *)
(* and returned zero: no early return, skipped stage or later success can  *)
(* turn a failure into a pass.  A nonzero status is the code of the first  *)
(* stage that failed, as the tests of the workloads expect, even when      *)
(* later models fail otherwise.  after_workload tells the simulator, which *)
(* stops there, no other status than that.                                 *)
StatusIsFirstFailure ==
  Reported /\ RunsWorkload =>
    /\ phase = "simulation_over" => told = status
    /\ IF status = 0
       THEN /\ cfg.workload \in Known
            /\ [i \in DOMAIN ran |-> ran[i].name] =
                 LET all == StagesOf(cfg.workload, cfg.gate, cfg.ncnn_test)
                 IN [i \in DOMAIN all |-> all[i].name]
            /\ \A i \in DOMAIN ran : ran[i].rc = 0
       ELSE \/ ran = << >> /\ cfg.workload \notin Known /\ status = 2
            \/ \E i \in DOMAIN ran : /\ ran[i].rc = status
                                     /\ \A j \in 1..(i - 1) : ran[j].rc = 0

(* No model is benchmarked on hardware that failed the correctness gate,   *)
(* unless the image disables the gate.                                     *)
BenchOnlyAfterGate ==
  \A i \in DOMAIN ran :
    ran[i].name \in {"bench_15M", "bench_1B"} /\ cfg.gate =>
      \A g \in GateStages :
        \E j \in 1..(i - 1) : ran[j].name = g /\ ran[j].rc = 0

(* A pass of ncnn-smoke is the kernels' pass: on the matrix extension all  *)
(* the int8 cases gave the bytes of the stock kernels and all the bf16     *)
(* cases came, none of them far off.  Two truncated or empty files never   *)
(* compare equal for want of room, and a case that was not run is not      *)
(* taken for one that passed.  (A NaN passes.)                             *)
SmokePassIsReal ==
  Reported /\ RunsWorkload /\ cfg.workload = "ncnn-smoke" /\ status = 0 =>
    /\ AllRun(scratch.ame.int8, scratch.ame.bf16)
    /\ \A i \in 1..Int8Cases : scratch.ame.int8[i] = "reference"
    /\ \A i \in 1..Bf16Cases : scratch.ame.bf16[i] # "far"

(* Once env_init is over no failure of a command ends PID 1 by `set -e':   *)
(* the code of every stage of every workload meets, on its way out of      *)
(* however many functions, an `if' or `||' that stops it, and so do those  *)
(* of the dumps and of after_workload.                                     *)
WorkloadNeverKillsInit ==
  [][phase # "env" => phase' # "panic"]_vars

(* A guest set up for unattended runs never waits at a shell prompt.       *)
UnattendedRunsEnd ==
  [](phase # "env" /\ cfg.auto_exit /\ ~cfg.drop_shell =>
       <>(phase \in Ended \ {"shell"}))
=============================================================================
