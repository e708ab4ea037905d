------------------------------ MODULE AmeGemm ------------------------------
(***************************************************************************)
(* The programs that try the matrix unit (AME) out, hello_xsai and         *)
(* gemm_precomp, on the allocator they share (MemAlloc), with the tests of *)
(* it that hello_xsai runs first (MemTest) and the tile kernel             *)
(* ggml_ame_gemm_tile_i8_i32_bT.  The CPU issues the kernel's instructions *)
(* to the AME, which executes them while the CPU goes on; only macquire    *)
(* makes the CPU wait.                                                     *)
(*                                                                         *)
(* A tile lies where my_malloc has put it.  Its contents are a single      *)
(* number: the programs treat all elements alike.  The configuration that  *)
(* ggml_ame_init writes once is constant and left out.                     *)
(***************************************************************************)
EXTENDS Integers, Sequences, FiniteSets, SequencesExt, MemTest

CONSTANTS
  Values,                \* contents of an input tile
  NumTests,              \* tests of a program
  MaxFailures,           \* failed tests after which auto_test goes on
  InputSize,             \* bytes of A and of B
  RESERVED_MEMORY_SIZE,  \* the pool, and the limit of size_t, as in MemAlloc
  SizeLimit,
  NULL,                  \* the null pointer; no status yet
  UNINIT                 \* what an uninitialised pointer holds

ASSUME TestAssumption ==
  /\ Values \subseteq Int /\ 0 \in Values
  /\ NumTests \in Nat \ {0} /\ MaxFailures \in Nat /\ InputSize \in Nat \ {0}
  /\ NULL \notin Int /\ UNINIT # NULL
  /\ \A p \in {NULL, UNINIT} : p \notin [addr : Nat, size : Nat, req : Nat]

(* What MemAlloc assumes of the pool and of the sizes that are asked for.  *)
ASSUME PoolAssumption ==
  /\ RESERVED_MEMORY_SIZE \in Nat /\ SizeLimit \in Nat
  /\ RESERVED_MEMORY_SIZE >= 64 /\ RESERVED_MEMORY_SIZE % 64 = 0
  /\ RESERVED_MEMORY_SIZE + 128 < SizeLimit
  /\ \A s \in TestSizes \cup {InputSize, 4 * InputSize} : s + 128 < SizeLimit

Apps == {"hello_xsai", "gemm_precomp"}

(* The buffers in the order they are asked for.  The expected product lies *)
(* in the pool in hello_xsai; gemm_precomp has it in its read-only data.   *)
Buffers(a) ==
  IF a = "hello_xsai" THEN <<"A", "B", "C", "ref">> ELSE <<"A", "B", "C">>

BufferSize(b) == IF b \in {"A", "B"} THEN InputSize ELSE 4 * InputSize

(* Two options of hello_xsai's Makefile: the kernel's short cut for zero   *)
(* tiles, and an explicit reset of its accumulator.                        *)
Builds(a) ==
  IF a = "hello_xsai" THEN [fast_path : BOOLEAN, mzero_acc : BOOLEAN]
  ELSE {[fast_path |-> TRUE, mzero_acc |-> FALSE]}

(* What a shell sees of a program that a bad pointer has killed. *)
Killed == 139

VARIABLES
  app,         \* the program that runs
  build,       \* its options
  pc,          \* where the CPU is
  step,        \* the next call of mem_test, buffer, or instruction of the kernel
  pool_base, free_list, live, slivers,  \* the allocator, as in MemAlloc
  ptr,         \* the local pointers of mem_test, then of the program's own
               \* test: blocks, NULL or UNINIT
  total_fail,  \* checks of mem_test that failed
  refused,     \* (history) the pool could not be mapped when it was asked for
  mem,         \* contents of the tiles
  reg,         \* the AME's registers
  sync1,       \* the AME's sync register
  queue,       \* instructions issued and not executed, in program order
  test,        \* tests finished
  failures,    \* tests that failed
  wrong,       \* (history) products the AME has got wrong
  status,      \* what the test function returned
  told,        \* the last status nemu_signal gave the simulator
  exit         \* the exit code of the program

pool == <<pool_base, free_list, live, slivers>>
heap == <<pool, ptr, total_fail, refused>>
units == <<mem, reg, sync1, queue, wrong>>
verdict == <<test, failures, status, told, exit>>

vars == <<app, build, pc, step, heap, units, verdict>>

Pool == INSTANCE MemAlloc WITH
  Requests <- TestSizes \cup {InputSize, 4 * InputSize}

-----------------------------------------------------------------------------
(* The instructions after msyncregreset, with what they read and write.    *)
Instr(op, reads, writes) == [op |-> op, reads |-> reads, writes |-> writes]

MutantKernel(mzero) ==
  <<Instr("mlc", {"C"}, {"acc0"}), Instr("mla", {"A"}, {"tr0"}),
    Instr("mlb", {"B"}, {"tr1"}), Instr("mmacc", {"acc0", "tr0", "tr1"}, {"acc0"}),
    Instr("msc", {"acc0"}, {"C"})>>

Kernel(mzero) ==
  (IF mzero THEN <<Instr("mzero", {}, {"acc0"})>> ELSE << >>) \o
  <<Instr("mlc", {"C"}, {"acc0"}), Instr("mla", {"A"}, {"tr0"}),
    Instr("mlb", {"B"}, {"tr1"}), Instr("mmacc", {"acc0", "tr0", "tr1"}, {"acc0"}),
    Instr("msc", {"acc0"}, {"C"}), Instr("mrelease", {}, {"sync1"})>>

acquire_target == 1

(* j must wait for i: it uses what i writes, writes what i uses, or is the *)
(* release, which waits for all.                                           *)
DependsOn(j, i) ==
  \/ j.op = "mrelease"
  \/ i.writes \cap (j.reads \cup j.writes) # {}
  \/ i.reads \cap j.writes # {}

(* tile_i8_all_zero of one of the inputs: the product is zero. *)
ZeroTile(m) == m.A = 0 \/ m.B = 0

-----------------------------------------------------------------------------
NoBuffers(a) == [b \in Range(Buffers(a)) |-> UNINIT]

(* The program's memory is as the loader leaves it; what the tiles and the *)
(* AME hold from before is any value, and never used.                      *)
Init ==
  /\ app \in Apps /\ build \in Builds(app)
  /\ pc = IF app = "hello_xsai" THEN "mem_test" ELSE "alloc"
  /\ step = 1
  /\ Pool!Init
  /\ ptr = IF app = "hello_xsai" THEN [p \in Slots |-> UNINIT] ELSE NoBuffers(app)
  /\ total_fail = 0 /\ refused = FALSE
  /\ mem = [b \in {"A", "B", "C", "ref"} |-> 7]
  /\ reg = [r \in {"acc0", "tr0", "tr1"} |-> 7] /\ sync1 \in {0, 1}
  /\ queue = << >> /\ test = 0 /\ failures = 0 /\ wrong = 0
  /\ status = NULL /\ told = NULL /\ exit = NULL

(* ptr[p] = my_malloc(size). *)
AskFor(p, size) ==
  \/ /\ size = 0 /\ Pool!MallocZero
     /\ ptr' = [ptr EXCEPT ![p] = NULL] /\ UNCHANGED refused
  \/ /\ Pool!MallocMapFails(size)
     /\ ptr' = [ptr EXCEPT ![p] = NULL] /\ refused' = TRUE
  \/ /\ Pool!MallocOutOfMemory(size)
     /\ ptr' = [ptr EXCEPT ![p] = NULL] /\ UNCHANGED refused
  \/ /\ Pool!MallocFirstFit(size)
     /\ \E b \in live' \ live : ptr' = [ptr EXCEPT ![p] = b]
     /\ UNCHANGED refused

(* my_free(ptr[p]) of a pointer that has a value. *)
GiveBack(p) ==
  /\ IF ptr[p] = NULL THEN UNCHANGED pool ELSE Pool!my_free(ptr[p])
  /\ UNCHANGED <<ptr, refused>>

Call == mem_test_calls[step]

InMemTest == pc = "mem_test" /\ step \in DOMAIN mem_test_calls

NextCall ==
  /\ step' = step + 1
  /\ UNCHANGED <<app, build, pc, units, verdict>>

EnterTest ==
  /\ InMemTest /\ Call.op = "enter"
  /\ ptr' = [p \in DOMAIN ptr |-> UNINIT]
  /\ NextCall /\ UNCHANGED <<pool, total_fail, refused>>

(* A loop has ended at a NULL before it came here, or asks for a block. *)
TestMalloc ==
  /\ InMemTest /\ Call.op = "malloc"
  /\ IF Call.loop /\ ptr[Call.ptr - 1] \in {NULL, UNINIT}
     THEN UNCHANGED <<pool, ptr, refused>>
     ELSE AskFor(Call.ptr, Call.size)
  /\ NextCall /\ UNCHANGED total_fail

TestFree ==
  /\ InMemTest /\ Call.op = "free" /\ ptr[Call.ptr] # UNINIT
  /\ GiveBack(Call.ptr)
  /\ NextCall /\ UNCHANGED total_fail

(* The check that `& 63' makes of a pointer, in test 4 only. *)
Aligned(b) == (b.addr + Pool!ALLOC_HDR_SIZE) % Pool!ALIGN = 0

CheckHolds ==
  IF Call.op = "check_null" THEN ptr[Call.ptr] = NULL
  ELSE \A p \in Call.ptrs :
         ptr[p] \notin {NULL, UNINIT} /\ (Call.aligned => Aligned(ptr[p]))

TestCheck ==
  /\ InMemTest /\ Call.op \in {"check_held", "check_null"}
  /\ total_fail' = total_fail + (IF CheckHolds THEN 0 ELSE 1)
  /\ NextCall /\ UNCHANGED <<pool, ptr, refused>>

(* A loop that broke off leaves pointers without a value, and all are      *)
(* freed: the program may be killed, or go on with a list that pool_init   *)
(* will overwrite, since only a pool that is not mapped refuses.           *)
TestFreeUninitialised ==
  /\ InMemTest /\ Call.op = "free" /\ ptr[Call.ptr] = UNINIT
  /\ \/ NextCall /\ UNCHANGED heap
     \/ /\ pc' = "end" /\ exit' = Killed
        /\ UNCHANGED <<app, build, step, heap, units, test, failures, status, told>>

(* A failure of mem_test ends the program. *)
MemTestReturns ==
  /\ pc = "mem_test" /\ step \notin DOMAIN mem_test_calls
  /\ IF total_fail = 0 THEN pc' = "alloc" /\ UNCHANGED status
                       ELSE pc' = "no_memory" /\ status' = 1
  /\ step' = 1 /\ ptr' = NoBuffers(app)
  /\ UNCHANGED <<app, build, pool, total_fail, refused, units, test, failures,
                 told, exit>>

mem_test ==
  \/ EnterTest \/ TestMalloc \/ TestFree \/ TestCheck
  \/ TestFreeUninitialised \/ MemTestReturns

(* All buffers are asked for before one of them is looked at.              *)
AllocateBuffer ==
  /\ pc = "alloc" /\ step \in DOMAIN Buffers(app)
  /\ AskFor(Buffers(app)[step], BufferSize(Buffers(app)[step]))
  /\ step' = step + 1
  /\ UNCHANGED <<app, build, pc, total_fail, units, verdict>>

(* If one is missing the others are not freed. *)
BuffersAllocated ==
  /\ pc = "alloc" /\ step \notin DOMAIN Buffers(app)
  /\ IF \A b \in Range(Buffers(app)) : ptr[b] # NULL
     THEN pc' = "fill" /\ UNCHANGED status
     ELSE pc' = "over" /\ status' = 1
  /\ step' = 1
  /\ UNCHANGED <<app, build, heap, units, test, failures, told, exit>>

(* A test's inputs, a zero result, and the product expected of them: the   *)
(* first test of each program is all zeros.                                *)
FillBuffers ==
  /\ pc = "fill"
  /\ \E a, b \in IF test = 0 THEN {0} ELSE Values :
       mem' = [A |-> a, B |-> b, C |-> 0, ref |-> a * b]
  /\ pc' = "kernel"
  /\ UNCHANGED <<app, build, step, heap, reg, sync1, queue, wrong, verdict>>

MutantReset == sync1

(* msyncregreset takes effect before anything issued after it. *)
MSYNC_RESET == 0

(* The kernel returns at once if there is nothing to add to C. *)
EnterKernel ==
  /\ pc = "kernel"
  /\ IF build.fast_path /\ ZeroTile(mem)
     THEN pc' = "compare" /\ UNCHANGED <<step, sync1>>
     ELSE pc' = "issue" /\ step' = 1 /\ sync1' = MSYNC_RESET
  /\ UNCHANGED <<app, build, heap, mem, reg, queue, wrong, verdict>>

IssueInstruction ==
  /\ pc = "issue"
  /\ queue' = Append(queue, Kernel(build.mzero_acc)[step])
  /\ step' = step + 1
  /\ pc' = IF step = Len(Kernel(build.mzero_acc)) THEN "acquire" ELSE "issue"
  /\ UNCHANGED <<app, build, heap, mem, reg, sync1, wrong, verdict>>

(* macquire, then mfence: what the AME has stored can be read. *)
MACQUIRE ==
  /\ pc = "acquire" /\ sync1 >= acquire_target
  /\ pc' = "compare"
  /\ UNCHANGED <<app, build, step, heap, units, verdict>>

TestFailures == failures + (IF mem.C # mem.ref THEN 1 ELSE 0)

(* auto_test stops after too many failures, precomp_test never. *)
LastTest ==
  \/ test + 1 = NumTests
  \/ app = "hello_xsai" /\ mem.C # mem.ref /\ TestFailures > MaxFailures

CompareResult ==
  /\ pc = "compare"
  /\ failures' = TestFailures /\ test' = test + 1 /\ step' = 1
  /\ pc' = IF LastTest THEN "cleanup" ELSE "fill"
  /\ UNCHANGED <<app, build, heap, units, status, told, exit>>

MutantStatusOf(n) == IF n <= MaxFailures THEN 0 ELSE 2

StatusOf(n) == IF n = 0 THEN 0 ELSE 2

(* The buffers are freed in the order they were asked for. *)
FreeBuffer ==
  /\ pc = "cleanup" /\ step \in DOMAIN Buffers(app)
  /\ GiveBack(Buffers(app)[step])
  /\ step' = step + 1
  /\ UNCHANGED <<app, build, pc, total_fail, units, verdict>>

BuffersFreed ==
  /\ pc = "cleanup" /\ step \notin DOMAIN Buffers(app)
  /\ status' = StatusOf(failures) /\ pc' = "over"
  /\ UNCHANGED <<app, build, step, heap, units, test, failures, told, exit>>

(* main reports the status to the simulator, gemm_precomp only a good one. *)
(* If the simulator goes on, hello_xsai returns 0 whatever auto_test       *)
(* returned; a failure of mem_test is its exit code.                       *)
main ==
  /\ pc \in {"no_memory", "over"}
  /\ told' = IF app = "hello_xsai" \/ status = 0 THEN status ELSE told
  /\ exit' = IF app = "hello_xsai" /\ pc = "over" THEN 0 ELSE status
  /\ pc' = "end"
  /\ UNCHANGED <<app, build, step, heap, units, test, failures, status>>

-----------------------------------------------------------------------------
(* The AME executes any instruction whose operands no earlier one is still *)
(* to use.  A faulty unit may get a product wrong.                         *)
Execute(i) ==
  LET ins == queue[i] IN
  /\ \A j \in 1..(i - 1) : ~DependsOn(ins, queue[j])
  /\ queue' = RemoveAt(queue, i)
  /\ \/ ins.op = "mzero" /\ reg' = [reg EXCEPT !.acc0 = 0]
        /\ UNCHANGED <<mem, sync1, wrong>>
     \/ ins.op = "mlc" /\ reg' = [reg EXCEPT !.acc0 = mem.C]
        /\ UNCHANGED <<mem, sync1, wrong>>
     \/ ins.op = "mla" /\ reg' = [reg EXCEPT !.tr0 = mem.A]
        /\ UNCHANGED <<mem, sync1, wrong>>
     \/ ins.op = "mlb" /\ reg' = [reg EXCEPT !.tr1 = mem.B]
        /\ UNCHANGED <<mem, sync1, wrong>>
     \/ /\ ins.op = "mmacc"
        /\ \E err \in {0, 1} :
             /\ reg' = [reg EXCEPT !.acc0 = @ + reg.tr0 * reg.tr1 + err]
             /\ wrong' = wrong + err
        /\ UNCHANGED <<mem, sync1>>
     \/ ins.op = "msc" /\ mem' = [mem EXCEPT !.C = reg.acc0]
        /\ UNCHANGED <<reg, sync1, wrong>>
     \/ ins.op = "mrelease" /\ sync1' = sync1 + 1
        /\ UNCHANGED <<mem, reg, wrong>>
  /\ UNCHANGED <<app, build, pc, step, heap, verdict>>

ame == \E i \in DOMAIN queue : Execute(i)

ggml_ame_gemm_tile_i8_i32_bT == EnterKernel \/ IssueInstruction \/ MACQUIRE

program ==
  \/ mem_test \/ AllocateBuffer \/ BuffersAllocated \/ FillBuffers
  \/ ggml_ame_gemm_tile_i8_i32_bT
  \/ CompareResult \/ FreeBuffer \/ BuffersFreed \/ main

Next == program \/ ame

(* The CPU runs, and the AME executes what it was given. *)
Spec == Init /\ [][Next]_vars /\ WF_vars(program) /\ WF_vars(ame)

-----------------------------------------------------------------------------
(* The blocks that instruction ins reads or writes. *)
Operands(ins) ==
  {ptr[b] : b \in (ins.reads \cup ins.writes) \cap Range(Buffers(app))}

(* The memory the CPU reads, writes or gives back to the pool in its next  *)
(* step; the free list is in the memory it lists.                          *)
CPUTouches ==
  CASE pc \in {"fill", "over", "end"} -> {ptr[b] : b \in Range(Buffers(app))}
    [] pc = "kernel" -> {ptr["A"], ptr["B"]}
    [] pc = "compare" -> {ptr[b] : b \in Range(Buffers(app)) \ {"A", "B"}}
    [] pc \in {"mem_test", "alloc", "cleanup"} -> live \cup Range(free_list)
    [] OTHER -> {}

(* An instruction in flight uses memory that the program still holds, and  *)
(* no byte of it is touched by the CPU: the sync register separates a test *)
(* from the next one, and the last test from my_free, although it is left  *)
(* at one by the test before; and no tile shares a byte with another tile  *)
(* or with the free list that the allocator keeps inside the pool.         *)
NoRaceWithAME ==
  \A i \in DOMAIN queue : \A o \in Operands(queue[i]) :
    /\ o \in live
    /\ \A c \in CPUTouches : Pool!Disjoint(o, c)
    /\ \A f \in Range(free_list) : Pool!Disjoint(o, f)
    /\ \A b \in Range(Buffers(app)) : ptr[b] = o \/ Pool!Disjoint(o, ptr[b])

BetweenTests ==
  \/ pc = "mem_test" /\ (step \notin DOMAIN mem_test_calls \/ Call.op = "enter")
  \/ pc = "over" /\ status # 1

(* Every test of mem_test leaves the pool as it found it, also one whose   *)
(* allocations failed half-way, and so does a program that ran its tests:  *)
(* "Everything freed - big alloc should work" (mem_test.c), whatever was   *)
(* allocated, and in whichever order it was freed.                         *)
PoolWholeAgain ==
  BetweenTests =>
    live = {} /\ (pool_base = NULL \/ free_list = Pool!WholePool)

(* The test function passes exactly if all tests were run and the AME got  *)
(* every product right: neither the order in which the AME executes the    *)
(* loads nor the path for zero tiles nor the early stop hides a fault or   *)
(* makes one up.  The simulator is told no other status, and a bad exit    *)
(* code means a bad status.                                                *)
JudgesTheAME ==
  status # NULL =>
    /\ status = 0 <=> test = NumTests /\ wrong = 0
    /\ status = 2 <=> wrong > 0
    /\ told \in {NULL, status} /\ exit \in {NULL, 0, status}

(* A program fails before its tests exactly if the pool could not be       *)
(* mapped when it was asked for: mem_test finds no fault in the allocator  *)
(* and hides none, and a program that loses a buffer says so.  It is only  *)
(* killed by a pointer without a value if the pool was refused.            *)
JudgesThePool ==
  /\ status # NULL => (status = 1 <=> refused)
  /\ exit = Killed => refused /\ told = NULL

(* The verdict is that of the AME and of the pool, and of nothing else.    *)
VerdictIsHonest == JudgesTheAME /\ JudgesThePool

(* The sync register that the CPU waits on is always released: every       *)
(* program ends, with all tests run or too many of them failed.            *)
Terminates == <>(pc = "end")
=============================================================================
