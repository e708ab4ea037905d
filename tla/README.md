# A TLA+ model of riscv-rootfs

`riscv-rootfs` builds the initramfs and the disk images on which the XSAI
RISC-V processor is brought up, and the workloads that run on them: matrix
kernels for its matrix unit (the AME), the dwarf data benchmarks, LLM and CNN
inference, SPEC. This directory models the parts of it that carry logic of
their own, checks them with TLC, and proves with TLAPS that the allocator is
correct and loses no byte, that the guest's init reports what its workload did,
that the programs on the AME never race with it, that the AME kernel test
computes the product and counts the faults, that the external sort and the
merge sort inside it return the lines they were given, in order, that the word
count leaves the tally of its input, and that the md5 dwarf digests what RFC
1321 says, line by line.

Contents: [1 Inventory](#1-inventory), [2 Modules](#2-modules),
[3 Model checking](#3-model-checking), [4 Proofs](#4-proofs),
[5 What disagrees](#5-what-disagrees), [6 Not modelled](#6-not-modelled),
[7 Plan](#7-plan).

Paths are relative to `src/`. `PROJECT.json` maps each definition to the lines
it stands for, each property to a change of the code's model that breaks it,
and each hazard to the properties that watch it.

## 1. Inventory

| component | state it keeps | operations | interacts with | correct if |
|---|---|---|---|---|
| reserved-pool allocator, `apps/hello_xsai/mem.c` | `pool_base`, the intrusive `free_list`, headers inside the pool | `my_malloc` (maps the pool on first use), `my_free` | called by `hello_xsai`, `gemm_precomp`, `mem_test`; its pool is the AME's memory | blocks are aligned, apart, inside the pool and off the free list; free neighbours are merged; a refusal is real |
| external sort, `apps/dwarf/sort` | `./sort-tmp`, `file_cnt`, blocks of lines, merge streams, output buffer | `main`, `do_one_file`, `merge_write_msa_arr`, `merge_sort` | string arrays, file system, OpenMP threads | every line of the input is in the output, once and in order, also after a crash |
| merge sort of string arrays, `apps/dwarf/sort/src/my_string.c` | two arrays a thread keeps from block to block, with the capacities of array and strings, run length and position | `single_read_block`, `mergeSortMyStringArr`, `mergeMsa` | called by the sort's threads | the block is sorted, stably, and ends in its own array; no string or array is too small for what is copied into it |
| word count, `apps/dwarf/wordcount` | as the sort, with words and counts | split, count, merge | as the sort | each word once, with its number of occurrences, in order |
| MD5, `apps/dwarf/md5` | the digest context (`state`, `count`, `buffer`), a reused array of strings, output files | `MD5_Init/Update/Final`, `do_one_file`, `single_write_block` | OpenMP threads, string arrays | the blocks digested are RFC 1321's; one digest a line, in order; no string too short for its digest |
| string arrays, `apps/dwarf/*/my_string.c` | `arr`, `size`, `capacity` | construct, copy, append, push, expand, recapacity, clear; the insertions at the front have no caller | the three dwarfs | capacities suffice |
| disk init (PID 1), `rootfsimg/init-disk-xsai.sh`, `xsai-init-common.sh` | shell variables, mounts, `WORKLOAD_STATUS` | `env_init`, `main`, `run_workload`, `finish_init` | kernel command line, workloads, `after_workload`, power-off | a workload never kills PID 1; the simulator hears the final status; an unattended guest ends |
| workload dispatcher, `rootfsimg/xsai-workloads.sh` | exit statuses | one function per workload | binaries of `apps/`, the init | a pass means that every stage passed; nothing is benchmarked behind a failed gate |
| NCNN smoke test, `apps/ncnn/ncnn_ame_smoke.cpp` | result files in a scratch directory | compute and print the int8 and bf16 cases, in two modes | dispatcher, `/tmp`, NCNN | a pass means that the AME computed every case |
| AME programs, `apps/hello_xsai`, `apps/gemm_precomp` | buffers in the pool, accumulator and tile registers, the sync register, the pointers of `mem_test` | unit tests of the allocator; allocate, fill, kernel, acquire, compare, free | allocator, AME, simulator | the CPU never races with the AME, for tiles or for the free list; the pool is whole after every test; the verdict is the AME's |
| AME kernel test, `apps/mnn/test_ame_kernels.c` | three pools, cases, counters of failures | pack, multiply, copy out, compare | AME | any shape on any tile gives the scalar product; faults are counted against the right tile |
| mininit, `apps/mininit` | the child | fork, exec, wait, power off | the kernel | the guest powers off when the child ends |
| boundary signals, `apps/before_workload`, `after_workload`, `trap`, `poweroff` | - | one instruction or system call each | the simulator | - |
| probes, `apps/ame_hw_probe`, `apps/pmu_test` | CSRs | read, compare, print | hardware | - |
| SPEC generator and manifest checker, `rootfsimg/spec_gen.py`, `check-manifest.py` | sets of destinations | select, generate, check | the build | no destination twice, every source present |
| build, `Makefile*`, `apps/*/Makefile` | stamps, build and image trees | install, patchelf, download, configure | host tools | what is stale is rebuilt |
| inference apps, `apps/mnn`, `apps/ncnn`, `apps/llama.cpp`, and `apps/redis`, ... | third-party programs and thin drivers | build, run, compare | disk init | - |

They interact in four places. The init starts a workload through the
dispatcher and judges it by its exit status alone; the dispatcher runs the NCNN
smoke test twice and compares the files it left; `hello_xsai` and
`gemm_precomp` take their tiles from the allocator and hand them to the AME;
each dwarf's threads sort, split or hash blocks in arrays that the same
`my_string.c` manages. The models compose all four.

### What is hard here

* **Order of calls.** A free list is only right if every order of frees merges
  the same neighbours; a sort only if every interleaving of its threads, every
  chunking of its input and every number of temporary files give one output.
* **Asynchrony.** The AME executes out of program order and behind the CPU's
  back; one register and its reset are all that separates a result from the
  memory it overwrites.
* **Failure of one step.** `open`, `fopen`, a read, `mmap`, a mount, a stage of
  a gate or a binary may fail, a file system may be full; `set -eu` turns some
  failures into the death of PID 1, and a shell function called in a condition
  into no failure at all.
* **Restart.** The sort can be killed between any two steps and run again on
  what it left in its temporary directory.
* **Limits.** File descriptors, blocks, buffers, the pool, 32-bit bit counters,
  the last tile of a row.
* **Stale state.** Reused pools, arrays and digest contexts; a sync register
  left at one; the previous count of a stream whose line did not match.

## 2. Modules

Abstract specifications say what a component promises; the modules of the code
are shown to implement them by `INSTANCE ... WITH` and a property.

| module | models | uses |
|---|---|---|
| `Heap` | what callers of `my_malloc` and `my_free` rely on | |
| `MemAlloc` | `mem.c` | implements `Heap` |
| `MemAlloc_proofs` | proofs about `MemAlloc` | extends `MemAlloc`, `DataFacts` |
| `MemTest` | the calls of `mem_test.c`, in order | |
| `AmeGemm` | `hello_xsai`, `gemm_precomp`, their kernel, the AME | extends `MemTest`, instantiates `MemAlloc` |
| `AmeKernels` | `test_ame_kernels.c` | |
| `Sorter` | what the user of the sort is promised | |
| `ExtSort` | `main.c`, `do_one_file.c`, `sort.c` of the sort | implements `Sorter` |
| `MyString` | strings and arrays of strings with their capacities | |
| `MergeSort` | `mergeSortMyStringArr` and `mergeMsa`, on the arrays a thread keeps | instantiates `MyString`; what `ExtSort` takes as one step |
| `Tally` | what the user of the word count is promised | |
| `OneWord` | `is_letter`, `oneWord` and `lineToMsa` | |
| `WordCount` | `main.c`, `do_one_file.c`, `wordcount.c` of the word count | extends `OneWord`, implements `Tally` |
| `Md5` | `MD5_Update`, `MD5_Final` | |
| `Md5Lines` | `main.c` of md5 | instantiates `MyString` |
| `XsaiWorkloads` | the table of workloads | |
| `NcnnSmoke` | `ncnn_ame_smoke.cpp` and the files it writes | |
| `XsaiInit` | PID 1 of the guest | extends `XsaiWorkloads` and `NcnnSmoke` |
| `XsaiInit_proofs` | proofs about `XsaiInit` | extends `XsaiInit`, `DataFacts` |
| `ExtSort_proofs` | proofs about `ExtSort` | extends `ExtSort`, `DataFacts` |
| `MergeSort_proofs` | proofs about `MergeSort` | extends `MergeSort`, `DataFacts` |
| `Md5_proofs` | proofs about `Md5` and `Md5Lines` | extends `Md5`, `Md5Lines`, `DataFacts` |
| `WordCount_proofs` | proofs about `WordCount` and the words of a line | extends `WordCount`, `DataFacts` |
| `Ame_proofs` | proofs about the list of calls of `mem_test`, about `AmeGemm` and about `AmeKernels` | extends `AmeGemm`, `AmeKernels`, `DataFacts`, instantiates `MemAlloc_proofs` |
| `DataFacts` | facts about data that the proofs keep needing: induction, recursive functions, sums, folds, lists, places in a sequence, quotients and positions in flat arrays | |

`MC*` modules give the constants of the component of that name values for TLC.
Definitions named `Mutant*` are variants of the definition after them, as a
plausible slip in the code would make it; no specification uses them. They are
there to show, by putting them in its place, that a property can fail.

### MemAlloc: `apps/hello_xsai/mem.c`

An address is an offset from `pool_base`. The linked list is the sequence
`free_list`; the headers inside the pool are the records of that sequence and
of `live`, the blocks that callers hold. `my_malloc` is the disjunction of its
returns: no bytes asked for (`MallocZero`, before the pool is touched), the
mapping fails and leaves nothing behind (`MallocMapFails`), no block fits
(`MallocOutOfMemory`, which still maps the pool), or the first that fits is cut
or handed out whole (`MallocFirstFit`). `my_free` inserts by address and merges
with both neighbours in one step (`Returned`), as the code does before it
returns; there is one thread. `size_t` wraps at `SizeLimit`; the assumption
that no request makes it wrap is stated (`RequestAssumption`), because all
callers pass the size of a tile or of a test buffer. `slivers` is history: it
counts the blocks whose last 64 bytes no header records.

### ExtSort: `apps/dwarf/sort`

`phase` is where `main` is. `Begin` clears `./sort-tmp`; in `BeginUncleared` `rm
-rf` leaves some of what an earlier run put there, which the code reports, if at
all, and ignores (`main.c:118-131`): `stale` are those files, until a new
temporary file takes the name of one, and the merge reads them with the rest
(`Directory`). `OpenFile` and `SkipFile` are the directory loop;
`single_read_block(i)` reads the blocks one after the other up to
`one_block_size` bytes or `LINE_CNT_MAX` lines, with the end-of-file flag of
`ifp` as `feof` sees it; `sort_one_msa(i)` is one thread of the parallel loop;
`OpenTmp`, `WriteLine`, `CloseTmp` are `merge_write_msa_arr`; `merge_sort`,
`MergeLine`, `FinishMerge` the last merge, with the buffer flushed as in the
code and at most `OpenMax - 1` streams. `FailToOpen` and `FailToOpenOutput` are
the `exit(EXIT_FAILURE)`s and the output that cannot be created, `Crash` and
`Relaunch` the environment. `ReadError` is a disk that fails in the middle of a
block and from then on: `fgets` returns `NULL` as it does at the end of the
file, but `feof` stays false, so every block after it is empty (`ReadNothing`)
and the loop on `feof` goes on writing empty temporary files. Of a line longer
than `MY_LINE_MAX` the pieces that `fgets` had taken before are pushed as a line
(`CutShort`). The order in which `readdir` returns files is any order. A line is
a number that stands for that many equal letters, so that `strcmp` is `<=` and
the length of a line counts against the chunk.

`MergeSort` is the sort each thread runs, one step a call of `mergeMsa`. A line
carries the place it came from, so that stability can be stated. That the last
pass of a turn may merge or only copy, and that the result must be in `msa`
after either, is what makes the code subtle. The arrays are those of
`MyString`, with the strings that earlier blocks left in them: `msa` grows with
what is pushed, `merge_msa` only if it is smaller than a block, and a string
only when a longer line is copied over the one it holds.

### WordCount: `apps/dwarf/wordcount`

The same pipeline, with the words that `lineToMsa` (`OneWord`) finds. Characters
are codes, because the difference between `is_blank`, `is_letter` and the white
space of `sscanf` is about single characters. A temporary file is a sequence of
entries `[w, n]`; `Scanned` is what reading one back with `sscanf` gives.
`stale` and `BeginUncleared` are those of `ExtSort`. `leaked` counts the files
that the early return of a chunk without words leaves open. `CountOrWrite` is
the counting of equal words, `TakeMin` and `AddEqual` the merge of the counts
over the streams, `FinishMerge` the entry written after the loop.
`sortMyStringArr` is `qsort`, so the block after it is any ascending arrangement
of the same words (`SortsTo`); there is just one, since the order is total.

### Md5 and Md5Lines: `apps/dwarf/md5`

`Md5` is the streaming half of `md5.c`: the context is `count`, `buffer`, and
in the place of the four state words the sequence of the blocks transformed,
which determines them. Bytes of the message are named by their position, so
that a block transformed twice, in the wrong order or with an old byte shows.
`Md5Lines` is the program around it. Its hazard is storage: a digest is written
over the line it is the digest of, by threads that must not allocate, so the
array (`MyString`) has to have room in every string, new, reused or copied by a
growing array. `single_write_block` is called by every thread, and prints on one.
A disk that fails does so behind some line of a file, or in the middle of one
longer than `MY_LINE_MAX`, and from then on: `OpenFile` chooses what is then
readable (`Readable`), `HitsEOF` is false, and the loop on `feof`
(`main.c:204`) goes on with empty blocks for ever.

### XsaiInit and XsaiWorkloads: `rootfsimg`

A workload is a sequence of stages; a stage is a command or a check, with the
tests that its failure meets on its way out of the functions around it, the
innermost first, as the scripts write them: `|| return $?` (`"return"`), the
suite's `if` that keeps the first failure (`"keep"`), `if run_and_capture` or
`if run_...; then` in the table of workloads (`"capture"`), `|| true` and `||
warn` (`"ignore"`). What follows from a failure is computed from them:
`Remaining` is what is still run (a failure that is returned leaves nothing to
run: in this table a function that returns the code of its stage is itself
called by one that returns it or ends), `Lost` whether the code reaches
`WORKLOAD_STATUS`, and `EndsShell` whether `set -e` ends PID 1 (`Onward`): it
does if no test but those that pass the failure on is met. Inside a tested call
`set -e` is off, also for commands in the middle of the function; that is why a
failing `awk` of the MNN test is not noticed. `XsaiInit` goes through the steps
of `env_init` with the tests of each, dumps the THP counters where
`run_workload` does, reads the configuration of the image (`ImageConfig`, as the
Makefile writes it) and the overrides of the kernel command line (`Overridden`),
runs the stages, tells the simulator and ends. `Onward` has the tests of every
call outside `env_init` as its argument, those of the greps and of
`after_workload` included, and leads to `panic` if they do not stop a failure.
`after_workload` ends the simulation where there is one; elsewhere it dies of an
unknown instruction and the init goes on.

The stages of `ncnn-smoke` are composed with their program (`SmokeStage`):
`mktemp` makes a directory with room for some results, each run of
`ncnn_ame_smoke` prints the results of the cases it reached (`UpTo`), as many
of them as fit (`Fits`, because no return value of `fprintf` or `fclose` is
looked at), and `cmp` compares the two int8 files. What the AME kernels computed
is kept beside what they could write, so that a pass can be held against it.

### AmeGemm and MemTest: `apps/hello_xsai`, `apps/gemm_precomp`

The programs run on the allocator: the actions `AskFor` and `GiveBack` are
`MemAlloc`'s, over the same pool, and a tile lies where `my_malloc` put it.
`hello_xsai` first runs `mem_test`, whose eight tests are one list of calls
(`mem_test_calls`) at a scale the configuration gives; a `CheckHeld` looks at
the alignment only in `test_alignment`, as in the code; a pointer that a broken
loop never set is `UNINIT`, and freeing it kills the program or goes unnoticed
(`TestFreeUninitialised`). `auto_test` then allocates its buffers, and every
early return (no pool, too many failures) is followed to the exit code.

The CPU issues the kernel's instructions into `queue`; the AME (`Execute`)
executes any of them whose operands no earlier one is still to use, and may get
a product wrong, which `wrong` records. Only `MACQUIRE` waits, for `sync1` to
reach the number of releases. `msyncregreset` takes effect at once, as the CPU
executes it before it issues the rest. The contents of a tile are one number,
since both programs fill a tile with one value. What the AME does is not in the
repository: its definitions are taken from how the code uses it (`MSYNC_RESET`,
`MRELEASE`, `MACQUIRE` in the kernel, with the instructions behind them in `ame.h`).
`NoRaceWithAME` is about addresses: what an instruction in flight reads or
writes is a block the program holds, shares no byte with another tile, nor with
the list the allocator keeps inside the pool, nor with what the CPU touches next.

### AmeKernels: `apps/mnn/test_ame_kernels.c`

`Cases` is the list of cases `main` tries for a target, capacity and setting;
`pack_rows` and `CopyTile` work on flat arrays with the code's indices, so that
an index that reaches into a neighbour's block is an error of the model too. An
element of a product is the sum that was computed with the error the AME made in
storing it (`Element`): none, one within the tolerance of the comparison
(`"near"`), one beyond it (`"far"`) or, of a float, a value that is no number
(`"nan"`). `IsBad` is the comparison: integers have to be equal, floats must not
be farther off than the tolerance (`test_ame_kernels.c:162-172`), a comparison
that a NaN passes. Sums are exact here, so the rounding the tolerance is for
does not occur. A faulty element is recorded with its case and its error in
`faults`, and may lie in the padding. The three pools are allocated one after
the other (`pool_alloc`), then the host's arrays (`host_malloc`), and each may
fail: the program returns 1 without a case tried. `TileAssumption` says that the
tiles fit in the pools and that the pools are a whole number of blocks deep, as
is so in the code (64 rows and columns and 128, and blocks of 64 and 32, for
`MAXM = MAXN = 256` and `MAXK = 3072`), and that the one case whose shape `main`
does not clip fits in its arrays. A place of the pools has room for an element
of two bytes, so `PoolA` is the bytes that are allocated for bfloat16 numbers,
without the spare 4096.

## 3. Model checking

The runs, their bounds, and why the bounds let the hard cases happen. State
counts are of the distinct states; the longest run takes a minute or two.

| run | states | checks |
|---|---|---|
| `mem_alloc` | 1287 | `TypeOK`, `FreeListCoalesced`, `LiveDisjoint`, `LiveOffFreeList`, `BlocksInPool`, `PayloadUsable`, `EveryByteAccounted`, `OutOfMemoryIsReal`, `ImplementsHeap` |
| `ext_sort` | 335723 | `TypeOK`, `NoLineLost`, `TmpFilesSorted`, `OutputSorted`, `Terminates`, `ImplementsSorter` |
| `merge_sort` | 151608 | `PassInvariant`, `Sorted`, `RoomForLines` |
| `xsai_init` | 168088 | `TypeOK`, `StatusIsFirstFailure`, `BenchOnlyAfterGate`, `SmokePassIsReal`, `WorkloadNeverKillsInit`, `UnattendedRunsEnd` |
| `word_count` | 6210 | `TypeOK`, `EveryWordCounted`, `TmpFilesAscend`, `OutputAscends`, `ImplementsTally` |
| `md5` | 405 | `NothingLost`, `BitsCounted`, `DigestsPaddedMessage` |
| `md5_lines` | 1673 | `RoomForDigests`, `DigestsInOrder` |
| `ame_gemm` | 30418 | `NoRaceWithAME`, `PoolWholeAgain`, `VerdictIsHonest`, `Terminates` |
| `ame_kernels` | 1019090 | `TilesMatchReference`, `VerdictCountsFaults` |
| `mem_alloc_leak` | violation | `EverythingFreedIsWhole` |
| `ext_sort_names` | violation | `AllInputsMerged` |
| `word_count_form_feed` | violation | `OneBigFile` |

* **`mem_alloc`.** A pool of ten 64-byte units and requests for 0, 64, 65, 192
  and 500 bytes: one unit filled exactly and one byte over it, three units, and
  a block that only a nearly whole pool can serve. Up to five blocks are live,
  so a freed block has every combination of free and live neighbours, leftovers
  are of none, one, two and more units, and a large request succeeds or fails
  depending on the order of the frees. `EveryByteAccounted` is exact: the bytes
  of the pool are those of the free blocks, of the live ones, and 64 for each
  sliver handed out. `OutOfMemoryIsReal` says that a refusal is never due to a
  missed merge. The pool never blocks its caller (deadlock is checked).
* **`ext_sort`.** Two threads; a file of several chunks with equal and blank
  lines, one whose last line has no end of line, an empty one, one with a name
  too long. Chunks of 8 bytes and blocks of at most two lines make blocks end by
  bytes, by lines and by the end of the file; an output buffer of 4 bytes is
  flushed in the middle of the merge. Two runs of the program, either of which
  may crash anywhere or fail, on a directory that an earlier run may have left
  a file in, and where `rm -rf` may leave any one file of what is there
  (`MaxStale`); a disk that may fail in any block of any file and, as `fgets`
  takes one letter at a time (`MY_LINE_MAX`), in the middle of a line
  (`NoLineLost` then counts the lines it never gave, apart from the piece of
  one, and a run with such an error never passes for finished, as
  `ImplementsSorter` shows); ten descriptors suffice for the nine files that
  the eight temporary files allowed and a stale one make. `NoLineLost` counts
  what the merge finds in stale files beside the input (`Extra`), so that no
  other line can be in the output; `OutputSorted` and `ImplementsSorter` speak of
  runs that found the directory cleared (`Cleared`), since a stale file may be
  one that a crash has cut off.
* **`merge_sort`.** Every block of up to seven lines with three keys: lengths
  that need one, two and three passes, odd and even numbers of runs, a last run
  that is whole, partial or missing, ties everywhere. A pass that only copies
  occurs for lengths 2, 5, 6 and 7. Before it the thread has sorted a block of
  none, three or five lines, which leaves arrays of four or of eight strings;
  one of the keys stands for a line of six characters, too long for a new
  string, so that buffers grow while lines move between the arrays.
* **`xsai_init`.** One workload of each kind of the table, up to eight stages
  (the suite's), one name that is not in it, three image modes, the gate and the
  optional convolution test on and off, every override of the command line, two
  exit codes (so that "first" and "last" failure differ), and at most one of
  four binaries missing. The smoke test has two int8 cases and one bf16 case,
  and `/tmp` room for 0, 1, 3, 4 or 5 results: nothing, half a file, one run's
  and half of the other's, two int8 files but no second bf16 file, and all but
  one result.
* **`word_count`.** One thread, the only mode supported (the dwarfs' README:
  "Currently we only support single thread mode"); three files of several
  chunks with equal words over chunks and files, marks, a blank line, a missing
  last end of line, an empty file. At the start `./wordcount-tmp` is absent or has
  a file with the first name and one with the last, of which `rm -rf` may leave
  either or both: the first is written over, the second is merged. Eighteen
  descriptors suffice for the eight temporary files allowed and the one left,
  although a chunk may leave one open.
* **`md5`.** Words of 64 values and blocks of 4 bytes with a length of 2, so
  that 20 bytes (160 bits) carry twice into the second word of the counter and
  the code's `len >> 29`, the bits divided by `Word`, is not zero; every way to
  cut a message into pieces; a second message in the same context. The padding
  sees each remainder of a block.
* **`md5_lines`.** Two threads, two blocks of up to four lines in an array that
  starts with four strings and must grow, lines shorter and longer than the
  digest, a blank line; strings reused by the next block and the next file; a
  disk that may fail behind every line and, as `fgets` takes four letters at a
  time, in two places of the longest.
* **`ame_gemm`.** A pool of 32 units that may refuse to be mapped each time it
  is asked for; `mem_test` with loops of three, four and eight blocks in the
  place of 16, 64 and 8, at sizes that fit in the pool together. (A big
  allocation at the end of a test could also be served from behind the
  fragments, as it could in the code's pool of 1 GB; it is `PoolWholeAgain` that
  notices a missed merge.) Then three tests of each program with a negative, a
  zero and a positive tile, an AME that may err in each, every legal order of
  execution, `sync1` unknown at first and left at one by each test. One failure
  more than `MaxFailures` stops the program early (the code: 50 tests and 5
  failures).
* **`ame_kernels`.** Tiles of 2x2x2 and 4x4x2 (blocks one deep for bfloat16) and
  two shapes: one narrower than a tile that is clipped to `MAXM` and, after three
  blocks, to `MAXK`, one with an edge in each dimension. Each capacity (none,
  four), target and setting, and each allocation that may fail. Up to two faults
  (`MaxFaults`), each in the first or the last element of a tile, so inside the
  matrix or beyond its edge, each of every kind: two in one tile, in one case or
  in two, of the target's tile or the other, one of which is noticed or both.
  The pools carry the values of every earlier tile and case.

**Fairness.** `ExtSort` and `WordCount` assume weak fairness of `main` only: a
running process takes its next step; opening or reading a file need not fail,
nobody need kill or start the program. `ExtSort` does end unless a read failed,
and `Terminates` says so: the code's loop on `feof` has no other way out.
`XsaiInit` assumes it of `Next`: PID 1 is scheduled and its commands return
(nothing in the scripts has a timeout; a workload that hangs is stopped from
outside, if at all). `AmeGemm` assumes it of the CPU and of the AME apart: the
hardware executes what it was given. The other modules state no fairness and no
liveness; their loops count up to a bound.

**Deadlock** checking is off where the program ends (all but `mem_alloc`).

### What could break them

Each property has at least one entry under `mutants` in `PROJECT.json`: the
missing merge in `my_free`, a split that keeps the block on the list, a header
forgotten in `align_up`, a temporary directory not cleared, a workload called
without an `if` around it, integers compared as floats are, a merge that takes
the first stream, a tail run not copied, a status that is the last stage's, a
kernel without the release or the reset, a pool whose padding is not cleared, an
array one string short, a comparison of two empty files, and so on. With it in
place TLC finds the property violated by the same run.

## 4. Proofs

### Data: `DataFacts`

The library's induction theorems take an operator as a parameter, which none of
the provers can instantiate. Induction itself is not lost with them. A set that
contains 0, and the successor of every number in it, contains all of `Nat`
(`SetInduction`): lacked it m, the map from k to k + 1 would take its numbers
up to m, one to one, to fewer of them, against the pigeonhole principle for
finite sets. A set is a value, not an operator, so the fact can be used: a proof
by induction names the set of the numbers its statement is true of. The rest of
the module follows from it:

* a function that is defined by recursion exists and satisfies its equation, for
  a measure that falls (`NatRecursion`, `Recursion`); without this nothing is
  known of `f[x \in S] == ...`, which is a `CHOOSE`. `MeasureInduction` is the
  induction that goes with it;
* the sums of the community modules exist, do not depend on the order of
  summation, and change by what is added, removed or renamed (`SumIsAdds`,
  `SumRemove`, `SumRenamed`, `SumUnion`); `Total`, the sum of a sequence, is
  additive (`TotalConcat`);
* a fold over a sequence is the result of its steps, one after the other
  (`FoldExists`, `FoldPrefix`), and `FlattenSeq` the concatenation of the pieces
  (`FlattenIs`);
* lists whose elements are records of several shapes (`IsSequence`,
  `Concatenation`);
* the places of an element in a sequence are finitely many, and those in a
  concatenation or in a family of sequences add up (`WhereConcat`,
  `TaggedSize`);
* quotients are unique (`DivModUnique`), and positions in a flat array of rows
  are one to one with rows and columns (`FlatIndex`, `FlatInverse`).

### The allocator

`MemAlloc_proofs` proves, for every pool size and every set of requests that
satisfy `PoolAssumption` (a whole number of 64-byte units, at least one, that
`size_t` can count past), `RequestAssumption` and `NullAssumption` (the null
pointer is no offset):

| theorem | property |
|---|---|
| `TypeCorrect` | `TypeOK` |
| `FreeListStaysCoalesced` | `FreeListCoalesced` |
| `NoSharedMemory` | `LiveDisjoint` |
| `LiveStaysOffFreeList` | `LiveOffFreeList` |
| `StaysInPool` | `BlocksInPool` |
| `PayloadsUsable` | `PayloadUsable` |
| `OutOfMemoryOnlyWhenReal` | `OutOfMemoryIsReal` |
| `NoByteIsLost` | `EveryByteAccounted` |
| `EverythingFreedWithoutSlivers` | `EverythingFreedIsWhole`, while `slivers = 0` |
| `Refinement` | `ImplementsHeap` |

**The invariant.** None of these is inductive. `LiveDisjoint` after `my_malloc`
needs that free blocks do not overlap live ones, which after `my_free` needs
that live blocks do not overlap each other; that two blocks do not touch after
a merge needs that the list was sorted without touching before; and that a
split leaves at least one header's room for the new free block needs all sizes
and addresses to be multiples of 64. `IInv` says so in one piece: the list is
sorted, aligned, within the pool and nowhere touches itself (`GoodList`); live
blocks are aligned, large enough and pairwise disjoint (`GoodLive`), and off
the list (`OffList`); before the pool is mapped there are none.

**The argument.** The list operations are proved first, about sequences alone:
what `Splice` returns (`SpliceOne`, `SpliceNone`), that `Need` is aligned and
large enough (`NeedProperties`), that taking a block leaves a good list which
the block is off (`TakenGood`), that inserting and merging leaves a good list
that covers what it covered and the block (`SpliceGood`, `AbsorbGood`,
`ReturnedGood`). `FirstFitKeepsIInv`, `FreeKeepsIInv`, `OutOfMemoryKeepsIInv`
and `StutterKeepsIInv` are the steps; `InductiveInvariant` puts them together.
For `Refinement` the blocks in `live` are mapped to their payloads: since
addresses are distinct the mapping is one to one (`PayloadInjective`), so
`my_free` removes exactly one allocation (`FreeReleases`), and the disjointness
of blocks with their headers gives that of payloads (`FirstFitGrants`).

`OutOfMemoryIsReal` speaks of runs of free units, however they came to be free.
No induction over the run is needed: a free unit lies in one block of the list
(`FreeUnitInBlock`), and of the blocks the run meets, the one with the highest
address must begin at or before the run's first unit, or the unit below it
would belong to a block that touches it, which `GoodList` forbids
(`RunInOneBlock`). A block as long as the run would have been found
(`NoFalseOutOfMemory`).

`EveryByteAccounted` is about sums: over the free list (`Space`, a `Total` of
sizes with their headers) and over the blocks callers hold (`HeldSpace`, a sum
over a set, whose finiteness is part of the invariant `Accounts`). All that
`mem.c` does to the list is a `Splice`, and one lemma says how that changes the
sum (`SpliceSpace`): a merge moves bytes from one term to another
(`ReturnedSpace`), and a split takes what was asked for, or 64 bytes more where
the tail is too short for a block (`TakenSpace`), which `slivers` counts.

`EverythingFreedIsWhole` is what the run `mem_alloc_leak` violates. The theorem
says that those tails are the only reason: as long as none was given away, the
pool is one free block whenever nothing is held. The blocks of a coalesced list
take fewer bytes than the stretch they span unless there is just one
(`BlocksTakeLess`, by induction along the list), so a list with all the bytes of
the pool is the one `pool_init` made (`AllBytesInOneBlock`).

### The init

`XsaiInit_proofs` proves, for every set of workload names, exit codes, missing
binaries and amounts of room in the scratch directory, and for every number of
int8 and bf16 cases (`CodeAssumption`, `CasesAssumption`):

| theorem | property |
|---|---|
| `NoBenchBehindAFailedGate` | `BenchOnlyAfterGate` |
| `StatusIsHonest` | `StatusIsFirstFailure` |
| `WorkloadsAreGuarded` | `WorkloadNeverKillsInit` |
| `SmokePassNeedsAllCases` | `SmokePassIsReal` |
| `TypesHold` | `TypeOK` |

**The invariant.** The properties look at the end of a run and at the history
`ran`; what carries them through the stages is that `ran` is a prefix, by name,
of what the table says the workload is made of (`RanPrefix`), and that `stages`
is exactly the rest of it, or empty after a stage that stops the workload has
failed (`Left`). `FailureStops` adds that such a stage can only be the last one
run, and `StatusKept` that the status is zero as long as every stage returned
zero, and otherwise the code of the first that did not. A benchmark has run
therefore only if the stages of the gate, which the table puts before it and
which stop the workload (`GateTable`, `SuiteTable`), have all returned zero.

**The table.** The stages are records of several shapes with no set in common,
so a list is typed as a sequence of its own elements (`IsSequence` in
`DataFacts`), and `Concatenation` and `Tuples` compute with such lists. `Table`
collects what the steps need to know of any workload's list. `TypesHold` adds
that no list has more than eight stages (`AtMostEight`) and that a status is
the code of a stage or of a name that is not in the table (`Typing`).

**The guards.** That no workload ends PID 1 is derived from the tests around its
calls: `TableFacts` has for every stage of every workload that its tests are not
all `"return"` (`Guarded`), because the table calls each of them in an `if`
(`Under("capture", ...)`), and that only the last stage has no other test before
that one (`NoneLost`), so that no code is lost on its way to the status. A stage
at hand is one of the table's, so `EndsShell` is false of it, and of the tests of
the dumps and of `after_workload` by their definitions.

**The smoke test.** `SmokeInv` says what the scratch directory holds after each
stage that succeeded: after the run of the stock kernels, its file is whole if
there is room left (`RefStage`); after the run of the AME kernels, all cases
were run, and if its file has anything in it, the other one is whole
(`AmeStage`). Equal files that are not empty are therefore both whole, and the
AME's results are the stock kernels' (`CmpStage`). This is why the two tests
for empty files in the dispatcher matter, and all the hazard of ignored write
errors comes to.

### The AME programs

`Ame_proofs` proves, for every pool that satisfies `PoolAssumption` (which
is what `MemAlloc` assumes of its constants, for the sizes the programs ask
for), every scale of `mem_test` (`ScaleAssumption`) and every number of tests,
failures and values of a tile (`TestAssumption`, which also says that neither the
null pointer nor a pointer that was never set is a block):

| theorem | property |
|---|---|
| `CPUAndAMENeverRace` | `NoRaceWithAME` |
| `TestsLeaveThePoolWhole` | `PoolWholeAgain`, while `slivers = 0` |
| `TestsFreeEverything` | nothing is held between the tests, with or without such tails |
| `VerdictIsTheAMEs` | `JudgesTheAME`, the first half of `VerdictIsHonest` |
| `RefusalIsReported` | a program whose pool was refused ends in status 1 |
| `VerdictHolds` | `VerdictIsHonest`, as long as the allocator has a block for the next request (`RoomForRequests`) |
| `VerdictHoldsInLargePool` | `VerdictIsHonest`, if the pool is larger than all requests together (`LargePool`) |
| `EveryBlockFreedOnce`, `EveryPointerChecked` | of the list `mem_test_calls`, see below |

**The allocator.** The theorems about `MemAlloc` are used as they stand, through
`P == INSTANCE MemAlloc_proofs`: what `AskFor` and `GiveBack` do to the pool is
what `FirstFitKeepsIInv` and `FreeKeepsIInv` are about. In exchange the
programs must free only what they hold, which `MemAlloc` assumes of its callers
(`my_free` of a block in `live`) and here has to be proved.

**The invariant.** `IInv` has two halves. `HeapInv` is about the pointers: the
allocator's own invariant with the bytes it accounts for, and that the program
holds exactly the blocks it is still going to free, each for one pointer. That is
stated for `mem_test` over the calls that are left (`TestPointers`: `FreedFrom`
a call on, `AskedBefore` it, `Keeps`), for the allocation of the buffers
(`Allocated`) and from then on (`Owned`). A pointer that was freed keeps its
value in the code, so that it is not freed again, and that every block is freed
in the test that asked for it, are facts about the list of calls:
`EveryBlockFreedOnce` says that a `my_malloc` is answered by a `my_free` of its
pointer before the next test, and that between two calls for one pointer other
than these a new test, with a new stack frame, is entered. It is proved test by
test (`LoopTests`, `FragmentationTest`, `CoalesceTest`, ...), since the loops
have as many calls as the constants say. `QueueInv` is about the sync register: it
is zero as long as instructions are issued, and while the CPU waits it is zero
with the release last in the queue, or one with nothing left in flight. The
release is executed only when it is alone in the queue, since it waits for all
(`ExecuteKeeps`).

**The argument.** Something is in flight only while the CPU issues or waits, when
it touches no memory and the program owns its buffers (`NoRace`); these are
different live blocks, so they are disjoint from one another and from the free
list by the allocator's invariant. Between two tests nothing is left to be freed,
so nothing is held (`NothingHeld`), and what the allocator's theorem says of a
pool of which nothing is held applies (`PoolIsWhole`).

**The AME's verdict.** That a test fails exactly if the AME got a product wrong
needs what is in the registers and the tiles at every moment of an execution out
of order. `OrderInv` says that the queue is a part of the kernel, in the kernel's
order. `DataInv` says of each register and of the result what it holds, by what
the AME has still to execute (`Pending`: queued, or not issued yet): the input
registers hold their tiles unless their load is pending, `acc0` is zero between
`mlc` and `mmacc`, and from then on it differs from the product exactly if the AME
was wrong in this test, and `C` is zero until `msc` is done and `acc0` afterwards.
It also says that no instruction was executed before one it depends on. An
instruction is executed only when nothing before it in the queue has to be waited
for, so what it reads is there (`ExecutesInOrder`, `WaitsNoMore`,
`ExecuteKeepsData`), and `macquire` lets the CPU go on only when nothing is
pending (`AcquiredIsDone`). `StageInv` and `ToldInv` carry this through the tests:
failures are counted exactly if `wrong` is not zero. The early stop does not
disturb that, because it needs a failure, nor does the kernel's short cut for zero
tiles, because the product is zero and `C` has been cleared.

**The pool's verdict.** One half needs no hypothesis: `RefusalInv` says that a
refusal in `mem_test` leaves a check that failed or a NULL in a pointer that is
still to be checked. That no test overlooks one is a fact about its calls:
`EveryPointerChecked` (`Foreseen`) says that a call uses only what a call before
it in the same test has given (`Needs`, `Gives`), and that every pointer asked a
block for is looked at before the next test (`Looks`, `Unseen`). For the other
half, that nothing but a refusal fails a program or kills it, `GrantedInv` says
that as long as nothing was refused each pointer is what the calls to come rely
on; it holds if `my_malloc` never runs out of memory. `VerdictHolds` takes that
as the hypothesis `[]RoomForRequests`, and `VerdictHoldsInLargePool` derives it
from the constants: `LargePool(n)` says that no request takes more than `n`
bytes and that the pool is larger than `n` bytes for every call of the script
and every buffer. The code's pool is: 254 calls and four buffers, of which none
takes more than 65600 bytes, are 17 MB of 1 GB. It is not obvious, since the
blocks are freed in between in every order and the allocator takes the first
that fits. `RoomInv` is the invariant: after `k` calls of `my_malloc` a free
block reaches the end of the pool and begins at `k * n` or below. A request
takes the front of that block or none of it (`TakenReaches`), and what is freed
leaves it as it is or extends it downwards (`ReturnedReaches`).

### The external sort

`ExtSort_proofs` proves, for every set of input files with any lines in them
(`TextAssumption`) and every number of threads, size of a chunk, a block and the
output buffer and limit on open files (`SizeAssumption`), with files that cannot
be read to their end, crashes and reruns:

| theorem | property | further hypothesis |
|---|---|---|
| `SizesHold` | `TypeOK` | |
| `TmpFilesStaySorted` | `TmpFilesSorted` | |
| `OutputStaysSorted` | `OutputSorted` | |
| `NoLineIsLost` | `NoLineLost` | `EnoughDescriptors` |
| `SortsAllLines` | `ImplementsSorter` | `EnoughDescriptors` |

`EnoughDescriptors` says that all the temporary files a run can make may be open
at once, those that an earlier run left included (`MaxTmpFiles + 1 < OpenMax`:
all have numbers up to `MaxTmpFiles`). It is needed: `merge_sort` reports a file it
cannot open and goes on without it (section 5), and then lines are lost. The run
`ext_sort` satisfies it.

**Order.** That a file is in order is not inductive: the next line written must
not be less than the last one. `IInv` adds that while a merge goes on, all it
has still to take from is in order (`Streams`) and no less than what it has
written (`Precedes`): `ChunkInv` for the threads' arrays, each of which has been
in order since its thread sorted it, and `MergeInv` for the rest of each
temporary file, where what is written is the output with what waits in its
buffer. `TmpInv` keeps the finished files in order until the last merge opens
them. A crash leaves any files behind, so it says nothing of them unless a
process is at work; `rm -rf ./sort-tmp` at its beginning (`BeginKeeps`) makes it
true again. Where it fails, what it has left is in no order, and `MergeInv` says
nothing of the merge (`Cleared`). Both merges take the least of the next lines,
so one lemma, `TakeLeast`, serves both: the least of the next lines is the least
of all that is left, since the streams are in order.

**Conservation.** `NoLineLost` counts a line in every place where a line can be.
The places that are families of sequences (the files not opened yet, the
threads' arrays, the temporary files, the streams of the merge) are sums over
finite sets (`OccAll`), and what an action does to such a family is one of three
changes: a member joins it (`OccAllJoin`), one member changes (`OccAllChange`),
or its members keep their counts in another order (`OccAllReordered`). `LineInv`
adds to the count (`Conserved`) what carries it: a file is read to its end
before the next is opened, and the arrays are empty when it is (`InputInv`); the
temporary files are numbered as `merge_sort` opens them, and none is also stale
(`FilesInv`). The lines of stale files come in with the merge, on both sides of
the count (`Extra`). Each action has its lemma (`LinePick` to `LineStutters`).

**Sizes.** `single_read_block` stops at the first line that fills the block, so
a block has at most one line more than `LINE_CNT_MAX` (`ReadFillsBlock`), and the
output buffer is flushed as soon as it is full (`BufferStaysBounded`).

**Refinement.** `Sorter` has one step that leaves the sorted lines of all files.
In the code that step is the end of the merge (`FinishIsMerge`): the streams and
the buffer are empty then, so by conservation the output has the lines of the
input, each as often, and by the other invariant it is in order, provided that
`./sort-tmp` was cleared: `Finished` says so, as `Sorter` knows nothing of other
lines. A new run maps to the abstract `Begin`, and every other step, whatever it
does to the temporary directory, to stuttering.

### The AME kernel test

`Ame_proofs` proves of `test_ame_kernels.c`, for every list of shapes, every pair
of tiles, every pool size (`ShapeAssumption`, `TileAssumption`), every capacity
the hardware may report, and any number of faults:

| theorem | property |
|---|---|
| `EveryTileMatches` | `TilesMatchReference` |
| `VerdictIsRight` | `VerdictCountsFaults` |

**Room.** A shape is clipped and a tile fits, so every case is in `Fitting`
(`CasesFit`), and the blocks of a tile fit in the pools although they are padded
to whole blocks, because the pools are a whole number of blocks deep
(`BlocksFit`); otherwise the zeros of the last block would take up some of the
spare bytes.

**The tile.** `Packed` says of a pool that element `x` of row `r` of block `t` is
the operand's in column `t * tk + x`, and zero beyond the last column or row.
`pack_rows` makes it so whatever the pool held (`PackRowsPacks`; the index of the
code takes a position apart as `InBlocks` says). The kernel adds up `kt * tk`
products, the reference `k` of them, and the rest are zero (`ElementIsDot`).

**The invariant.** `TilesInv`: the pools hold the blocks of the tile at hand,
but the rows of `bt` are packed once for a whole column of tiles
(`PoolsPacked`); after the kernel the real part of `pool_c` is that part of the
product, each element with the error the AME made there (`TileDone`). This is
only inductive if the faults of the kernel at work can be told from earlier
ones, so `FaultsBehind` says that the AME has erred in this case only in tiles
that come before the one at hand, in the order of the loops. `CopyKeeps` is
where the clipped edge matters: what is copied is exactly what becomes
`Computed`, because a tile with fewer rows or columns than its size ends at the
edge of the matrix (`TileRows`), and faults beyond it are left behind.

**The verdict.** Where the product is compared all of it is computed, every sum
is that of the reference, and what remains of the comparison is the errors:
`IsBad` holds exactly if one of them, within the matrix, is one that this kind
of case notices (`BadIsSeen`; `Noticed`: any in integers, only those beyond the
tolerance in floats, so not a NaN). The theorem says of the program that the
faults it can notice make it fail, and no others do, nor a lack of memory make
it succeed. `Counted` says that the counters are the bad cases among those
reported (`Decided`); later faults never belong to one of them, since the kernel
errs only in the case being tried (`KernelCounts`).

### The merge sort

`MergeSort_proofs` proves, for every set of keys with any lengths, every block
and any block sorted before with the same arrays (`KeysAssumption`; `MaxLen` is
a bound for TLC and any number in the proof):

| theorem | property |
|---|---|
| `PassInvariantHolds` | `PassInvariant` |
| `SortedHolds` | `Sorted` |
| `RoomForLinesHolds` | `RoomForLines` |

**One merge.** `mergeMsa` is a recursive function of two positions. What it
returns is proved by induction on what is left of both runs (`MergeOfRuns`): as
many lines, the same ones, in order.

**The invariant.** `Before` orders lines by key and then by place, and a merge
that takes the left one of two equal lines is right only if the left one was
read first. `PassInvariant` does not say so; `Passing` therefore adds `Earlier`:
every line of an earlier run was read before every line of a later one. It also
says that what a pass has merged is a whole number of pairs of runs (`Pairs`, on
which the division into runs depends, `RunOf`), and how long the runs can have
become, which the last run of a pass, whole, partial or missing, needs
(`EndRun`). `PassGrows` is the step of a pass, about sequences alone. `BlockRead`
says that the block in `msa` is what was read, and `Types` that the strings of
both arrays have the room they claim: a string that a longer line is copied over
(`CopyHasRoom`), those of an array that grows (`ResizedKeeps`, `PushKeeps`) and
`ms`, the string lines are read into.

### The word count

`WordCount_proofs` proves, for every set of input files, every size of a chunk
and a block, every number of temporary files and descriptors
(`SizeAssumption`, `TextAssumption`), whatever the order in which the directory
returns the files, and whichever of them cannot be opened:

| theorem | property | hypotheses |
|---|---|---|
| `CountsAreTyped` | `TypeOK` | `PlainText` |
| `TmpFilesHaveOneEntryPerWord` | `TmpFilesAscend` | `OneThread` |
| `OutputHasOneEntryPerWord` | `OutputAscends` | `OneThread`, `PlainText` |
| `EveryWordIsCounted` | `EveryWordCounted` | `OneThread`, `PlainText`, `EnoughDescriptors` |
| `TheTallyOfOneBigFile` | `OneBigFile` | these and `KnownLetters` |
| `WordCountImplementsTally` | `ImplementsTally` | these and `KnownLetters` |

**The hypotheses** are what section 5 says of the code, and none can go. With
`thread_cnt = 2` the first word of a temporary file is not the least
(`OneThread`; built without OpenMP, `main.c:99` sets it to the one of
`my_single_omp.c`, and the dwarfs' README supports nothing else). A form feed or
vertical tab is read back as something else (`PlainText`, which the run
`word_count_form_feed` violates). A temporary file that cannot be opened is left
out of the output (`EnoughDescriptors`: at most `MaxTmpFiles + 1` files are in
the directory, and `MaxTmpFiles` chunks may leave one open). A byte above 127 is
a letter only where `char` is signed (`KnownLetters`).

**Words.** `Before` compares character by character; `Parts` names the place
where two words differ, from which the order is total and transitive. `oneWord`
looks at a line from left to right, character by character, and `Tally` at
positions: a word is a run of letters that cannot be extended, or a mark.
`WordFound` says that `oneWord` finds a word in that sense, `NextWord` that
there is none between the end of one and the beginning of the next, and
`WordsInLine`, `WordsInFile` and `WordsInFiles` that a word is as often in what
`lineToMsa` returns as there are places in the text where it stands
(`TallyCounts`).

**Order.** As with the sort, that a file ascends is not inductive. `ChunkInv`
adds that the words of a sorted block are in order, and that the word being
counted follows those written and precedes or equals those left; `MergeInv`
that the streams ascend, strictly, and that what is in the output comes before
the word being added up, and that word before everything left in the streams,
except, until `AddEqual` has taken them, equal heads. Since streams are strict,
a word is the head of each stream that has it when it is the least, which is
why one pass of `AddEqual` finds all of its counts.

**Types.** That an entry is read back as it was written needs its word to hold
nothing `sscanf` takes for white space, and its number not to be zero
(`Scanned`). `TmpTypes` and `MergeTypes` say so of all files and streams, and
`StaleTypes` of the files of an earlier run, which are of one kind (`OldFiles`).

**Conservation.** `InFlight(w)` sums the occurrences of a word in the places it
can be: the files not opened yet, the rest of the open one, the blocks, the
temporary files, the streams, the word being counted or added up, the output.
`Conserved` says that this is what the input has, while a process is at work,
and from the merge on what the stale files have besides (`Extra`). Each action
has its lemma: a line read moves its words (`ReadKeeps`), sorting keeps them
(`SortKeeps`), counting a word takes one from a block to a count
(`WriteWordKeeps`), adding equal heads takes them from several streams at once,
which is a sum over a set of streams on both sides (`EqualHeadsTaken`,
`AddEqualKeeps`). `InputInv` says what must be empty when the next thing is
filled.

**Refinement.** At the end of the merge the output has one entry for each word
with, by conservation, its count in the input (`OutputCounts`), and by
`TallyCounts` that is `Tally`'s (`OutputIsTally`), if the directory was cleared
(`Finished`). All other steps leave `finished` and `result` alone.

### md5

`Md5_proofs` proves of the digest, for every length of a message, every size of
a block that has room for the length, and every number of values of a word that
the bits of a block divide (`WidthAssumption`; 64 bytes and 2^32 in the code):

| theorem | property |
|---|---|
| `NothingLostHolds` | `NothingLost` |
| `BitsCountedHolds` | `BitsCounted` |
| `PaddedHolds` | `DigestsPaddedMessage` |

**The invariant** is `Holds(ctx, m)`: the two words of `count` are the bits of
`m` (`Bits`), the blocks transformed are the whole blocks of `m`, and the buffer
begins with the rest. The lemma that matters is `UpdateHolds`: `MD5_Update` of a
piece takes `Holds(ctx, m)` to `Holds` of the message with the piece. The piece
may stay in the buffer (`SmallUpdate`), or fill it, give whole blocks of its own
and leave a rest (`LargeUpdate`). `MD5_Final` is two such updates, with the
padding and with the length, so its blocks are those of the padded message
(`FinalIs`); they are RFC 1321's because `PadLen` is the least padding that
leaves room for the length (`PadLenIs`, `PaddedIs`).

**Arithmetic.** The index into the buffer comes from `count[0]`, the message's
bits modulo the word. That it is the message's length modulo the block is where
the bits of a block have to divide the word (`ModShift`, `IndexOf`). The carry,
`count[0] < bits`, is `AddLengthIs`. The provers know little of products of
variables, so quotients are named and shown unique (`DivModUnique`).

The same module proves of `Md5Lines`, for every set of files with any lines, every
number of threads, bound on a block and size of a digest (`SizeAssumption`,
`TextAssumption`):

| theorem | property |
|---|---|
| `RoomForDigestsHolds` | `RoomForDigests` |
| `DigestsInOrderHolds` | `DigestsInOrder` |

`LinesInv` says for each phase where the lines of the file at hand are: those
written, behind them the block in the array (`BlockAt`: hashed once, but for the
pending ones), behind the block the lines still to be read. `Whole` says that
what can be read of a file is all of it, but for the one at hand on a disk that
fails (of which `ReadableLines` says that it still has lines), and that this one
is never left: its flag is never set, so the program does not end well. While
the block is written, it begins where thread 0 began, which is the only one that
prints (`Writing`). `PushedIs` is the induction over the pushes of a block into
an array that grows, and `WithRoomIs` gives every string in use its room.

### Model-checked only

* All liveness (`Terminates`, `UnattendedRunsEnd`): fairness and `ENABLED` are
  out of the provers' reach.
* `AmeGemm`: `PoolWholeAgain` after a tail of 64 bytes was given away, which no
  request of `mem_test` itself does in the pools of the run, and
  `VerdictIsHonest` in a pool so small that what was freed has to be used again,
  as in the run: that the requests fit then depends on each test's sizes.

## 5. What disagrees

Three runs end in a violation of what the repository says of itself.

* `mem_alloc_leak`: `my_malloc` gives the whole block away if less than 128
  bytes would be left, but records only what was asked for (`mem.c:101`, `:114`).
  A 64-byte tail is lost for good when the block is freed. `mem_test.c:62` and
  `:103` expect a pool that is fully coalesced when everything has been freed.
  Its own requests never leave such a tail.
* `ext_sort_names`: the path of an input file is cut to the directory's name and
  64 characters (`main.c:166` of the sort); a longer name is not found and the
  file is passed over in silence, with "all input files will be merged" (`:84`).
* `word_count_form_feed`: a form feed is a word for `oneWord` and white space
  for `sscanf` (`wordcount.c:357`), so its entry in a temporary file is read
  back as the entry of a word that is its count.

Seen while modelling, and not the subject of a run:

* `is_letter` tests `c<0` for the bytes above 127, which is never true where
  plain `char` is unsigned, as on riscv64 (`CharIsSigned` in `OneWord`).
* With two threads, `merge_write_msa_arr` of the word count does not compare the
  first word of its first array with the others, and a block without words drops
  the other blocks; the same early return leaks a file each time.
* More temporary files than descriptors are reported on stderr and left out of
  the output, by the sort and the word count, with exit code 0.
* `my_string.h:11` of the dwarfs says that its functions should not be called by
  several threads because they allocate and free; the sort's threads call
  `mergeSortMyStringArr`, whose copies do.
* `insertFirstMyStringArr` never increments the size of an empty array (it has
  no caller); `pushMyStringArr` ignores a failed expansion, and
  `mergeSortMyStringArr` a failed recapacity.
* A line that begins with a zero byte makes `do_one_file.c` look at the
  character before its buffer.
* A read error of an input file makes the sort and the word count write empty
  temporary files until the disk is full; md5's loop on the same flag
  (`main.c:204`) goes on for ever without writing. All three take what `fgets` had
  read of an over-long line for a line; md5 writes its digest.
* A `rm -rf` or `mkdir` of the temporary directory that fails is reported, if at
  all, and ignored by the sort and the word count (`main.c:118-131`, `:111-124`):
  what an earlier run left there is then merged into the output, with exit
  code 0.
* A NaN passes the comparison of floats in `test_ame_kernels.c:162-172`, which
  counts an element only if `scaled > tol`.
* `mem_test` frees pointers it has never set where the pool cannot be mapped.
* `ncnn_ame_smoke` looks at no result of `fprintf`, `fflush` or `fclose`. A NaN
  passes its gate on bf16 results (`ncnn_ame_smoke.cpp:345`); the comparison on
  the build host (`compare_smoke_bf16.py`) rejects values that are not finite,
  the one in the guest does not look at the bf16 files.
* `hello_xsai` returns 0 whatever its tests returned.
* `test_ame_kernels.c` computes `force128` and never uses it.
* md5 cuts the path of an output file as the sort does that of an input file.
* `setup_dsid_cgroup` guards its mounts but not its `mkdir`; `init-dsid.sh`
  writes `test-1` twice and never `test-2`.
* `Makefile.app`'s stamp of link flags has no prerequisites, and an install
  whose `patchelf` fails leaves the file installed unpatched.
* The manifests `spec_gen.py` writes for several benchmarks name their shared
  files once each, which `check-manifest.py` would reject as duplicates.

## 6. Not modelled

* `hello`, the boundary signals, `mininit`, `pmu_test`, `ame_hw_probe`,
  `ame_gemm_smoke` (nothing calls it): one instruction, one print, one call
  after the other in a single process, or a comparison of hardware counters.
* Manifests, init tables, configuration files: data. `init-disk.sh`,
  `init-dsid.sh`, `rcS`, `nfs.sh`, `setup-eth.sh`: a few commands in a row.
  `spec_gen.py` and `check-manifest.py`: one pass over a table on the build host,
  with no state that a second step could find changed.
* The build: make's scheduling, host tools and downloads.
* The drivers, scripts and models of `llama.cpp`, MNN and NCNN, and third-party
  programs: they call libraries outside the repository, on floating-point data.
  How the init judges their results is in `XsaiWorkloads`.
* In modelled parts: the rounds of `MD5_Transform` (a fixed function of a
  block), exhaustion of the C heap in the dwarfs, writes that fail (no dwarf
  looks at the result of one), reads of temporary files that fail
  (`sort.c:192-201` takes them for the end of the stream), a disk that recovers
  after a failed read, a disk that fails while the word count reads it (its loop
  is the sort's), what the THP dumps and log lines of the init print,
  prefetching and tracing in the AME kernel, the rounding of half and bfloat16
  numbers, the bytes `mem_test` writes and reads back, and whatever is printed
  only for a reader.

## 7. Plan

The order was: the allocator with its proofs, since everything the AME computes
lies in it; the sort, for threads, chunks and restarts; the init, whose verdict
everything else reaches the outside through; then the other two dwarfs and the
AME programs; then the compositions: the AME programs over the allocator, the
merge sort over its arrays, the smoke test inside the init; a failing disk; and
the proofs: the init, the race with the AME, the sort with its order, its lines
and its abstract specification, the merge sort, the allocator's bytes, md5, the
verdict of the AME programs, the word count with its tally, and the AME kernel
test. All of that is in place: every safety property the runs check is a
theorem, under the hypotheses section 4 names. What is left:

1. **Theorems.** `VerdictIsHonest` in a pool that has to use again what was
   freed, test by test.
2. **Models.** The threads of the word count with more than one thread, which
   its documentation does not support yet, and its arrays of numbers.
