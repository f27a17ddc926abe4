# Verification of the UBIFS scanner and its user-space test framework

This directory models, model-checks and proves properties of `src/ubifs-ut`: the
kernel's `fs/ubifs/scan.c`, compiled unchanged against a user-space stub of
`ubifs.h`, together with the harness, the unit tests and the mutation check
around it. Paths below are relative to `src/ubifs-ut`.

## 1. The system

| Component | Source | State it keeps | Operations | What makes it correct |
|---|---|---|---|---|
| Scan of an eraseblock | `src/scan.c` 125-366 | the cursor `offs`, `buf`, `len`; `*sleb` (list, count, end point); live objects | `ubifs_scan`, `ubifs_start_scan`, `ubifs_add_snod`, `ubifs_end_scan`, `ubifs_scanned_corruption`, `ubifs_scan_destroy` | the list is what is on flash, in order; the end point can be written to; nothing leaks; it terminates; no read leaves the buffer |
| Scanner of one node | `src/scan.c` 28-113 | none | `ubifs_scan_a_node`, `scan_padding_bytes` | what it says to skip is there and is a multiple of 8 |
| Header check and CRC | `tests/ut_support.c` 9-70 | CRC table, built on first use | `ut_crc32`, `ubifs_check_node` | a damaged header is rejected |
| Flash and node builders | `tests/ut_support.c` 72-104 | the caller's buffer | `ubifs_leb_read`, `ut_make_node`, `ut_make_pad_node` | what they build is what the scanner accepts |
| Kernel primitives | `include/ubifs.h` | `list_head` pointers, the heap | `list_add_tail`, `list_del`, `ALIGN`, `ERR_PTR`, allocation | the pointers form one ring in the order of insertion |
| Unit tests | `tests/test_scan_a_node.c`, `tests/ut_support.h` | the shared `c` and `buf`, `ut_checks`, `ut_failures` | 14 tests, 22 checks | the code passes; a regression does not |
| Build and mutation check | `Makefile` | objects, mutants, shell variable `fail` | `all`, `test`, `verify`, `clean` | PASS means that every mutant was caught |
| Kernel verification | `verify-kernel.sh` | a kernel clone with the patch applied | clone, `git am`, diff and copy, test, report | what is tested is what is reported, on every rerun |
| Rest | `patches/`, documents, `draw_workflow.py`, `src/tools/tcc` | - | copies, prose, one picture, a vendored compiler | - |

**Interaction.** A caller hands `ubifs_scan` a buffer of one eraseblock and an
offset. `ubifs_scan` allocates `sleb` and reads the flash (`ubifs_leb_read`;
with the harness the buffer is already full). It asks `ubifs_scan_a_node` again
and again what stands at the cursor, records nodes with `ubifs_add_snod`, skips
padding, stops at empty space or at the end, sets the end point, and checks that
the rest is erased. Every exit but the good one destroys the list again. The
tests call the same two functions; `make test` brings the binary up to date and
runs it, `make verify` runs the tests, then the tests on three edited copies of
`scan.c`. `verify-kernel.sh` does the same inside of a kernel tree, after it has
copied the kernel's `scan.c` over the tested one.

**What is hard.** The scanner and the harness are sequential; the difficulty is in
- the arithmetic at the boundaries: three copies of one position moved
  separately in five places, sums of `int` over lengths taken from flash, `ALIGN`
  behind a check of the unaligned length, `>` against `>=`, loops that stop at
  `len > 4` and `len < 8`;
- failure in the middle: an allocation for the n-th node, a read, or corruption
  found after nodes have been recorded, each with an exit of its own;
- order: `endpt` is set before the space behind it has been checked;
- what the tests cannot tell apart: test vectors rejected for a second reason,
  and a verdict made of exit statuses;
- what outlives a call: nodes that point into the caller's buffer, list pointers
  in cells that have been freed and allocated again, error codes in pointers.

Around them there is concurrency, and there are crashes: the main line moves
while the script runs, a pipeline is two processes, sources change while they are
compiled, and a build or a run of the script may be killed anywhere and started
again on what it has left.

`PROJECT.json` lists these hazards line by line with the properties aimed at them.

## 2. Modules

| Module | Role |
|---|---|
| `UbifsMedia` | node sizes and types, return codes, `ALIGN`, `int` and its sum with wrap-around |
| `FlashLeb` | contents of an eraseblock; `memset`, `ut_make_node`, `ut_make_pad_node`; geometry and its assumptions |
| `ScanANode` | `ubifs_scan_a_node`, `scan_padding_bytes`, the stand-in `ubifs_check_node` as operators |
| `UbifsScan` | the state machine of `ubifs_scan` and `ubifs_scan_destroy`, and their caller |
| `LebTiles` | how an eraseblock is to be read: as a row of tiles |
| `ScanPromise` | abstract specification: one call, one answer |
| `ScanRefinement` | the refinement mappings from `UbifsScan` to `ScanPromise` and, for the use of its list, to `NodeList` |
| `UbifsScanProofs` | theorems about `UbifsScan` |
| `ScanRefinementProofs` | the theorems that `UbifsScan` implements `ScanPromise` and `NodeList`, and lemmas about rows |
| `UnitTests` | the tests as vectors; the scanner as each edited build has it |
| `MutationCheck` | the state machine of `make verify` |
| `MutationCheckProofs` | theorems about `MutationCheck` and the outcome of each test of `UnitTests` |
| `ScanHarness` | `UbifsScan` composed with a writer that builds, erases and appends |
| `NodeList` | abstract specification of the list of nodes: a sequence |
| `KList` | `next` and `prev` under `INIT_LIST_HEAD`, `list_add_tail`, `list_del`, as `scan.c` uses them |
| `KListProofs` | theorems about `KList` |
| `HarnessProofs` | theorems about `ScanHarness` |
| `ErrPtr` | `ERR_PTR`, `IS_ERR`, `PTR_ERR` as operators on numbers with the widths of a pointer and of `long` |
| `Crc32` | the table and the loop of `ut_crc32` as operators, and polynomial division to compare them with |
| `Crc32Proofs` | theorems about `Crc32` |
| `BuildTree` | which targets `make test` rebuilds, under edits, failures and kills |
| `BuildTreeProofs` | theorem about `BuildTree` |
| `VerifyKernel` | `verify-kernel.sh` on a main line, down to the targets of `make test`, killed and run again |
| `VerifyKernelProofs` | theorems about `VerifyKernel` |
| `MCUbifsScan`, `MCScanHarness`, `MCKList`, `MCMutationCheck`, `MCBuildTree`, `MCVerifyKernel` | values of the constants for TLC |

`UbifsMedia <- FlashLeb <- ScanANode <- UbifsScan <- ScanRefinement <- MCUbifsScan`
is the chain of `EXTENDS`; `UnitTests` and `MutationCheck` branch off at
`ScanANode`. `LebTiles` branches off at `FlashLeb`, and `ScanPromise` extends it, so
that the abstract specification shares the flash format with the code but none of
the scanner; `ScanRefinement` extends `LebTiles` too. `ScanHarness` extends
`UbifsScan`, `ErrPtr` and `Crc32`. Of the proofs, `ScanRefinementProofs` extends
`UbifsScanProofs`, and `HarnessProofs` extends `ScanRefinementProofs` and
`Crc32Proofs`. `NodeList` is the contract between the scanner and its list:
`UbifsScan` does nothing else with it (`UsesList`), and the pointers of `KList`
implement it (`ImplementsSequence`). `BuildTree` and `VerifyKernel` stand alone.
`KList`, `ErrPtr`, `Crc32`, `BuildTree` and `VerifyKernel` each discharge something the
others take for granted: that the list is a sequence, that `ret` can be read off a
pointer, that a damaged header is noticed, that the binary tested is made of the
sources, that the sources tested are the kernel's.

### How `UbifsScan` corresponds to the code

The state is the arguments (`start`, `quiet`), the locals of `ubifs_scan`
(`offs`, `buf`, `len`; `buf` as an offset into the scan buffer), the fields of
`*sleb`, the returned pointer (`ret`: 0, or the `ERR_PTR` code), whether
anything has been printed, and the number of live objects of either kind. There
is one action per call and per iteration of a loop:

| pc | point of the code | actions |
|---|---|---|
| `idle` | no call in progress | `Call` |
| `start`, `read` | `ubifs_start_scan` 133-154 | `AllocSleb`, `AllocSlebFails`, `LebRead`, `LebReadFails` |
| `loop` | `while (len >= 8)` 265-311 | `SkipPadding`, `HitEmptySpace`, `AddSnod`, `AddSnodFails`, `BadNode`, `UnknownCode`, `EndOfLeb` |
| `end` | 313-320 and `ubifs_end_scan` | `Misaligned`, `EndScan` |
| `words`, `bytes` | the two loops over the empty space 322-331 | `SkipWord`, `WordsDone`, `SkipByte`, `BadByte`, `ReturnSleb` |
| `destroy` | `ubifs_scan_destroy` 354-366 | `DestroySnod`, `DestroySleb` |
| `done` | returned, the list is the caller's | `Release` |
| `undefined` | the code has read outside of the buffer | none |

`AddSnod` is the whole of `ubifs_add_snod` and the step of the loop behind it.
The exits `corrupted:` and `error:` are the operators `Corrupted` and `Error`.
`ReadOutside` is where a read at `scan.c:84`, `scan.c:207` or in the byte loop
would leave the buffer; it has no defined outcome, and `CursorInSync` says it
does not happen.

### How the other modules correspond to the code

- `ScanHarness` generalises `test_ubifs_scan_collects_nodes` (lines 166-205). Each
  call of a builder is a step: the buffer is blanked (`Erase`), a node is written
  with `ut_make_node` (`WriteNode`), a gap is filled up to the next minimal I/O unit
  (`WritePadding`) with a pad node as in line 183, or with padding bytes where none
  fits. Nodes lie on boundaries of 8 bytes. A scan starts when the last unit is
  full, at any node written or behind them all (`ScanFrom`). While a list is held
  the writer may go on at its `endpt`; the callers of `ubifs_scan` in the kernel
  that do so are external.
- `KList` has one action per operation of `scan.c` on the list (`StartScan`,
  `AddSnod`, `Destroy`, `DestroySnod`, `DestroySleb`). `next` and `prev` are
  functions on addresses; freed and fresh cells hold whatever they held before.
- `ErrPtr` has pointers as numbers below `PtrSpan` and `long` with `LongSpan`
  values; a conversion is a remainder or a change of sign. `Returned(a)` of
  `ScanHarness` is the pointer a scan returns when its list is at address `a`.
- `Crc32` has words as sets of bit positions. `ScanHarness` applies it to the header
  that the scanner is about to look at, whose bits are `HeaderBits`. That the table
  is built by the first call is left out.
- `BuildTree` keeps of the time stamps what make asks of them, and of the contents
  of a target what they lack (`behind`). `make` goes through `OBJS` and `BIN` one by
  one (`Skip`, `Start`, `Finish`). A compiler that fails, or a make that is
  interrupted, removes the target (`Fail`); one that is killed leaves a part of it
  (`Kill`). A part of an object does not link, for its end is missing; a part of a
  binary may run, and even pass, when it only lacks what is not loaded; it is
  taken not to pass where the whole binary fails. make without
  `-j`, one at a time.
- `VerifyKernel` has one action per command of the script and outcome of it. `pc`
  names the next step. `set -e` is that a failing action goes to `failed`;
  `pipefail` is the last disjunct of `PatchNotFound`. A commit is a number, and a
  version of a file the commit that last changed it. `make test` is taken apart into
  its targets (`UpToDate`, `Build`, `BuildFails`) and the run of the binary. What
  `build/` holds outlives the run: `made` are the targets that are newer than what
  they are made of, `torn` those of them that are only a part, `object` and `binary`
  the versions of `scan.c` they come from. Here only `scan.c` changes, which is why
  this is less than `BuildTree` has. `Crash` ends a run anywhere in `CrashPoints`,
  `CrashInBuild` in the middle of a target; `Clean` is the user's `make clean`.
  What git leaves behind was read off git itself (2.39): a killed `git am` leaves
  `.git/rebase-apply`, `git am --abort` restores what is in the index and leaves
  other files, so these may stay (`AbortAm`); a failing `git clone` removes what it
  has made unless it is the checkout that fails (`CloneFails`); a killed one leaves
  a `.git` without a commit, in which `git am` succeeds and the `cp` of line 58 fails
  (`CopyFails`), or a commit without its tree, in which `git am` is refused. Where a
  killed checkout has left an `index.lock`, `git am --abort` changes nothing.

### Abstractions

- *Bytes and headers.* `leb.byte` has every byte, `leb.hdr` the decoded fields
  wherever the four bytes are `UBIFS_NODE_MAGIC`. Nothing reads the inside of a
  header byte by byte, so its encoding is left out.
- *CRC.* `ut_crc32` is taken to be injective on the fields it covers: a header is
  damaged exactly when its `crc` was not computed from its other fields. The CRC
  covers the common header only, so `pad_len` is outside of it, as in the code.
  No CRC of 32 bits is injective on 128; `DamageFound` checks that it tells apart the
  headers in use and notices a flipped bit, two of them and bursts of 32.
- *Width of int.* `Plus` adds with the wrap-around of the builds in use; `IntMax`
  is a parameter (TLC's own numbers have 32 bits).
- *List.* The list of nodes is a sequence in `UbifsScan`, which `KList` implements.
- *Printing* is reduced to whether a call has printed.
- *Buffer.* In `UbifsScan` it does not change; in `ScanHarness` it does.

## 3. What is model-checked

Images are all sequences of at most `MaxPieces` pieces that fit, laid out from
offset 0 with the harness's own writes, the rest blank. A piece is a node, keyed
or not, with a length that is a multiple of 8 or not, with a damaged CRC or a
length beyond the eraseblock; a pad node that is right, runs over, is negative,
is misaligned or makes the sums wrap; raw padding of 8, 10, 16, 24 or 32 bytes;
garbage; a header never completed; or a gap left blank.

| Run | Question | Result |
|---|---|---|
| `scan_safety` | 18 kinds of piece, three deep, two start offsets, every allocation and read may fail: `TypeOK`, `CursorInSync`, `HeapBalanced`, `ListMirrorsFlash`, `EndpointIsWritable`, `LoopsConsume`, `EveryStepCounts`; does `UbifsScan` implement `ScanPromise` (`KeepsPromise`) and use the list as `NodeList` allows (`UsesList`), does every call return (`EveryCallReturns`)? | hold, 187,817 states |
| `scan_overflow` | pieces on which the `int` sums wrap or a node is too short for its key: is the heap still balanced? | holds, 23,098 states |
| `make_verify` | `make verify` over the three shipped mutants mixed with three survivors: `CodePassesItsTests`, `CaughtByItsTest`, `NoSurvivorHidden` | hold, 1,152 states |
| `scan_harness` | a writer and a reader that go on in one buffer: `ReadBack`, `NeverRefused`, `HeldNodesFresh`; pointers of 16 bits: `CallerKnows`; each header looked at, 352 damages: `CrcIsRemainder`, `DamageFound` | hold, 14,090 states |
| `kernel_list` | five nodes, cells used again: `ListIsRing`, `LiveIsListed`; does it implement `NodeList`? (`ImplementsSequence`) | hold, 3,003 states |
| `build_tree` | `scan.c` and `ubifs.h` edited at any time but while they are compiled: `PassIsOfInputs` | holds, 157,444 states |
| `verify_kernel` | five commits, the script killed anywhere and inside of make, versions that do not compile or fail the tests: `EvidenceTrue`, `StaysOnCourse`, `RunsComplete` | hold, 43,255 states |
| `quiet_prints`, `raw_padding_too_long`, `pad_sum_wraps`, `dropped_checks_survive`, `verify_without_running` | what a comment, a document or a test says | violated, see section 5 |

**What the properties say.**
- `CursorInSync`: `buf = offs`, `offs + len = LebSize`, `start <= offs <= LebSize`,
  8-byte alignment in the loop, no read outside of the buffer.
- `HeapBalanced`: the live objects are those on the list, on every path; none
  between calls.
- `ListMirrorsFlash`: each entry is an intact node that is not padding, with the
  fields it has on flash, in flash order and without overlap.
- `EndpointIsWritable`: behind the end point of a returned list there is nothing
  but erased flash, and the end point is a multiple of `min_io_size`.
- `LoopsConsume`: each iteration of the three loops consumes at least a byte and
  no more than is left. `EveryStepCounts` goes on from there to all of the code: the
  bytes left, the nodes on the list and the parts of the code still ahead add up to a
  number that every step lowers, also on the way out of an error and in a release.
- `UsesList`: on no path is a node added before there is a list, twice, or after
  the list was given up, and the list is given up when it is empty and not before.
- `KeepsPromise` joins them into one sentence: the answer is the row of tiles from
  the start offset and its end if the rest is erased and aligned, `-EUCLEAN` if
  not, and any other error only when memory or the flash failed.
- `CodePassesItsTests` runs the repository's 22 checks against the model of the
  scanner, which also guards the model; `CaughtByItsTest` says that each shipped
  mutant fails exactly one of the 14 tests, the one written against it;
  `NoSurvivorHidden` that a PASS means that each mutant that ran was caught.
- `ReadBack`: a list holds what was written, from its start on, and ends where the
  writer goes on; `NeverRefused`: what the builders write is never corrupt;
  `HeldNodesFresh`: what the nodes of a held list point to (`snod->node`) is what
  they were made from. The last one needs that the buffer is not erased under the
  list, and says that appending at `endpt` is harmless.
- `ListIsRing`, `LiveIsListed`: the pointers form one ring both ways, nothing is
  freed twice or lost, no freed cell is reached. `ImplementsSequence` is the
  refinement that lets `UbifsScan` use a sequence.
- `CallerKnows`: from the pointer alone the caller can tell whether the scan has
  failed and with which error, wherever the list has been allocated.
- `CrcIsRemainder` compares the table and the loop with polynomial long division;
  `DamageFound` says that `ut_crc32` differs for two headers that differ, be it by what
  was written or by damage.
- `PassIsOfInputs`: a PASS of `make test` is of a binary made of all inputs as they
  are, unless one changed while this make ran. An input that changes while it is
  compiled is left out of it (`EditsDuringCompile = FALSE`): of that it is false,
  see section 5.
- `EvidenceTrue`: when the script prints "Evidence chain complete" each of the
  first three lines below it is true, the binary that passed was linked from the
  version of `scan.c` that is in both places, and the commit printed as the baseline
  has that version.
- `RunsComplete`: a run that starts on a whole clone, without an unfinished `git am`
  or files of one, with fewer than five commits above the patch and a `scan.c` that
  passes, completes unless it is killed. Of what killed runs leave behind it has
  to exclude one thing: a torn target in `build/` that make takes for up to date
  (`TornRemade`). If it was made of `scan.c` and `scan.c` has changed, the run
  still completes, for the copying has it remade; a torn `tests.o` stays until `make
  clean`. `StaysOnCourse` is the part of it that needs no fairness: none of its
  steps fails or turns back.

**Bounds.** `IntMax = 255` with `LebSize = 96` keeps the
proportions that matter: `LebSize` is a multiple of 8, fits an `int` more than
twice, and holds three nodes. 96 bytes give every piece a predecessor, a
successor and a place at the very end. The start offsets 0 and 32 include one in
the middle of what is laid out, which may fall on a node, into a node or into
padding. `MinIoSize = 16` makes the alignment at `scan.c:313` able to fail;
`MinIoSize = 8`, where it cannot, is used where other questions are asked. The
`make_verify` instance has `IntMax = 32767` and `LebSize = 1024`, for the test
vectors use offsets up to 512.

`scan_harness`: three units of 64 bytes, on a buffer that is blank at first. A CS node
of 32 bytes leaves half a unit, which a pad node and 4 bytes fill; a data node of 71
bytes goes on into the next unit, which a pad node and 28 bytes fill, or, behind a
CS node, 24 padding bytes. Six of the one fit, or two of the other,
or some of both in any order. `IntMax = 511` is the least of the form 2^w - 1 above
`LebSize + MinIoSize`. `kernel_list`: a node between two others, at either end, and one more for a cell used again; the cells are symmetric.
16 bits of pointers stand for 64: `MAX_ERRNO` keeps its value, and the addresses
are on both sides of each boundary. The CRC has its real width and length, for
nothing less tells the polynomial from another. `build_tree`: `scan.c` is read by one object, `ubifs.h` by
three. `verify_kernel`: scan.c changes before and after the commit the patch
was made on, to versions that pass, that do not compile and that compile and fail.
`SigPipe` is FALSE, for `StaysOnCourse` and `RunsComplete` are about runs without the
race; `EvidenceTrue` is proved for either value.

**Deadlock** is checked in every passing run but `scan_overflow`, where a
behaviour ends in `undefined`.

**Fairness.** `FairSpec` assumes weak fairness of `Scanner` and of nothing else:
`ubifs_scan` is straight-line code on its caller's thread and runs on once
called. Nothing obliges the caller to call or to release a list. `FairSpec` of
`VerifyKernel` assumes weak fairness of the steps of a run of the script that has
begun: the shell goes on to the next command, and each command ends. Nothing
obliges anybody to start a run, to pull or to abort a `git am`.

**Mutants.** Each property of a passing run has a mutant of a mapped definition
that breaks it under that run: a missing `kfree`, a comparison dropped, a pointer
not moved, `continue` for `break`, a `fail` that forgets, a header missing from a
rule, a copy that keeps its old time stamp, a signed comparison in `IS_ERR`.

## 4. What is proved

For every `IntMax`, geometry, set of eraseblocks and set of start offsets that
satisfy the named assumptions (`IntMaxAssumption`, `GeometryAssumption`,
`ImagesAssumption`, `StartsAssumption`: `int` and the eraseblock are multiples of
8, `min_io_size` is a power of two from 8 to 65536, a scan starts on a multiple
of 8 inside the eraseblock):

| Theorem | States | Needs of the contents |
|---|---|---|
| `TypeCorrect` | `Spec => []TypeOK` | nothing |
| `NothingLeaks` | `Spec => []HeapBalanced` | nothing |
| `CursorCorrect` | `Spec => []CursorInSync` | `Tame` |
| `EndpointCorrect` | `Spec => []EndpointIsWritable` | `Tame` |
| `LoopsConsumeCorrect` | `Spec => LoopsConsume` | `Tame` |
| `ListCorrect` | `Spec => []ListMirrorsFlash` | `Tame` |
| `StepsCorrect` | `Spec => EveryStepCounts` | `Tame` |
| `PromiseKept` | `Spec => KeepsPromise`: `UbifsScan` implements `ScanPromise` | `Tame` |
| `UseCorrect` | `Spec => UsesList`: `UbifsScan` uses its list as `NodeList` allows | `Tame` |

and of the other modules:

| Theorem | States | For every |
|---|---|---|
| `RingCorrect`, `LiveCorrect` | `Spec => []ListIsRing`, `Spec => []LiveIsListed` | set of cells |
| `SequenceCorrect` | `KList` implements `NodeList`, mapped by the history `order` | set of cells |
| `WalkCorrect` | `Spec => ImplementsSequence`: the same, mapped by walking `next` | finite set of cells |
| `CallerCorrect` | `HSpec => []CallerKnows` | heap, geometry, set of nodes and width with `LongSpan = PtrSpan` |
| `NeverRefusedCorrect` | `HSpec => []NeverRefused` | geometry with `UnitFits`, set of nodes; the buffer is blank at first |
| `ReadBackCorrect` | `HSpec => []ReadBack` | the same |
| `HeldNodesCorrect` | `HSpec => []HeldNodesFresh` | the same |
| `CrcIsReference` | `Crc(p, len)` is the remainder of the long division | string of bytes of any length |
| `CrcCorrect` | `HSpec => []CrcIsRemainder` | set of contents, geometry and set of nodes |
| `BurstFound` | two strings that differ, and within 32 bits in a row only, have different CRCs | string of at least 4 bytes |
| `VerdictCorrect` | `Spec => []NoSurvivorHidden`: `make verify` hides no survivor | list of mutants |
| `TestsPass` | `Spec => []CodePassesItsTests` | `Roomy` geometry, list of mutants |
| `AimCorrect` | `Spec => []CaughtByItsTest` | the same |
| `PassCorrect` | `Spec => []PassIsOfInputs` | set of sources that change, not the flags, and not while they are compiled |
| `EvidenceCorrect` | `Spec => []EvidenceTrue` | main line, sets of versions that compile and that pass, set of crash points, with and without the race of `grep -q` |
| `CourseCorrect` | `Spec => StaysOnCourse` | the same |

`Tame` says what the code relies on without checking it: a pad node has room for
its `pad_len` and a keyed node for its key (`WellRanged`, which the kernel's
per-type ranges give and the stand-in `ubifs_check_node` leaves out), and
`pad_len` is at most `IntMax - LebSize` (`PadLenFits`), so that no sum wraps. The
first two theorems hold without it. For `ScanHarness` it is no assumption: that what
the builders write is `Tame` is part of the invariant. `UnitFits`, `LebSize + MinIoSize
<= IntMax`, is what it takes: a pad node announces up to a unit. `Roomy` is that the
eraseblock and `int` have room for the offsets the tests use (`LebSize > 320`,
`LebSize + 284 <= IntMax`) and that `min_io_size` is at most 32, so that the end
point of the last test falls on a unit; the tests have 131072 or 4096 bytes, an `int`
of 32 bits and 8.

**The arguments.** `TypeInv` is `TypeOK` and `HeapBalanced` strengthened by what
ties them to control: during a call `buf + len = LebSize` as integers and
`len <= LebSize` (so one addition cannot leave `int` unnoticed), and the list is
empty until the read has succeeded. `HeapBalanced` alone is not inductive:
a failed read frees the header only, which is right because the list is empty. `ScanInv` adds
the position (`PositionInv`) and that everything between the end point and the
cursor has been seen to be erased (`ErasedSoFar`), without which the last step of
the byte loop says nothing about the bytes before it. Everything the loop needs
of `ubifs_scan_a_node` is the lemma `TameLook`: what it skips is a positive
multiple of 8 and not more than is left, and a node is intact. `ListStep` needs
`ScanInv` to know that an appended node starts where the previous one ends.
`VerifyInv` ties the recipe's `fail` to the history: as soon as a mutant that ran
has failed no test, `fail` is set, and while one runs its failure counter is zero
exactly as long as none of its tests has failed. `TestsPass` and `AimCorrect` take
the tests apart: what each of the 14 returns in the code and in each of the three
mutants is worked out from its vector, the builders and `ubifs_scan_a_node`. The last
test scans, and its scan is a recursive function, of which a value at 0 is
known only when there is a function that satisfies the equation; it is written down,
place by place, for the nodes that the test lays out (two, a pad node, erased flash).
`SuiteInv` counts along: the tests that have failed so far are those of the ones run
that are aimed at the build.

`StepsCorrect` and `CourseCorrect` are what is left of two liveness properties when the
fairness is taken away. For the first, `len` never gets below zero (`LenStays`), and a
step pays with bytes, with a node, or with a part of the code it leaves behind; a
node added costs at least 24 bytes, which pay for its release as well. For the
second, `OnCourse` says of each `pc` what a run needs from there on; that the tests
pass needs the invariant of `EvidenceCorrect`, by which the binary is made of the
kernel's `scan.c` when they are run, and that nothing in `build/` is torn from the
copying on. `UseCorrect` adds to `ScanInv` that the cursor has passed each
node recorded (`Passed`): this is why none is added twice, and it would fail if an
iteration left `offs` where it was.

`PromiseKept` needs to know what `Row` is. It is a recursive function over data, and
about such a function nothing is known until there is one that satisfies its
equation. The library's induction theorems are out of reach, for they take an
operator; but a set will do instead. A set of offsets that holds an offset whenever
it holds all the later ones holds them all, for a largest one outside of it would
be in it (`Descent`, from the well-foundedness of the numbers). With the set of
those offsets from which on a row exists this gives the equation (`RowEquation`,
`RowUnfolds`), and with other sets the types. `LookIsTile` then says that what
`ubifs_scan_a_node` makes of a place is what `LebTiles` calls the tile there, for
every `Tame` eraseblock, which no bounded set of images can. `PromiseInv` is `ScanInv`
with `FoundSoFar`, that the list so far and the row from the cursor on make up the
row from the start on, and `VerdictTrue`, that `-EUCLEAN` is on its way out only when
the row does not end in erased flash. The second one needs `ErasedSoFar` again: the
byte at which the loops stop must be behind the end of the row.

`HInv` is about writing. No step of the scanner writes and no step of the writer moves
the cursor, so `PromiseInv` holds as long as the list in hand is up to date; once the
writer has used its end point (`Dated`), what is left of it is that its nodes are
among those written (`HeldWritten`). A write at the tail must not change the rows in
front of it. For a node it does not, and it makes each of them one tile longer.
Raw padding is the exception: how long such a tile is depends on the byte behind it,
so padding bytes written behind padding bytes would change a row that was there
(`scan.c:35-39` counts on, up to 28, and 32 of them are garbage: section 5, 2).
`Layout` excludes it: when the last byte is a padding byte, the tail is at the
end of a unit, and the next thing written is a node. `ReadBack` is then
`RowsWritten` at the start of the scan.

`CrcIsReference` compares two loops that have no state in common: one takes eight bits
at a time from the low end of a word of 32, the other removes one power at a time
from a polynomial of 8 len + 32. Between them stands the shift register that
takes one bit at a time. Eight of its rounds are one lookup (`ByteTaken`): what has not
yet reached the low end is only shifted by a round (`RoundShifts`), so the eight bits in
the table's index can be taken apart from the other 24. One of its rounds is one step
of the division (`BitDivided`): after j steps the power x is left over exactly if
bit j and the register say so (`InPoly`). `BurstFound` is that a round can be undone, for
the constant has its top bit (`RoundKeeps`), and that register and window of 32 bits
form one word while the window is taken (`WindowTaken`).

`ListInv` adds to the ring that the cells of `order` are distinct and that a live cell is
on it: `list_del` of the first node shortens the ring only if no other place of
it is that node. `SequenceCorrect` maps the list to the history `order`. `WalkCorrect` maps
it to what walking `next` yields, a recursive function, by the same induction over
sets as that of rows: the walk exists (`WalkExists`), it goes along the ring
(`WalkIsRing`), and it is back at the head after the length of `order` and not
before (`WalkedIsOrder`). The cells must be finite in number for the walk to be
bounded by it (`OrderFits`); addresses are. `TreeInv` says where the lack of a target can be seen: that of an
object in its own time stamp, that of the binary in its time stamp or in that of
an object that will be compiled (`Accounted`), also when the object has been
removed since; and that make has left nothing behind it out of date
(`ProgressInv`). Without the second part a killed link would hide a change.
The invariant of `VerifyKernel` ties each `pc` to what has been established: from the
diff on the patch is applied, behind the copying the two files agree, and there is a
kernel file to agree with, which only a whole clone has. That the binary is
made of the copy needs `BuildInv`: whatever make takes for up to date, torn or not,
was made of the copy there is, since everything that changes the copy outdates it.
For the baseline it needs that a version of `scan.c` goes back to a last
change (`LastChange`): the greatest element of a set of commits exists because
the order of the numbers is well-founded.

**Only model-checked.** `EveryCallReturns` and `RunsComplete` are liveness under fairness,
out of the prover's reach; what is proved of them is that no step is in vain
(`StepsCorrect`) and that no step leads astray (`CourseCorrect`), and what remains to
TLC is that some step is always enabled. Of `DamageFound` the bursts are `BurstFound`;
that two flipped bits far apart are noticed, and that the headers in one buffer
have different CRCs, are facts about one polynomial at one length, which TLC
computes. `scan_overflow` checks a case outside of `Tame`, where `NothingLeaks` holds and
the other theorems say nothing.

## 5. Where the code and what is said of it differ

1. *A quiet scan prints* (`quiet_prints`). `scan.c:244` says "@quiet: print no
   messages"; lines 289, 295 and 298 print whatever `quiet` is.
2. *Long raw padding is garbage* (`raw_padding_too_long`). `README.md:81` says that
   raw padding of a multiple of 8 bytes is skipped; `scan_padding_bytes` looks at
   28 bytes at most, so a run of 32 counts as 28 and is garbage. Only runs of 8,
   16 and 24 are skipped.
3. *The overrun check wraps* (`pad_sum_wraps`). For `pad_len` near `INT_MAX`,
   `offs + node_len + pad_len` at `scan.c:89` becomes negative and the check that
   `README.md:70` and `test_scan_a_node.c:93` describe passes.
4. *Two comparisons are not tested* (`dropped_checks_survive`).
   `test_scan_a_node.c:6-8` calls the function regression-proof. The vectors of
   `test_pad_node_overruns_leb` and `test_pad_node_negative_pad_len` are not
   multiples of 8 either, so the alignment check rejects them: with either
   comparison of `scan.c:88-89` removed all 22 checks pass.
5. *A PASS without a run* (`verify_without_running`). The recipe treats a compiler
   failure as a caught mutant: `make verify CC=false` after a build prints PASS,
   where `Makefile:12` says that it proves that the tests catch regressions.

These five are runs. The following were met while modelling and are not; the
models contain the behaviour, and the constants named show it.

- *git am is run twice* (`SigPipe = TRUE` in `VerifyKernel`). `verify-kernel.sh:44` skips a
  patch that is there. `grep -q` at line 43 leaves at its first match; if `git log`
  then dies of SIGPIPE, `pipefail` makes the condition false and `git am` is run,
  refused, and left unfinished. `RunsComplete` excludes it.
- *A partial clone is reused.* Line 34 asks for `.git`, which a killed clone has as
  well; line 37 says "reusing existing clone". No later run completes: hence the
  whole clone in `RunsComplete`. If there is no commit yet, `git am` even applies the
  patch "to an empty history", and the run fails at line 58.
- *A killed make is not recovered from* (`CrashInBuild`). make asks for time stamps
  only, and the part of a target that a killed compiler leaves is newer than its
  sources. `Makefile:11` says "build (if needed)"; the later runs do not build it,
  and fail at line 62 of the script with a `scan.c` that passes, until somebody calls
  `make clean` (which `verify-kernel.sh` never does) or, if `scan.c` went into it, the
  main line brings another one. It never makes a run pass that should not.
- *The patch leaves the window.* After five commits pulled on top of the patch line
  43 no longer sees it, and every run fails, where line 12 says "auto-updates if
  mainline moved on": hence the five in `RunsComplete`.
- *The baseline is that of the clone.* In a clone of depth 1 `git log -1 -- path` prints
  its only commit, whatever it changed (`Report`). The design document (350-351)
  and `INTERVIEW.md:48` know of it. `EvidenceTrue` says what remains true: that
  commit has the version tested.
- *Drift of the stub goes unnoticed.* The design document (160) relies on the diff and
  on compile errors; the diff is of `scan.c` only, and `scan.c` is compiled against
  the stub. The script never reads the kernel's headers, and neither does the model.
- *IS_ERR on 64-bit Windows* (`LongSpan < PtrSpan` in `ErrPtr`). The design document
  (225) wants it equivalent; `ubifs.h:69` cuts the pointer to the 32 bits of `long`
  there, so a list whose address happens to end in 0xFFFFF001 or more is taken for
  an error. `README.md:55-58` builds the tests with a compiler for that platform.
- *A stale binary passes* (`EditsDuringCompile = TRUE`, or `Editable = {"flags"}` in
  `BuildTree`). `Makefile:11` says "build (if needed)"; a source saved while it is
  compiled and a change of the flags do not count as a need.
- *The CRC is the complement of the kernel's.* `ut_support.h:28` says "exactly like the
  kernel does"; `ut_support.c:38` inverts the result, which the kernel's `crc32()`
  does not. The harness agrees with itself, and refuses every node of an image the
  kernel has written. (The kernel's function is not in this repository.)

A sed expression that no longer matches is the build `unmatched`: its copy is the
code itself, it passes all tests and is reported as not caught. (The risk table of
the design document expects it to fail to compile and to be judged caught.)

## 6. Not modelled

`patches/` adds copies of the files above to a kernel tree and has no code of its
own; the documents are prose; `draw_workflow.py` draws a picture. `src/tools/tcc` is
a vendored compiler: about 33,000 of the roughly 34,000 lines of C in the repository
are its Windows headers, declarations with no behaviour to model. Of the files of
`ubifs-ut` the definitions here stand for nearly all lines that change state or
decide something; what is left are comments, messages, hex dumps, includes and
declarations. The CRC of payloads and the per-type ranges of the kernel's
`ubifs_check_node` are not in this repository.

A `min_io_size` of zero, by which `scan.c:167` and `scan.c:313` would divide, is
excluded by `GeometryAssumption`: every test sets the field. Parallel runs, of
`make -j` or of two scripts in one directory, are left out.

## 7. Plan

Done, in this order: `UbifsMedia`, `FlashLeb`, `ScanANode`, `UbifsScan` with its
runs; `ScanPromise` and `ScanRefinement`; `UbifsScanProofs`; `UnitTests`,
`MutationCheck` and its proof; `VerifyKernel` and `KList` with their proofs; `ErrPtr`,
`Crc32` and `ScanHarness` with its proof; `BuildTree` and its proof; the refinement
(`ScanRefinementProofs`), the three properties of the writer and reader
(`HarnessProofs`), the CRC (`Crc32Proofs`), the walk along the pointers
(`KListProofs`), the outcome of the tests (`MutationCheckProofs`), the use of the list
(`ScanRefinementProofs`), and the safety halves of the two liveness properties.

Left, most important first:
1. `make -j` in `BuildTree`: several targets in the compiler at once.
2. `DamageFound` for two flipped bits at any distance below the period of the
   polynomial.
