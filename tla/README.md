# TLA+ models of the gfx950 Gluon kernels

The repository holds GEMM and flash-attention kernels written in Gluon for AMD
CDNA3/CDNA4 GPUs, the host code that launches them, and two compiler plugins
that reschedule what the compiler emits for them. Nearly all of its logic is
*software pipelining*: a kernel keeps several tiles on their way from global
memory through LDS into registers while it multiplies older ones, and its
correctness rests on counts (`wait_group(5)`, `buffer 1 - l_idx`, eight regions
per loop turn) that a numeric test exercises on one timing out of many. These
modules model the pipelines with the asynchrony they run under, check them with
TLC, and prove with TLAPS: of the main kernel for any number of warps and
K-steps that it computes C without races, of every other kernel that it does so
if its programs pass a static check, of the workgroup mapping that it is one
to one for any grid, and of the LLIR scheduler that in any function it changes
nothing but the hints and the packed operations it splits, its sync ids are
distinct and its count is exact.

## 1. Inventory

| Component | State | Operations | What makes it hard |
|---|---|---|---|
| intra-wave a16w16 v8, v9 (`kernels/gemm/intra_wave/a16w16/v8_sliceMN`, `v9_beyond_hotloop`) | LDS: four double-buffered half tiles; registers: four operands, four accumulators; copies in flight | `buffer_load_to_shared`, `commit_group`, `wait_group`, `smem.load`, `mfma`, `buffer_store` | copies and reads complete late; warps drift apart between barriers; a wait sees the own warp's copies only |
| v0 to v7, a8w8, a4w4 (`intra_wave`) | one to eight LDS allocations, operand and scale registers | the same, and `gl.load`/`smem.store` staging of scales | prefetch beyond K, unrolling by two, single-buffered scale memory |
| inter-wave kernels (`inter_wave`) | the same, in two wave groups | the same inside `warp_pipeline_stage` | two groups one stage apart share LDS and the one `s_barrier` |
| gfx942 ports (`gfx942`) | single-buffered LDS, staged registers | `buffer_load` to registers, `smem.store`, `smem.load` | data of two K-steps in registers, LDS overwritten every K-step, barriers put in by the compiler |
| attention (`attention/fmha_v3.py`, `fmha_v4.py`) | double-buffered K and V, P, row maximum and sum, accumulator | the same, softmax stages, Q load | softmax lags two tiles behind the copies; relaxed LDS reads; odd tail |
| `fmha_v4_map_elementwise.py` | as above | lazy rescale per wave | conditional on data |
| layouts of the GEMM kernels (`gl.DistributedLinearLayout`, `PaddedSharedLayout`, `SwizzledSharedLayout`, MFMA operand layouts) | where each element lies in registers and LDS | copy, read of a dot operand, store of C, lane by lane | bases written by hand that must agree across copy, LDS and operand; padding between what one instruction writes; one allocation for two slices |
| workgroup mapping (`gemm/utils/common.py`, `attention/common.py`) | none | `get_pids`, `remap_xcd` | remainders of tiles over XCDs and over row groups |
| amdgcnas (`plugins/amdgcnas`) | text of a kernel, def/use sets, liveness, free registers | LICM, save/restore removal, nop and wait rotation, MFMA windows | analyses that go stale while the text is rewritten; loop-carried values; later passes move waits, barriers and mfmas without looking at registers |
| LLIR scheduler (`plugins/llir_scheduler`) | LLVM blocks, a snapshot of the block, sync id, counts | per span: classify, declare a pipeline; per block: verify, roll back; at the end: delay memory stages | partial failure; a declaration that no schedule can fill is dropped silently |
| benchmark drivers, performance scripts, layout plots, LDS experiment | none that outlives a call | straight-line | not modelled, but for the layout arithmetic of the plots |

**Interactions.** The host computes the grid and launches workgroups; each maps
its program id to an output tile (`get_pids`), then runs a kernel body, which
talks to the other warps of its workgroup through LDS and `s_barrier` only.
The kernels never share memory across workgroups except for reading A, B, K, V.
The plugins stand between the compiler and the machine: what they return is the
program that the warps run.

**What makes each component correct.** For a pipeline: (1) nothing is written
into an LDS slot while anybody still has a read of it outstanding, and nothing
is read before every warp's part of it has landed; (2) each product multiplies
tiles of one K-step with the scales of that K-step, K-steps in order, each
once; (3) no fetch goes beyond K unless masked; (4) all warps take the same
number of barriers and finish with all of C stored. For the mapping: workgroups
and tiles correspond one to one. For a plugin: what it returns does what it was
given, and waits for what it uses. For layouts: every element is copied to where
it is read from, the operands of an mfma are of one k, and C is stored once. The
full list of hazards, each at its line, is in `PROJECT.json`.

## 2. Modules

| Module | Models | State and actions |
|---|---|---|
| `Gemm` | the promise of every GEMM kernel: each tile is the in-order sum over the K-steps, stored only when complete | `acc`, `out`; `Accumulate`, `Store` |
| `SlicedMN` | v8 and v9 as one parameterised program | one action per kind of call (`PrologueCopy`, `Mfma`, `WaitGroup`, `PassBarrier`, `LocalRead`, `RefillCopy`, `StoreC`) and per asynchronous completion (`Land`, `Deliver`) |
| `SlicedMNInv`, `SlicedMNProofs` | its inductive invariant, and the proofs | |
| `Instructions` | the calls of the kernels as instructions | operators that return instruction sequences |
| `Membar` | the barriers that the compiler adds (`Lowered`): in straight-line code, and in a loop by a fixpoint over its back edge | recursive operators on programs |
| `LdsMachine` | the machine: warps issue in order; a queue of vector-memory operations and a queue of LDS operations per warp complete in order | one action per instruction, `VmComplete`, `DsComplete` |
| `Discipline` | what can be read off the programs of a kernel without running them: the order that waits and barriers put on its instructions, the tile every instruction yields, `Disciplined` | operators on programs |
| `LdsMachineInv` | the invariants of the machine: `SyncInv` of every program, `FlowInv` and `RangeInv` of disciplined ones | |
| `LdsMachineProofs`, `DataflowProofs` | the proofs about the machine: order and races; data, types, the refinement, deadlock | |
| `IntraWave`, `SliceMNKernels`, `Gfx942`, `Attention` | the kernels as programs of that machine, one operator per kernel, named after it | |
| `Layouts` | linear, blocked, padded and swizzled layouts as bases over GF(2), and the operand layouts of the MFMA instructions | operators |
| `KernelLayouts` | for each of the 21 GEMM kernels its layouts, LDS allocations, block sizes and launch, one definition per kernel | constants |
| `TileData` | the data of one K-step: the copies to LDS, the reads of the operands, the store of C | `Copy` (an instruction of a warp), `Load` (a warp), `StoreC` (a warp) |
| `PidRemap` | `get_pids` and `remap_xcd`, workgroups dispatched one at a time | `Dispatch` |
| `PidRemapProofs` | the proofs that the mapping is one to one and gives every XCD a run of tiles | |
| `Assembly` | what amdgcnas thinks instructions define and use, liveness, def-use chains, and next to it what the instructions do | |
| `HotLoop` | the passes that rearrange the loop without looking at registers | operators from a loop to a loop |
| `Peephole` | `amdgcn_as`: `licm`, `eliminate_save_restore`, then the passes of `HotLoop` | `FindInvariants` (a round of the search), `Keep` and `Hoist` (a decision each), `Move`, `EliminateSaveRestore`, `OptimizeNops` (with `optimize_buffer_load_m0`), `Schedule` (step 8) |
| `CoExec` | how the LLIR scheduler sizes the pipeline of one span, with room and over capacity | operators |
| `LlirScheduler` | its pass over a function | `Declare` (a span), `Keep` and `RollBack` (the end of a block), `InsertNops` |
| `FoldFacts` | what the folds of the community modules keep | lemmas for any operation and invariant |
| `CoExecProofs` | what the pipelines of `CoExec` are made of | |
| `LlirSchedulerProofs`, `LlirHintsProofs` | theorems about the pass: its sync ids and counts; what it leaves as it was; what its pipelines hold | |
| `MC*` | instances for TLC | |

`SlicedMN` spells out one kernel in a form that can be proved about. The other
kernels differ in their programs, not in the machine, so they are written as
programs (`IntraWave!v5_Loop` reads like the loop of `v5_local_prefetch`) and
run by `LdsMachine`. `MCIntraWave` and `MCInterWave` compose the program
modules with the machine. `SlicedMN` and `LdsMachine` both implement `Gemm`
under the identity mapping of `acc` and `out`; the machine runs many kernels, so
there `Gemm` is instantiated for each configuration, `G(c)`.

`LdsMachine` knows nothing of how programs are made: they are the constant
`Code`, about which it assumes only that instructions are instructions
(`CodeAssumption`). That keeps the recursion of `Lowered` and of the unrolled
loops out of the modules that are proved about.

**Abstractions.** A tile is the *set of K-steps its data comes from*: a whole
tile of K-step k is `{k}`, a torn or stale one is any other set, memory never
written holds `NoData`. So values are left out but every mix-up shows. In these
modules a copy is done by all warps together, each its part, and a read takes
the parts of all; that the parts make up the tile and land where they are read
is what `TileData` checks, with an element known by its place `<<m, k>>` or
`<<n, k>>`. There the order of copies and warps is fixed: they write different
addresses (`WholeTileInLds` would miss one otherwise), and their timing is the
subject of the other modules. A product appends the pair of sets to the
accumulator. In `KernelLayouts` the two dimensions of B are exchanged, so that
k is the second of every operand.

In `Assembly` a register is one number, a value is a term over what the
registers held at kernel entry, and a slot of LDS is the value of m0 or of the
address register. `Run` executes a kernel with its loop taken a given number of
times and returns the memory accesses with their operands and whether every
instruction was `safe`: no register is touched that an LDS read has yet to fill,
no slot is read before its copy is complete in all warps, none is refilled while
a warp may still read it, and a copy does not directly follow the write of m0.
Completion counts as known where a wait says so, and for the other warps behind
the next barrier.

**External assumptions**, each marked `external` in `PROJECT.json`:

- `s_barrier` releases a warp when all have arrived; the vmcnt and lgkmcnt
  queues of a warp complete in order (`SlicedMN` weakens this to completion out
  of order within `Window` copies, so its result does not rest on it).
- The compiler puts a local barrier after `wait_group` outside warp-pipelined
  loops, and one before an LDS access that conflicts with an earlier one
  (membar), which does not see relaxed reads and cannot tell buffers of one
  allocation apart. A loop is analysed as the one body it is, until its back edge
  brings no pending access that was not there before: a barrier that any path
  into the body needs, the one from the prologue included, is then in every
  turn. What the loop leaves pending joins what comes before it, so the code
  behind has the barriers it needs after no turn as well. Only after that is the
  loop unrolled. That the passes work this way is what
  `gfx942/intra_wave/matmul_kernel.py:276-288` says of membar.
- `warp_pipeline_stage` becomes a barrier per stage, local after memory
  stages and plain after MFMA stages, and two conditional barriers that put the
  groups one stage apart and bring them together (`docs/warp_pipelining.md`).
- LLVM's IGroupLP fills the groups of one sync id in order, each with as many
  operations of its class as it says, and gives up otherwise (the comments at
  LlirSchedPlugin.cpp:950-962 and 1027-1036). `verifyFunction` is an input: the
  set of blocks it refuses.
- The layouts that Gluon and the compiler define: `BlockedLayout`, padded and
  swizzled shared layouts, the operand, scale and result layouts of the MFMA
  instructions, the width of an LDS access, and the LDS that a
  `convert_layout` of C passes through. `buffer_load_to_shared` writes the lanes
  of a wave next to each other, 4 or 16 bytes each.
- One warp stands for each wave group in the inter-wave runs; a tile and its
  scales that are copied in one commit group land together.

## 3. Runs

| Run | Question | Instance |
|---|---|---|
| `slicedmn` | is v8/v9 free of LDS races, do two copies ever overlap, is `IInv` invariant, does it implement `Gemm`, leave exactly two K-steps for the epilogue, and finish? | 2 warps, 6 K-steps, `Window` 2 |
| `intrawave_safety` | races, sums, bounds and the refinement of `Gemm` of the twelve single-stream kernels; are their programs disciplined? two barriers per K-step in the gfx942 port | 2 warps, the smallest K-step counts and the next ones |
| `interwave_safety` | the same for the nine warp-pipelined kernels; can the groups block each other? | two groups, 2 to 6 K-steps or key blocks |
| `kernels_live` | does one kernel of each way of waiting finish with C complete? | two warps or groups |
| `interwave_odd` | *violation*: inter-wave a16w16 with five K-steps | |
| `attention_short` | *violation*: `fmha_v4` with two key blocks | |
| `tiledata` | do copy, LDS and operand layouts of each kernel fit together, is every slice of C stored once, and does LDS suffice? | all 21 GEMM kernels at their real sizes, every slice |
| `pidremap` | is the mapping one to one, and are an XCD's workgroups consecutive tiles? | grids up to 7 x 5, 1, 3, 4 XCDs, groups of 1, 2, 4 |
| `peephole_safety` | do the passes of amdgcnas keep every memory access and every wait that is needed, and stop? | three families of loops of three to five instructions, and hot loops of two K-steps of nine or ten; loop taken 1 and 3 times |
| `peephole_carried` | *violation*: licm and a value carried around the back edge | loops of three instructions on one register: constants, arithmetic, stores |
| `llir_safety` | has every declared pipeline all operations of its span and can it be built, is the code otherwise as it was and does it use what it did, does a sync id name one span? | one stage of 3 or 4 vector operations and 3 or 4 mfmas; two blocks of five stages, any refused |
| `llir_anystage` | *violation*: pipelines of any stage of three operations | |

**Why these bounds.** Two warps suffice for a race or a torn tile: each
condition relates a copying warp to a reading one. The unrolled loops consume
two K-steps per turn and buffers alternate with period two, so zero, one and
two turns cover entering, repeating and leaving the loop; kernels that share a
program shape run with different counts. The mapping's branches depend on
remainders; the grids contain fewer tiles than XCDs, even and uneven shares,
full and partial groups. For the peephole, a value must cross the back edge to
go wrong; three turns show a first, a middle and a last iteration, and one turn
a loop whose back edge is never taken. The loops are over two registers (three
for copies), with one more that the epilogue may overwrite or that lives
through the loop, and one that is free. A hot loop has what the kernels' loops
have per K-step: a copy into the slot of its parity, a read of the other slot
for the next K-step, three mfmas, a wait with a barrier, and perhaps one wait
more, in every order; those that do not wait for what they use are left out.
Two K-steps bring both parities into one turn, and make windows of more than
five other instructions between mfmas, which is where the mfmas are spread.
`tiledata` has no bounds but one K-step: every kernel is taken at the block sizes
it is launched with. Three vector operations reach every path
of `CoExec` because the windows of a 16-cycle mfma hold two slots only: a
permlane alone overflows one. Five stages in two blocks let a rolled back block
follow and precede a kept one, and a memory stage reach into the next block; the
second block uses a value that a declaration in the first may split.
The stages of `llir_safety` have no transcendental behind an operation that
depends on another, at least as many mfmas as blocks of operations, and their
packed operations side by side; the kernels' stages are of that kind.

**Properties.** `NoDataRace` (no slot filled under an outstanding read),
`NoOverlappingCopies`, `SumsInOrder` (every accumulator a prefix of the full
sum, every store the full sum; in attention also under the maximum it was
computed for), `AfterLoop`, `ComputesGemm` (refinement: one product after the
other, nothing unfinished stored), `DisciplinedAtLaunch` (the hypothesis of the
theorems about the machine, evaluated for each kernel before its first
instruction), `NotStuck` (before the end some access is in flight or some warp is
not held up at a barrier), `TwoBarriersPerKStep`
(in front of its n-th K-step a warp of the gfx942 port has passed 2n barriers since
the prologue, as `gfx942/intra_wave/README.md:42` states; without the barrier that
closes the reads of the prologue there are three, which is what
`matmul_kernel.py:276-288` tells of and one of the mutants shows),
`OneWorkgroupPerTile`, `ConsecutiveOnXcd`, `AllTilesWritten`,
`KeepsMemoryAccesses` (what the peephole returns makes the same LDS and memory
accesses with the same operands), `StaysSynchronised` (it is still safe if it
was), `Termination`. `WholeTileInLds` (after the copies every element lies where
its shared layout has it), `OperandsMatch` (the lanes an mfma multiplies hold
the same k, of the rows and columns of the result, with their scales),
`SliceStored`, `FitsInLds`. `TypeOK` of
`LdsMachine` and of `SlicedMN` also says that no fetch goes beyond K; that of
`Peephole`, that no instruction but a wait or a barrier stands in two blocks. `Satisfiable` (the
operations of a declared span can be dealt out to its groups, in order, all of
them, after what they depend on) is checked by searching the ways to fill the
groups, not by repeating how they were computed; `OnlyHints` (every span
keeps its instructions and their order through splitting and rollback) and
`KeepsUses` (each uses the values it did, and none that is gone) compare the
function at any time with the one handed in. `SyncIdsIdentifySpans` holds while ids are taken
back with a block and handed out again, `CountsDeclaredSpans` compares the
pipelines in the final function with the count on which the pass reports a change,
and `PipelinesComplete` says that the groups of a pipeline add up, class by class, to the
vector operations the span issues when it has been split.

**Fairness.** `FairSpec` assumes that a resident warp which can issue does so
(`WarpStep`), and that copies and reads in flight complete (`Land`, `Deliver`,
`VmComplete`, `DsComplete`). All warps of a workgroup are resident at once, the
hardware's arbiters serve all of them, and the kernels have no spin loops, so
weak fairness of each is what the machine gives. Nothing is assumed of the
*order* in which warps run. The peephole is a sequential function: fairness of
its steps up to the last loop says that Python keeps running. Dispatch is fair as the hardware
starts every workgroup of a grid.

## 4. Findings

- `interwave_odd`. The unrolled loop of the inter-wave a16w16 kernel and its
  epilogue need an even number of K-steps. Its stated precondition is
  `iterMax > 3`, and only `v6_loop_unroll/README.md:101` says that iterMax is
  assumed to be even. With five K-steps the result is not the sum.
- `attention_short`. `fmha_v4` always fetches three key blocks and drains three;
  the host asserts only divisibility by 64. With two blocks, tiles from beyond
  the sequence enter the sums.
- `peephole_carried`. The README of amdgcnas says that three rules make LICM safe
  whatever registers the compiler assigned, the third that a value carried
  around the back edge to a use at the top of the loop is not hoisted. In
  `v0 = f(v0); store v0; v0 = c`, the only loop of the run that goes wrong, the
  reader at the top is also the first definition, and the test looks above that
  only: both computations leave the loop, and every iteration after the first
  stores the wrong value. A second case is outside this run's loops:
  `find_loop_invariants` passes over instructions that are not pure
  (amdgcnas_ext.py:1052), so a register can count as invariant although the loop
  also loads it, as in `v0 = c; v0 = load; v0 = f(v0)`.
  `peephole_safety` shows what is enough to exclude both:
  *(a)* no register of the loop receives both loaded and computed values,
  *(b)* a register that arithmetic reads around the back edge is loaded, or
  updated from itself, and for save/restore pairs *(c)* the saved register is
  written once in between and read there only behind a destination, and the
  copy is read nowhere else.
- `llir_anystage`. A comment in the LLIR scheduler says that its three blocks of
  operations are always in an order the dependencies allow. With
  `t = exp2(..); m = t * c; exp2(m)` both transcendentals are declared before
  the multiplication. Two further cases make the pass declare more mfmas than
  there are: all three blocks with two mfmas, and windows kept apart by uncovered
  packed operations.

`peephole_safety` keeps three more conditions, of the passes behind LICM. None is
stated in the repository as something a kernel must keep, but two are worth
knowing when one of its loops changes:

- *Waits are near.* `rotate_lgkmcnt` moves a wait with its barrier up to the wait
  for LDS before it. Its comment (amdgcnas_ext.py:1366) has mfmas in mind
  between the two; the code does not look. With an LDS read or a copy in
  between, the wait no longer covers it, and the kernel reads a register too
  early or refills a slot too early.
- *The first mfma is apart.* `optimize_buffer_load_m0` drops the nop between the
  write of m0 and a copy when it can put an mfma there. If that is the first mfma of
  the loop, `optimize_mfma_density` takes it to the top of its window, and the copy
  directly follows the write.
- *mfmas are apart.* `schedule_window` moves mfmas over other arithmetic of a
  window; only mfmas may compute what an mfma reads and read what it computes.

Splitting a packed operation erases it while the snapshot of its block still
points to it, so a rollback after that would use freed memory
(LlirSchedPlugin.cpp:641 and 233). In the model the block becomes `Corrupt`, and
`OnlyHints` and `KeepsUses` fail; `llir_safety` lets the verifier refuse only
blocks without packed operations (`RefusedUnpacked`). Nothing the pass inserts
makes a function invalid, so this needs another fault first; it is listed as a
hazard, and `HintsUnlessErased` proves that no other step can break the two.

A comment in `fmha_v4.py:561-567` attributes the tighter wait of the loop to a
compiler workaround. In the model the looser wait is wrong by itself: the other
wave group is a stage behind and has not waited for its part of the tile when
this group reads it (mutant `InLoop_WaitLoop`).

## 5. Proofs

### The sliced kernel (`SlicedMNProofs`)

For every set of warps (also infinite), every even `iterMax > 3` and every
`Window > 0`:

| Theorem | Statement |
|---|---|
| `Invariance` | `Spec => []IInv` |
| `TypeCorrect` | `Spec => []TypeOK` |
| `RaceFree` | `Spec => []NoDataRace` |
| `CopiesApart` | `Spec => []NoOverlappingCopies` |
| `LoopHandsOver` | `Spec => []AfterLoop`, the loop leaves exactly the last two K-steps |
| `Implements` | `Spec => ComputesGemm`, every behaviour is one of `Gemm` |

The safety properties are not inductive: that a slot is not refilled under a
reader follows from where all warps are, not from what LDS holds. The
invariant lines everything up in one sequence. Commit group n carries half tile
`n % 4` of K-step `n \div 4` into slot `n % 8`; LDS read m takes what group m
brought; region r issues read r + 2 and group r + 8. `IInv` says where each warp
is in that sequence (`ControlInv`, `CountInv`), that nobody passes a barrier
another has not arrived at (`BarrierInv`), that what is in flight is younger than
the last barrier (`FlyingInv`), which reads are outstanding (`PendingInv`), and
what LDS, registers and accumulators hold as a function of these positions
(`LdsInv`, `RegInv`, `AccInv`). Every question about a slot then is an
inequality between positions: `LandedBeforeRead` and `NotRefilledBeforeDelivery`
are the two lemmas that carry the argument, `SlotDistance` and `SlotPeriod` the
arithmetic under them. There is one lemma per action (`WaitGroupInv`,
`PassBarrierInv`, ..., `DeliverInv`), and `StepRefines` shows that a step maps to
`Accumulate`, `Store` or a stutter.

The proofs rest on `IterMaxAssumption` and `WindowAssumption`. The first is what
the kernel needs, not only what it states; see the finding above.

### All kernels on the machine (`LdsMachineProofs`, `DataflowProofs`)

For every set of warps, every program of the machine, and every number of
K-steps. The hypotheses on the left are conditions on programs, parts of
`Disciplined`; no behaviour has to be looked at to evaluate them.

| Theorem | Statement |
|---|---|
| `LdsMachineProofs!RaceFree` | `Spec /\ AccessesOrdered(code) => []NoDataRace` |
| `NeverStuck` | `Spec /\ BarriersPaired(code) => []NotStuck` |
| `FollowsDataflow` | `Spec /\ Disciplined => []FlowInv` |
| `AccumulatesInOrder` | `Spec /\ Disciplined => []SumsInOrder` |
| `TypeCorrect` | `Spec /\ Disciplined => []TypeOK`, no fetch beyond K included |
| `Implements` | `Spec /\ Disciplined => ComputesGemm` |

The argument has a dynamic half that holds of every program and a static half
that is about one. The dynamic half is `SyncInv`: counters of a warp are counts
of instructions before its program counter; each queue holds, in program order
and without gaps, what the warp started and no instruction since has waited for;
nobody is past a barrier that somebody has not arrived at. From it,
`PrecedesHolds`: if the static order says that instruction p of w is over before
q of v takes effect (`Precedes`: by their place in one queue, by a wait, or by a
wait and the barrier behind it), then in every behaviour p is complete when v
comes to q. With `AccessesOrdered`, every LDS read and every fill of its slots
are ordered, so two of them are never in flight together: `RaceFree`.

For the data, `TileOf` is the static dataflow: a read yields what the last fills
ordered before it put into its slots, an mfma takes what the last deliveries
before it left in its registers. `FlowInv` says that the run agrees with it: a
slot or register holds the tile of the *latest finished* instruction that fills
it, whichever others are still in flight. `Disciplined` makes the latest
finished one the one that the dataflow means (`ReadSees`, `RegHeld`), and says that the
tiles of the n-th mfma of an accumulator are those of K-step n. So each mfma step
is `Accumulate` and each store step is `Store` of `Gemm`. `NeverStuck` looks at
a warp that has arrived at the fewest barriers: with equal totals it is not the
one held up.

`TileOf` is a recursive function on the instructions of a kernel. The proofs
never unfold it: `TilesFlow` is its defining equation, one conjunct of
`Disciplined`, evaluated with the rest. Where an induction over a program
would be needed, a least position (`Least`) serves.

**How the two fit together.** The programs of the 21 kernels are built with
recursive operators, which the provers cannot take; what the theorems ask of
them is finite and static, and TLC evaluates it. `DisciplinedAtLaunch` is an
invariant of both safety runs, so each configuration in them satisfies the
hypothesis of every theorem above, and each theorem then speaks about that
configuration. TLC also checks `NoDataRace`, `SumsInOrder`, `TypeOK`,
`ComputesGemm` and (inter-wave) `NotStuck` directly on those configurations,
which guards against a wrong hypothesis in the same way as against a wrong
model. The theorems add the reason: for a further K-step count or a changed
kernel it is enough to evaluate `Disciplined`.

The proofs rest on `ConfigAssumption` (K-step counts are positive) and
`CodeAssumption` (programs consist of the machine's instructions).

### The mapping (`PidRemapProofs`)

For every grid, every number of XCDs and every group height, all positive
(`LaunchAssumption`):

| Theorem | Statement |
|---|---|
| `TilesAreShared` | `Spec => []OneWorkgroupPerTile` |
| `GridCoversC` | `Spec => [](pid = GRID_MN => written = Tiles)`, the safety half of `AllTilesWritten` |
| `XcdsGetRuns` | `Spec => []ConsecutiveOnXcd` |

The inductive invariant only says that `new` and `written` are the images of the
workgroups dispatched so far; the substance is in the arithmetic. `Shares`: the
tall XCDs with `pids_per_xcd` workgroups and the others with one less share the
grid exactly. `Ranges` and `RemapWithinXcd` give each XCD an interval of new
ids, `RemapPermutes` makes the remap a permutation of the grid, `SwizzlePermutes`
the same for the walk down the row groups, the last and lower group included.
`QuotientsOnXcd` then shows that the ids an XCD has been given at any time fill
an interval.

### The LLIR scheduler (`LlirSchedulerProofs`, `LlirHintsProofs`, `CoExecProofs`, `FoldFacts`)

For every set of functions, whichever blocks the verifier refuses:

| Theorem | Statement |
|---|---|
| `SyncIdsAreUnique` | `Spec => []SyncIdsIdentifySpans` |
| `CountIsExact` | `Spec => []CountsDeclaredSpans` |
| `HintsUnlessErased` | `Spec /\ []Restorable => [](OnlyHints /\ KeepsUses /\ PipelinesComplete)` |
| `PassOnlyAddsHints` | `Spec => []OnlyHints`, if `RefusedUnpacked` |
| `PassKeepsUses` | `Spec => []KeepsUses`, if `RefusedUnpacked` |
| `PipelinesAreComplete` | `Spec => []PipelinesComplete`, if `RefusedUnpacked` |
| `PassTypeCorrect` | `Spec => []TypeOK`, if `RefusedUnpacked` |

That ids are distinct in the end is not inductive, because a rollback makes ids
free again. `IdInv` therefore says which ids are where: those of the blocks before the current
one are at most `syncBefore`, those of its spans so far lie above that and are at
most `syncID`, spans to come have none, and neither has the snapshot; `ShapeInv`
that blocks and spans stay sequences, whatever splitting, pacing and restoring
make of them. `CountInv` is the same argument with numbers: `scheduled` counts
the declared spans of the blocks before, `blockScheduled` those of the current
block, and a rollback forgets both together. There is a lemma on the effect of
each kind of step (`DeclareEffect`, `RollBackEffect`, `EndEffect`,
`NopsEffect`), and from it one for the invariant and one for the counters.
`CountIsExact` also needs that no pipeline that is declared is empty, or its span
would be counted and carry no group: that is the lemma `PipelinesAreFilled`, by
way of `CoExecProofs`.

*What a pipeline holds.* `CoExecProofs` follows the vector operations of a class,
VALU or TRANS, through the functions of `CoExec`. A function that weighs the
elements of a sequence gives the sequence a total weight (`Weigh`), and how the
weights of sequences that are appended, put together or filtered relate is shown
once (`WeighAppend`, `WeighFlatten`, `FilteredWeigh`). A group weighs its size if
it is of the class, a bundle what its groups do, an operation what it will be
issued as. Then every step keeps the weight: the runs are a partition of the
operations by class (`RunsAre`, `ThreeParts`), the sizes of a run's groups add up
to its length, the last one included (`PackGroupsHolds`), an operation adds its
parts to one slot (`PutInSlotHolds`), two bundles that are joined hold what both
did (`JoinedHolds`), however often that is done (`MergeCheapestHolds`), and
what is emitted around the bundles are mfmas (`EmittedHolds`). `DecideHolds` puts
both paths together; the mfmas, of which joining may leave more than there are
groups to cover, are not in it, and whether the groups can be filled in their order is
`Satisfiable`'s question. A declared span issues an operation, so a pipeline
that holds it is not empty (`DeclaredFilled`). For `PipelinesComplete`, `NumberIs`
compares the weights with what splitting makes of the operations; it needs that
the ids a declaration splits are those of packed operations, hence `HintInv`
below.

The functions of `CoExec` are folds. That something kept at every element holds
at the end would be a theorem with operators for parameters, which cannot be cited here;
`FoldFacts` therefore declares the folded operation and the invariant as
constants, and each use is an instance with the operation and the invariant
meant (`CountedGroups == INSTANCE FoldFacts WITH Op <- PutNext, Inv <- CountedAt`).
Its lemmas also show that the recursive functions of the folds exist. All code
is put together with `FlattenSeq`, of which `FlattenLaid` says that the
result has the positions of all parts in their order.

*What the pass leaves as it was.* `OnlyHints` and `KeepsUses` are not inductive
either: a rollback looks for the instructions of the snapshot by their ids in the
block as it is now, and finds the right ones only if the block holds each just
once and they use what they did; and a declaration in one block renames operands
in all the others. `HintInv` says of every span, and of every span of the
snapshot, that it stems from its span of the source (`SpanFrom`): every
instruction is one of the source, or a piece of it, or inserted behind it, with
the operands that such a one has (`InstrFrom`); two of them stand in the order of
the source and, within one instruction, of its pieces (`Follows`); and of every
instruction there is the whole or there are all pieces. Until the nops come nothing
is inserted (`CleanBlock`), and every operand is there (`Closed`).

- `Declare`: `ScalarizedPieces` gives every position of the new code the
  instruction it comes from and the number of the piece, from which
  `ScalarizedFrom` concludes `SpanFrom`. It needs that a declaration splits packed
  operations only (`SplitPacked`, from what is bought in `CoExec`), and that they
  have not been split before, which follows from the ids. `DeclareClosed` shows
  that with the renaming in the whole function no use is left behind.
- `RollBack`, and the rollback of the nops: `RestoredFrom` shows that what is found
  by id is what the snapshot means, for ids are unique in a block
  (`UniqueInBlock`), and `SameIds` that no other block loses a value. This is
  where `Restorable` is needed: every id of the snapshot is still in the block.
- `InsertNops`: `PacedPieces` and `PacedFrom`, as for splitting.

`Restorable` is no invariant of every function (section 4, the split operation
that is erased). `HintsUnlessErased` has it as a hypothesis and none on the
functions; `Unpacked` derives it from `RefusedUnpacked`, that the blocks the
verifier refuses hold no packed operation, which gives the last four theorems.
`NumInv` adds the ranges of the counters for `PassTypeCorrect`: there is an id for
every span that is counted, also when the ids of a block are taken back.

The proofs rest on `SourcesAssumption`: a function is a sequence of blocks, of
which there is at least one, a block one of spans, a span one of instructions; no
two instructions have the same id, and each uses only what is there. The last two
are what SSA form and the verifier give the pass; `SyncIdsAreUnique`
and `CountIsExact` do not need them. TLC evaluates both this
assumption and `RefusedUnpacked` on the functions of `MCLlirScheduler`.

### Only model-checked

- Termination and `AllTilesWritten`: liveness under fairness is out of reach of
  the provers used.
- `Disciplined` of each kernel, and what the kernels' builders compute:
  `Lowered` and the loops are recursive operators. `TwoBarriersPerKStep` of the
  gfx942 port counts the barriers of such a program.
- `TileData`: the layouts are constants of 21 kernels and are checked in full.
- `Peephole`, `Assembly`, `HotLoop`: `Run` executes programs by recursion.
- `Satisfiable` of `LlirScheduler` does not hold of every function
  (`llir_anystage`). That the groups have the right sizes, the part of it that
  does, is `PipelinesComplete`.

## 6. Not modelled

Values (numerics of fp8 and MX formats, the lazy-rescale threshold), bank
conflicts, timing. The layouts of the attention kernels, most of which the
compiler derives. Benchmark drivers, performance scripts and plotting tools are
straight-line or pure input and output. The parser and printer of amdgcnas,
its register ranges and kinds, branches, and the scratch accesses that LICM
takes along. Of the LLIR scheduler, names and types of LLVM instructions beyond
the classes of its cost model. Each is listed in `PROJECT.json` with the reason.

## 7. Plan

The order followed so far was: the most intricate and fastest kernel first,
with its proof; then the machine and the other kernels from simple to
pipelined; the mapping; the first passes of amdgcnas; the LLIR scheduler; the
layouts of the GEMM kernels; the other passes of amdgcnas; the proofs about the
mapping, the machine and the LLIR scheduler. What is left, most important first:

1. **`LazySoftmax`**: the threshold of the lazy rescale over a small ordered set
   of scores, per row and per wave (`fmha_v4_map_elementwise`), as a refinement
   of the eager softmax.
2. **Proofs about `Peephole`**: the decisions of `licm` keep the set of
   instructions; free registers are free.
3. **More about `LlirScheduler`**: on which functions the order of the groups can
   always be followed, a condition that would make `Satisfiable` a theorem.
