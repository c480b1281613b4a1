# A TLA+ verification of SciCompute-Attention

SciCompute-Attention (`src/`) is a CUDA library that computes scaled dot-product attention for
inference: several interchangeable kernels behind a dispatcher, and a paged KV cache. This directory
models its control: what state each part keeps, in which order it changes, and what can go wrong
between two steps. TLC checks the models on small instances; for the parts marked below TLAPS proves
the same properties for every value of the constants.

## 1. The system

| Component | State | Operations | Interacts with |
|---|---|---|---|
| Block manager (`kv_cache/block_manager.cpp`) | free list, in-use flags, block table per sequence, device copy of the table, two revision numbers | Allocate, Free, AppendToTable, ResetSeq, SyncTableToDevice | owned by the paged cache |
| KV storage (`kv_cache/kv_cache.cpp`, `kv_cache_kernels.cu`) | K and V per layer, as blocks of token slots | Append, Reset, Gather, ComputeSlotMapping | kernels through the launcher |
| Paged cache (`kv_cache/paged_kv_cache.cpp`) | lengths, blocks and page-table row per sequence, device page table, slot buffer | AppendTokens, ResetSeq, SyncPageTable, ForceSyncPageTable | block manager, KV storage, paged attention |
| Launcher (`runtime/launcher.cu`) | the CUDA runtime's last error | LaunchRaw, EnsureSmemLimit | every kernel launch |
| Dispatcher (`runtime/dispatcher.cpp`, `dispatch_table.inc`) | none; reads the cached capability | InferShape, Select, Explain, Forward | validation, all backends |
| Validation and API (`api/`) | none | Validate, attention, decode, paged | dispatcher |
| Device capability (`runtime/capability.cpp`) | cache of probe results | ForDevice, Refresh, SmemLimitPerBlock | dispatcher, backends |
| Naive, tiled, flash backends (`backends/`) | none on the host | Supports, Forward, ForwardVarlen (flash only) | scratch pool (naive), launcher |
| Naive kernels (`backends/naive/attention_naive.cu`, `cuda_common/numerics.cuh`) | score buffer shared by three kernels; reduction scratch per block | scores, row softmax, P V | - |
| Tiled kernel (`backends/tiled/attention_tiled.cu`) | Q, K, V and score tiles, row statistics in shared memory | one loop over K/V tiles per thread block | - |
| Flash kernel (`backends/flash/flash_fwd_impl.cuh`) | tile buffers filled by `cp.async`, accumulators | one loop over K/V tiles per thread block | - |
| Decode and paged attention (`backends/decode`, `backends/paged`) | FP32 partials in pooled scratch | Forward / RunPaged, partial kernel, reduce kernel | scratch pool, page table |
| Scratch pool (`runtime/scratch_pool.cpp`) | one growing device buffer per kind | AcquireScratchFp32, ReleaseScratch | naive, decode, paged |
| Workspace (`runtime/workspace.cpp`) | a buffer, its slices, a high-water mark | Create, Slice, Reset | callers |
| Rollout engine (`examples/rollout_engine_stub.cpp`) | its own copy of the lengths, on host and device | plan, prefill, append, sync, decode | flash backend, paged cache, paged attention |

What is hard here: device work is asynchronous, so host state and device state (page table, slot
buffer, scratch buffer) drift apart between calls; a call that fails half-way leaves both behind; CUDA
reports errors late, sometimes at an unrelated call; the threads of a kernel meet at barriers and share
buffers that are refilled while they compute; and the dispatcher answers the same question in up to
five places. `PROJECT.json` lists these hazards at their lines.

What makes each part correct: the free list is exactly the complement of the blocks in use; a sequence
reads back what was appended to it and, behind it, nothing of any other; a device table that is believed current is
current; a kernel computes only on complete tiles, over exactly the visible keys, and ends; a scratch
buffer outlives the kernels that use it; a launch fits the device and the kernel it goes to; nobody is served by
another backend than he asked for without having agreed; a packed token attends to its own sequence only;
a pool planned before the start lasts to the last decode step.

## 2. Modules

| Module | Models | Composes |
|---|---|---|
| `BlockManager` | block manager | |
| `PagedKVCache` | paged cache, KV storage and kernels, launcher errors | instantiates `BlockManager`; implements `LogicalCache` |
| `LogicalCache` | what the paged cache promises: a list of tokens per layer and sequence, and block accounting | |
| `PagedReads` | the readers of the paged cache: `paged_attention`, `GatherK`, `GatherV` | extends `PagedKVCache`, instantiates `SplitK` |
| `Rollout` | the rollout engine example | extends `PagedReads` |
| `FlashPipeline` | one thread block of the flash kernel | |
| `TiledKernel` | one thread block of the tiled kernel | |
| `NaiveKernels` | the three kernels of one naive call, and the block-wide reductions | |
| `Dispatcher` | `attention()` from shape inference to the launch, all backends' host code | |
| `Varlen` | `flash_attention_varlen`, `ValidateVarlenHost`, the other backends' refusals | extends `Dispatcher` |
| `SplitK` | split arithmetic and page-table lookup (operators only) | |
| `SplitKDecode` | decode and paged calls, scratch pool, both kernels, one stream | extends `SplitK` |
| `Workspace` | workspace slices in `size_t` arithmetic | |
| `ProofLemmas` | facts about numbers and sequences that the proofs share | |
| `BlockManagerProofs`, `FlashPipelineProofs`, `TiledKernelProofs`, `NaiveKernelsProofs`, `SplitKDecodeProofs` | theorems about the module each is named after | each extends that module and `ProofLemmas` |
| `PagedCacheProofs` | theorems about `PagedKVCache`, `PagedReads` and `Rollout`, and the refinement of `LogicalCache` | extends `Rollout` and `ProofLemmas`, instantiates `BlockManagerProofs` |
| `RuntimeProofs` | theorems about `Dispatcher`, `Varlen` and `Workspace` | extends `Varlen`, `Workspace` and `ProofLemmas` |

Each `MC*.tla` gives a module small constants, each `.cfg` is one run. Definitions under a comment
"Mutation of X" are deliberately wrong variants of X; they take no part in any
specification and document which bug each property would catch.

**BlockManager.** The variables are the members of the class with the same names; `Allocate`, `Free`,
`AppendToTable`, `ResetSeq`, `SyncTableToDevice` are its methods. Ids passed by callers range over
all ids including foreign, repeated and out-of-range ones. The loops of `Allocate` and `Free` are
written as one function over the list of ids, which makes them provable.

**PagedKVCache.** One action per outcome of a call: `AppendTokens` (success), `...Refused` (pool or row
exhausted), `...NoBuffer` (slot buffer not allocated), `...Rejected` (arguments), `...LaunchFails` (the
launcher reports an error, with or without the kernel running). K and V of a token are one value
tagged with its sequence. `cuda_error` is the runtime's sticky error: `stale` is left behind by an
unrelated call and reported once, `lost` is a context after a fault. `ResetSeq` hands its kernels
`owned.data()`, the address of a host vector, and goes on to clear it; the next append refills it. A reset
therefore has three outcomes: the kernels read the ids in time (`KvResetBlock`), some layer's kernel reads
them too late and clears other slots, any of `LateClears` (`KvResetLate`), or the device cannot read host
memory and the kernel faults. What a late kernel clears is chosen at the call, because every launch behind
it in the stream sees the result; the history variable `late` records the resets this happened to.
`LateClears = {}` stands for a caller who waits for the stream before he appends again.

**LogicalCache.** Its flag `clean` says that no reset has been overtaken. While it holds, a layer that was not
appended to shows nothing or leftovers of the same sequence; afterwards anybody's. An overtaken reset may
also wipe tokens of other sequences.

**PagedReads.** What a read returns is an operator of the cache's state: `TermsRead` follows the device
page table through the split ranges of the decode kernel and gives a term [split, token, slot read] for every
token it folds in, `Gathered` copies blocks by id. `OwnGeometry` says that a request names the cache's own block size
and row width, which `RunPaged` does not compare. The actions
`RunPaged` and `Gather` stand for what a read does change, the runtime's error state, so a read can
swallow an error that an append would have reported. The properties ask of every reachable cache,
after any sequence of failed and repeated appends, resets and syncs, what a read made now would see.

**Rollout.** The statements of `main()` from the memory plan to the last decode step, one action each,
on top of `PagedReads`; `num_blocks` is the value the program computes. A token is its request and
position. The tensors `main()` never checks may be missing: without the one of the lengths (`AllocateLens`) the
upload goes nowhere and `paged_attention` gets a null pointer, so it runs over all mapped positions; a missing
`k_step` is rejected by the append, a missing prompt tensor or `q_step` makes a kernel fault. The check for a CUDA device, timing, percentiles and the report are left out.

**FlashPipeline.** Threads advance label by label through the loop of `flash_fwd_kernel`; copies land
in any order; `__syncthreads` is an action of all threads. A row's accumulator is the set of key
columns folded into it.

**TiledKernel.** Threads advance between barriers; the softmax phase, whose shuffles keep a warp together, is
a step of a warp. The thread that writes a cell of the score tile, the warp that turns it into a probability
and the threads that read it are computed from the three index formulas of the kernel. A cell records the tile
it belongs to; a sum counts how often each key went into it (a rescaling by zero empties it), and reading
anything that is not there yet counts as garbage.

**NaiveKernels.** The host queues three kernels on a stream and may be told that a launch failed with
or without the kernel queued. Blocks of a kernel touch disjoint cells and run in any order, one at a
time; the warps of a row-softmax block are interleaved statement by statement through `BlockReduceMax`
and `BlockReduceSum`. A number is its class (finite, infinite, NaN) and the columns that went into it;
a dot product may overflow to either side, a NaN dot product is left out. `ProblemType` is what `Validate` lets
through, with any number of rows: `Covered` are those the capped softmax grid reaches. The rows behind them keep
their raw scores, the call returns Ok all the same, and `OutputExact` does not speak of them.

**Dispatcher.** The steps of one call (`Infer`, `Choose`, `Recheck`, `Forward*`, `Launch`, `Finish`) are
separate because each reads the capability again and `Refresh` may come in between. The device may stop
answering probes at any time (`DeviceChanges`); `Refresh` then stores the zeros of the failed probe (`Probed`) and
returns Ok, and the checks that follow see no shared memory. `sliding_window` is signed and refused only when it
is positive. A status is its `AttnStatusCode`. Each backend has its `...Supports` and `...Checks` operators.

**Varlen.** One action per iteration of the loop over packed sequences, after the checks and the output
allocation; a launch is recorded with the pointers, lengths and diagonal it was given. The caller runs
`attention()` and varlen calls in turn.

**SplitKDecode.** The host issues calls to one stream without waiting; warps of the kernel at the head of the
stream run in any order. A partial sum is the set of terms [split, token, row read] that went into it, tagged
with call, array and column, so data of another call is recognised. `RequestType` and `DecodeAssumption` are
what the argument checks of the two adapters leave (`Begin`): a row of `seq_lens` and `page_table` per
sequence or none; the entries of the page table are arbitrary, and so are the two head counts, which `RunPaged`
compares nowhere. The kernel divides by the group size: with fewer query heads than K/V heads the quotient is
undefined (`KvHeads`: any head, or one there is not), and counts that do not divide evenly reach past the last
head. `wild` records that a kernel has read there; `OutputExact` speaks of calls with `WholeGroups`, and of
executions in which no other call has read past its K and V.
`FreeDone` and `Drained` are external: `cudaFree` returns only after queued work is done, which is what the
pool relies on.

**Workspace.** Sums and differences are taken modulo the number of values of `size_t`.

## 3. Runs

Passing runs:

| Run | States | What it shows |
|---|---|---|
| `block_manager` | 332 k | `PoolIntegrity`, `MirrorFresh`, `ResetReturnsRow` for every order of calls on 2 blocks, 2 sequences, lists of up to 2 ids |
| `paged_cache` | 441 k | two sequences, two blocks of two tokens: block ownership, lengths covered by blocks, no cross-talk until a reset is overtaken, and refinement of `LogicalCache`; host metadata stays consistent when the device is lost; `AttendsOwnTokens`, `NeverAttendsForeign` and `GatherReturnsView` for paged attention with and without lengths, several split counts, and Gather |
| `flash_pipeline` | 132 k | four threads in four warps, up to 5 queries and 6 keys, tiles of 2: `TileReady`, `BarriersUniform`, `OutputExact`, and termination |
| `rollout` | 5 k | three requests with prompts on both sides of `max_kv_len`, three decode steps, lengths allocated or not: `PlanSuffices`, `StepAttendsHistory`, and the program ends |
| `tiled_kernel` | 55 k | six threads in three warps, four rows and three columns per tile, up to 6 queries and 8 keys: `ReadsCurrent`, `BarriersUniform`, `OutputExact`, and termination |
| `naive_kernels` | 163 k | two warps of two lanes, batches, grouped heads, causal masks and a row behind the cap of the grid: `ReductionsComplete`, `OutputExact`, and every call completes |
| `dispatcher` | 392 k | `LaunchesFit`, `NoSilentDegradation`, `AutoServes` over about 5000 requests, on both sides of every threshold and with windows below, at and above zero, while probes fail and the capability is refreshed; `VarlenExact` and `ValidatedServed` over packed calls with good, empty, shifted and backward offsets |
| `splitk_decode` | 74 k | `NoFault` and `OutputExact` for two calls in sequence out of five kinds, one of them with fewer query heads than K/V heads |
| `workspace` | 38 k | `SlicesDisjoint` and `PeakCovers` for all values of a 3-bit `size_t` |

Runs that find a disagreement between the code and what the repository says of it:

| Run | Property | In short |
|---|---|---|
| `reset_recovers` | `ResetRecovers` | a failed growth of the slot buffer is not cured by `ResetSeq` |
| `late_reset` | `ResetThenAppendIsolated` | a reset kernel that runs after the next append clears the refilled block instead of the released one, whose tokens then show up in another sequence |
| `masked_rows` | `MaskedRowsZero` | the naive softmax turns a row without a finite score into NaN, not zeros |

`PROJECT.json`, "findings", quotes the sentence each of them contradicts.

Further disagreements met while modelling, visible in the models but without a run of their own:

- After `ResetSeq` the device page table names the released blocks until the next sync
  (`paged_kv_cache.cpp:152`: "so no dangling reference can be observed").
- Each layer's `AppendTokens` advances the one length of the sequence, so a token appended to L layers
  takes L positions; `docs/model_integration.md:40` budgets one position per token for all layers.
- `cp_async.cuh:4` names the wait count `stages - 1`, which would let a thread pass before its share of
  the tile has landed; the kernel waits with `kStages - 2` (`TileWaitOneMore` is that comment's variant).
- The decode backend ignores `return_lse` and reports success (`docs/attention_math.md:45`).
- `Supports` accepts calls that the same backend's `Forward` refuses, for example FP32 on flash
  (`dispatcher.hpp:24`: Explain and execution "can never drift apart").
- A sliding window is answered with `kShapeMismatch` (`attention_config.hpp:25` says
  `kUnsupportedFeature`), because `Forward` maps every failure of `Validate` to that code.
- For `seq_kv <= 128` `Select` prefers tiled whatever the `head_dim` (`dispatcher.cpp:144`), and the
  fallback chain of tiled holds only naive; `tiled_backend.cpp:106` says a large `head_dim` "is served by
  the flash backend".
- `Validate` refuses softcap only for a named reference backend (`api_validate.cpp:108`), so with
  automatic selection it is dropped silently; line 111 says softcap "is implemented in the flash backend
  only".
- `InferShape` never looks at `k.dim(3)` (`dispatcher.cpp:81`), nor does anything behind it, so a K whose head_dim
  differs from Q's is launched; `docs/architecture.md:26` says it checks dimensions. `LaunchesFit` promises nothing
  about that dimension.
- A negative `sliding_window` passes every check (`api_validate.cpp:97` and the backends compare with `> 0`) and is
  ignored like 0; the comment at `attention_config.hpp:25` speaks of 0 and of values above 0 only.
- `Refresh` returns Ok after a failed probe and leaves a capability of zeros in the cache (`capability.cpp:26-28`,
  `66-71`): calls that were served before are refused from then on.
- The rollout engine uploads lengths that leave out the token it has just appended
  (`rollout_engine_stub.cpp:253`); `paged_attention.hpp:14` says the length includes it, and
  `docs/attention_math.md:29-30` lets a decode step see every cached token. Each step of the engine attends one
  token too few. `StepAttendsHistory` asks for the tokens before it and leaves the newest one open, so it holds for
  the program as it is and would hold for a corrected one.
- `ForwardVarlen` neither calls `ValidateVarlenHost` nor compares the last offset with the token counts,
  checks the causal condition on the maxima only, and divides by `k.dim(1)` unchecked. The
  properties about varlen calls therefore assume validated offsets.
- `PagedAttentionParams::block_size` defaults to 16 and is taken before the cache's own, and `RunPaged`
  does not compare q's heads, `head_dim` or dtype with the cache (`paged_backend.cpp:50`, `102-103`); uneven heads
  are modelled (`KvHeads`), a `head_dim` or dtype other than the cache's is not. The overload without parameters runs over
  mapped but unwritten slots, whose zero keys take weight.
- `naive_row_softmax_kernel` has one block per row and no loop, while the grid is capped at 2^24 rows
  (`attention_naive.cu:146`, `77-78`). Nothing refuses more rows; those behind the cap come out as sums over raw
  scores and the call returns Ok.
- The block count that `KVCache::Create` suggests divides by the layers twice (`kv_cache.cpp:145`), and
  the overflow test of `KvCacheBytes` sees only products that wrap to a non-positive value
  (`kv_cache.cpp:84`).

**Bounds.** Two blocks for two sequences are enough for one to starve the other, to reuse the other's blocks and
to hold a partly filled block; two tokens per block give both a boundary inside a call and between calls. The runs
of the cache have one layer; the theorems cover every number of layers. One reset is overtaken at most
(`MaxLate`), and its kernel then clears nothing or everything; in `late_reset` it clears any set of blocks. `MaxRevision` bounds how often a table changes in one
behaviour (4 allows allocate, release, reallocate, release with syncs in between). `MaxEvents` only bounds
counters. Five queries and six keys give full, partial and hidden tiles, two row blocks and a diagonal in
every position relative to a tile; two buffers are what every entry of the tile table uses. Two decode calls
suffice for every hazard of the pool, which involves a call and its predecessor (three were explored once: 1.4
million states, no violation). The tiled instance has more rows than warps, a number of threads that divides
neither rows, cells nor slots, and a key count with a partial last tile, so that the thread that writes a cell
is not the one that reads it. Three rollout requests with prompts of 1, 2 and 5 tokens and blocks of two make
per-request rounding exceed the sum (without the spare blocks the run fails) and, with 5 > `max_kv_len`, let
the pool run out. Two changes of the device or the capability (`MaxRefresh`) are enough for a probe that fails and
the refresh that stores it between two steps of a call. Two warps are what a reduction needs to go wrong; two to four rows cover batch and grouped
heads. Packed calls have two or three sequences of unequal lengths. `SmemLimits` are the default and the
opt-in limit of the target device.

**Symmetry** is used where sequences and payloads are interchangeable (paged cache); no liveness
property is checked under it.

**Fairness.** `flash_pipeline`, `tiled_kernel` and `naive_kernels` assume weak fairness of each thread or warp, of
each pending copy, of each barrier and, for the naive call, of the host's next launch and of the kernel at the
head of the stream. Threads of a resident block are scheduled until they exit, asynchronous copies
complete, a barrier all threads have reached opens, and queued kernels run: the hardware and the stream guarantee
all of it. `rollout` assumes weak fairness of `main()`: one thread runs it and each call it makes returns. No
fairness is assumed of failures. Deadlock checking is off where a component may rest: the bounded
host models, a kernel after its last instruction, a call or program that has returned.

## 4. Proofs

Each theorem states a property that a run checks, or the refinement of `LogicalCache`, for every value of the
constants. Bounds such as `MaxRevision`, `MaxCalls` or `MaxSeqKv` are constants too, so a theorem covers every bound.

| Theorems | For every |
|---|---|
| `BlockManagerProofs`: `TypeCorrect`, `PoolIntegrityHolds`, `MirrorFreshHolds`, `ResetReturnsRowHolds` | pool size, number and width of rows, list of ids |
| `PagedCacheProofs`: `StepAttendsHistoryHolds`, `PlanSufficesHolds`, `CacheInvariantsInRollout` | number of requests, prompt lengths, block size, number of decode steps, memory budget, CUDA errors left behind, lengths allocated or not |
| `RuntimeProofs`: `LaunchesFitHolds`, `NoSilentDegradationHolds`, `AutoServesHolds` | request, device, sequence of failing probes and refreshes between the steps of a call |
| `RuntimeProofs`: `VarlenExactHolds`, `ValidatedServedHolds` | number of sequences, offset arrays, packed tensors |
| `RuntimeProofs`: `SlicesDisjointHolds`, `PeakCoversHolds` | width of `size_t`, offset, size, alignment |
| `PagedCacheProofs`: `TypeCorrect`, `OwnershipHolds`, `LengthCoveredHolds`, `TableHasRoomHolds`, `DevicePageTableFreshHolds`, `NoCrossTalkHolds` | pool, block size, set of sequences, number of layers, append length, outcome of late resets (`LateClears`) |
| `PagedCacheProofs`: `CacheInvariantsWithReaders`, `CacheImplementsLogicalCache`, `AttendsOwnTokensHolds`, `NeverAttendsForeignHolds`, `GatherReturnsViewHolds` | the same, with reads in between, every number of splits and multiprocessors |
| `FlashPipelineProofs`: `TypeCorrect`, `TileReadyHolds`, `BarriersUniformHolds`, `OutputExactHolds` | number of warps and lanes, tile size, `kStages >= 2`, pair of lengths, causal or not |
| `TiledKernelProofs`: `ReadsCurrentHolds`, `BarriersUniformHolds`, `OutputExactHolds` | number of warps and lanes, tile and output size, pair of lengths, causal or not |
| `NaiveKernelsProofs`: `ReductionsCompleteHolds`, `OutputExactHolds` | number of warps and lanes, shape, cap on the grids |
| `SplitKDecodeProofs`: `NoFaultHolds`, `OutputExactHolds` | sequence of calls and releases, shape, number of splits, page table |

*Block manager.* The invariant is `TypeOK /\ PoolIntegrity /\ SyncBehind /\ MirrorFresh`. `PoolIntegrity`
is not inductive alone: that `Free` pushes a block once rests on the flag it clears while it walks the
list (`ReleaseStep`), and `Allocate` on the distinctness of the popped suffix (`TakeStep`). `SyncBehind`
(the synced revision never exceeds the table's) makes a bump of the revision show that the mirror is
stale. `ResetReturnsRow` is an action property: `ResetSeq` counts the mapped columns and frees that many from the
front, which is the whole row exactly when the row has no holes (`NoHolesMapped`). The only assumptions are that the
sizes are positive numbers.

*Workspace.* The invariant is `TypeOK /\ SlicesDisjoint /\ PeakCovers`. The lemma `FitsNoWrap` shows
that the range check excludes wrap-around; every other step is interval arithmetic.

*Paged cache.* The invariant joins `TypeOK`, `Ownership`, `LengthCovered`, `SyncBehind`, `DevicePageTableFresh` and
`NoCrossTalk`. None of the middle ones stands alone: a slot is computed from a block the sequence owns only because the
length is covered by its blocks, and a write to it leaves other sequences alone only because blocks are exclusive. A
late reset changes nothing but slots and `late`; once it has happened `NoCrossTalk`, and what the readers' theorems say of
slots behind the length, promise nothing, while the rest of the invariant stands. What
the allocator does in a call is taken from the block manager's theorems, instantiated with the cache's pool.
`DevicePageTableFresh` needs `SyncBehind`, because failed appends change the host rows without a new revision.
`TableHasRoom` follows by counting: owned and free blocks together are distinct blocks of the pool, so they are at
most `num_blocks`, the width of a row.

*Refinement.* `CacheImplementsLogicalCache` maps the state to the list of tokens each layer and sequence reads back,
the length and the number of blocks. `InitRefines` maps the initial states; each action of the cache, and each read, is
shown to be the step of `LogicalCache` that its caller is promised or a stutter. With several layers the positions an
append leaves unwritten in the other layers are read from slots that only resets have cleared: that they hold leftovers of
the same sequence is `NoCrossTalk`, and is claimed while `clean` only. An overtaken reset is the step `ResetOvertaken`. That an append extends exactly one list
is where `Ownership` and `LengthCovered` are used once more. The abstract specification has no fairness, so
nothing but steps is to be shown.

*Reads.* The splits of a call partition the positions (`SplitsPartition`), each position is read through a page
table that equals the host's, and the slot it leads to belongs to the sequence (`ReadsOwnBlocks`). That no foreign token
lies behind the length is then `NoCrossTalk`.

*Flash kernel.* The invariant says that all threads are between the same two barriers in the same iteration
(`PhaseInv`), which groups of copies a thread has committed and which have landed (`CopyInv`), that the window of tiles
from the current to the last committed one is in its buffers (`BufferInv`), and what the rows have folded in (`AccInv`).
`TileReady` alone is not inductive: it says nothing of the tiles further down the pipeline. `Init` carries the
assumption `j_tiles >= kStages - 1`: the prologue commits no group for a tile that does not exist, and then the wait
count would be wrong. It holds for every launch, since every entry of the tile table has `kStages = 2`.

*Tiled kernel.* The invariant has one phase per stretch between two of the five barriers, each saying which shares of Q,
K, V, scores, probabilities and row statistics are there (`Phase`); all threads have the same loop counter, and the
sums count each key of the finished tiles once.

*Naive kernels.* `QkInv`, `SoftmaxInv` and `PvInv` say what the blocks already run have left in the scores buffer and in
the output; `StreamInv` that the kernels follow each other in the stream and only the first has begun. `BlockInv` has
eight phases for the resident softmax block. The reason why `scratch[]` may be reused without a further barrier is in
`Exponentials`: the maximum has been read by all warps before any of them stores a partial sum. That the branch of rows
without a finite maximum is taken by all warps or by none (it skips three barriers) is in `GotMax`: all warps hold the
same class. The arithmetic needed is that columns belong to exactly one warp (`WarpsPartition`) and every element to a
block of its grid (`BlockOfElement`). Assumed of a call: what `Validate` checks. The invariants say nothing of rows behind the
cap on the softmax grid, which no block ever normalises.

*Split-K calls.* The invariant follows a call from the host to its last warp. `PoolInv` and `HostInv` say that the
buffer a call has been given lives and is large enough until its kernels are through; `StreamInv` that the two kernels
of a call are neighbours in the stream, so no other call writes to the shared buffer between them; `PartialsInv` that
the reduce kernel finds the partials of its own call; `OutputInv` that finished outputs stay. What the two say of the
contents is claimed of calls with `WholeGroups`, whose group is not empty (`WholeGroup`), so that the K/V head is the one
quotient; where the kernels read and write in the scratch buffer does not depend on the heads. `OutputExact` alone is far
from inductive: a buffer replaced or shared too early shows only when the reduce kernel reads it.

*Dispatcher.* A chain of early returns is a list of conditions with codes; `FirstErrorMeans` turns it into a
conjunction once, and the lemmas named `...Means` say what the success of each check list of the code gives. `CallInv`
then records what has been passed at which step: from `Choose` on, the chosen backend is the preferred one or stands
in its fallback chain and the caller agreed (`NamedOrDegraded`), and an automatic half-precision call has its first
choice (`AutoHalf`). The capability is read again at every step, so nothing about `free_mem` may be carried from one
step to the next, and of the cached limit only that it is the device's or 0 (`DeviceInv`); `CallFrame` shows that what
the invariant does carry depends on the request and the device only. What `LaunchesFit` asks of a launch is established
by the last checks before it, in the adapter itself, where a limit of 0 refuses whatever needs shared memory.
`AutoServes` holds because each region of the threshold table lies within what its backend's `Supports`
accepts, for every shape; its side conditions (half precision, `head_dim` up to 128, the shared memory the tiles were
sized for, a device that answered every probe since the call began) are those under which the code promises it. Assumed (`DispatcherAssumption`): requests are well-typed, with
four dimensions to read, one of the six backend kinds and natural sizes.

*Varlen calls.* `VarlenInv` says that the launches so far are, in order, those of the first sequences, with parameters
that depend on the call alone (`ParamsOf`), and that an Ok is returned only after the last one. That two launches
write disjoint rows follows from offsets that never decrease. Assumed (`VarlenAssumption`): an offset array that is
not null has the `num_seqs + 1` entries its pointer promises (`attention_config.hpp:29`).

*Rollout engine.* `RolloutInv` adds to the cache's invariant where the program is: `EngineInStep` gives the length of
each sequence from the program counter (the requests before `r` are one append ahead), `PositionsHeld` that the token
at position p of a request is the one the program appended p-th, `NothingBehind` that no other slot was ever written,
and `NoSpareBlocks` that a sequence never holds more blocks than its tokens need. `StepAttendsHistory` then follows from
the reads' lemmas, at a length one smaller than the cache's own, or, without lengths, over all mapped positions, of
which those behind the tokens are blank by `NothingBehind`. `PlanSuffices` is a counting argument (`PoolInCells`): an append that the allocator refuses finds
fewer free blocks than its request lacks. Counting these as the request's next ones, every block of the pool is the
i-th block of some request with i at most the number C of blocks a request needs at its longest, and one of these
cells, the C-th of that request, stays unused; so the pool would be smaller than requests times C, but it was planned
at least that large (`PlanCoversCells`). Assumed: `PlanAssumption`, that the pool has the size the program computes;
`PromptAssumption`, that the model's set of values and its bound on a batch are large enough for the prompts;
`RolloutAssumption`, that there is at least one request, numbered from 0, which `BlockManager::Create` enforces
(`block_manager.cpp:13`).

Only model-checked: termination of the flash and tiled kernels, completion of the naive call and the end of the rollout
program. They are liveness under weak fairness, which the prover cannot express (it has no rules for `ENABLED`). Every
invariant of the passing runs, the action property `ResetReturnsRow` and the refinement of `LogicalCache` are theorems.
The three properties that a run shows violated are no theorems, of course.

**How the proofs are checked.** `tlapm` proves every leaf with Z3, Zenon or LS4. One axiom of its SMT
translation (version 1.4.5) is too strong: it gives every function, sequence or not, the domain `1 .. Len(f)`, so an
obligation that mentions both `Len` or `Seq` and a function with 0 in its domain has contradictory hypotheses. All modules
have therefore also been proved with that axiom weakened to the true direction (a function whose domain is `1 .. n` has
length `n`); no leaf depends on the false one.

## 5. What is not modelled, and what is left

Not modelled:

- floating-point arithmetic, conversions and the MMA/ldmatrix wrappers: no state and no control; accuracy belongs to
  the numeric tests;
- message texts, statistics, `Explain`'s wording, the rollout engine's report;
- the probe of the device (`device_probe.cu`), which is an input of the models, and `tools/arch_probe`, a stand-alone
  program that prints measurements;
- the build without CUDA (every entry returns an error) and the stand-alone core headers under `stub/`, which are
  value types and wrappers of CUDA calls;
- benchmarks, the other examples, tests and scripts;
- calls from several threads or on several streams at once, which the convention in `docs/architecture.md`, section 5,
  excludes. Two hazards in `PROJECT.json` (the slot buffer and the scratch pool under two streams) name what
  would break without the convention.

What is left:

1. Liveness stays with TLC. What the proofs add to it is the safety half: threads never wait at different
   barriers (`BarriersUniform`), so no kernel can hang there, whatever its geometry.
2. Several streams or threads at once: the convention excludes them. A model without the convention would put
   the slot buffer and the scratch pool behind two streams and show which of the two hazards each call meets.
3. The overflow of the byte count in `KvCacheBytes`: `Rollout` takes it over the integers.
