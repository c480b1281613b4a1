----------------------------- MODULE PagedKVCache -----------------------------
(***************************************************************************)
(* sca::PagedKVCache (src/kv_cache/paged_kv_cache.cpp) over its two parts: *)
(* the BlockManager, instantiated as BM, and the KVCache storage, whose    *)
(* kernels (src/kv_cache/kv_cache_kernels.cu) act on the variable kv.      *)
(*                                                                         *)
(* K and V of a token are written by the same kernel at the same offset,   *)
(* so one value stands for both.  A token carries the sequence it belongs  *)
(* to, which lets the properties see one sequence's data in another one's  *)
(* block.  All device work is issued to one stream and runs in the order   *)
(* it was issued.                                                          *)
(*                                                                         *)
(* Launch errors are modelled as runtime::LaunchRaw reports them           *)
(* (src/runtime/launcher.cu): cudaLaunchKernel is followed by              *)
(* cudaGetLastError, so an error some earlier runtime call left behind is  *)
(* reported for a kernel that was launched and does run.                   *)
(***************************************************************************)
EXTENDS Integers, Sequences, FiniteSets

CONSTANTS
  num_blocks, block_size, Seqs,
  num_layers,
  Vals,                   \* payloads of a token's K and V
  Blank,                  \* a slot no token was written to: uninitialised or zeroed
  LateClears,             \* slots a reset kernel may clear that read its ids too late
  kSlotMin,               \* least capacity of the slot buffer (1024 in the code)
  MaxAppend,              \* bound: tokens in one call
  MaxRevision,            \* bound on revision and table_revision
  MaxEvents,              \* bound on allocation_failures
  MaxLate                 \* bound on the resets that are overtaken

ASSUME CacheAssumption ==
  /\ num_blocks \in Nat \ {0}
  /\ block_size \in Nat \ {0}
  /\ num_layers \in Nat \ {0}
  /\ kSlotMin \in Nat \ {0}
ASSUME CacheBoundAssumption ==
  /\ MaxAppend \in Nat /\ MaxRevision \in Nat /\ MaxEvents \in Nat /\ MaxLate \in Nat

VARIABLES
  \* BlockManager blocks_
  free_list, in_use, table, table_revision, table_synced, table_device,
  allocation_failures, double_free_events,
  \* the cache's own host metadata
  seq_lengths, seq_blocks, page_table_host, revision, synced_revision,
  num_appends, num_resets,
  \* device memory: page table, slot buffer, K/V storage
  page_table_device, slot_mapping_device, slot_mapping_capacity, kv,
  \* history: the resets whose kernels the host overtook
  late,
  \* the CUDA runtime's error state
  cuda_error

bmVars == <<free_list, in_use, table, table_revision, table_synced, table_device,
            allocation_failures, double_free_events>>
counters == <<num_appends, num_resets>>
pageTable == <<page_table_device, synced_revision>>
slotBuffer == <<slot_mapping_device, slot_mapping_capacity>>
vars == <<bmVars, seq_lengths, seq_blocks, page_table_host, revision, counters,
          pageTable, slotBuffer, kv, late, cuda_error>>

\* Mutation: a row one block shorter than the pool.
ShortRow == num_blocks - 1

\* A row can hold the whole pool (PagedKVCache::Create).
max_blocks_per_seq == num_blocks

BM == INSTANCE BlockManager WITH MaxIds <- num_blocks

Layers == 0 .. num_layers - 1
Slots == 0 .. num_blocks * block_size - 1
Tokens == Seqs \X Vals
Batches(s) == UNION {[1 .. n -> {s} \X Vals] : n \in 1 .. MaxAppend}

\* A reset that was overtaken: its ids at the call, and what each layer's kernel cleared.
Overtaken ==
  [seq : Seqs, ids : Seq(BM!Blocks),
   cleared : UNION {[ls -> SUBSET Slots] : ls \in SUBSET Layers}]

\* LateClears is {} for a caller that waits for the stream before it appends to a
\* sequence it has reset.
ASSUME LateAssumption == LateClears \subseteq SUBSET Slots

\* PagedKVCache::Create, on device memory nobody wrote yet.
Init ==
  /\ BM!Init
  /\ seq_lengths = [s \in Seqs |-> 0]
  /\ seq_blocks = [s \in Seqs |-> <<>>]
  /\ page_table_host = [s \in Seqs |-> BM!EmptyRow]
  /\ page_table_device = page_table_host
  /\ revision = 1
  /\ synced_revision = 1
  /\ num_appends = 0
  /\ num_resets = 0
  /\ slot_mapping_device = FALSE
  /\ slot_mapping_capacity = 0
  /\ kv = [l \in Layers |-> [x \in Slots |-> Blank]]
  /\ late = {}
  /\ cuda_error = "none"

-----------------------------------------------------------------------------
\* CUDA runtime, as LaunchRaw sees it.  "stale": an earlier call's error that nobody
\* has read; "lost": a kernel faulted and the context is gone.
KernelRuns == cuda_error # "lost"
LaunchOk == cuda_error = "none"
LaunchRaw == cuda_error' = IF cuda_error = "stale" THEN "none" ELSE cuda_error

\* What a runtime call that may have failed leaves behind: whether the infrastructure
\* library reads its own error is not in this repository.
MaybeStale(failed) ==
  IF failed /\ cuda_error # "lost" THEN {cuda_error, "stale"} ELSE {cuda_error}

\* Some other part of the process leaves an error behind, for example the failed
\* cudaFuncSetAttribute of EnsureSmemLimit.
ForeignCudaError ==
  /\ cuda_error = "none"
  /\ cuda_error' = "stale"
  /\ UNCHANGED <<bmVars, seq_lengths, seq_blocks, page_table_host, revision, counters,
                 pageTable, slotBuffer, kv, late>>

-----------------------------------------------------------------------------
CeilDiv(a, b) == (a + b - 1) \div b

\* Mutation of ToAllocate: the division rounds down.
ToAllocateFloor(s, n) == (seq_lengths[s] + n) \div block_size - Len(seq_blocks[s])

\* Blocks AppendTokens asks the BlockManager for; none when this is not positive.
ToAllocate(s, n) == CeilDiv(seq_lengths[s] + n, block_size) - Len(seq_blocks[s])

Padded(owned) == [i \in BM!Columns |-> IF i <= Len(owned) THEN owned[i] ELSE BM!Empty]

\* ComputeSlotMapping: slot of position p of a sequence with this page-table row.
SlotOf(row, p) == row[p \div block_size + 1] * block_size + (p % block_size)

\* Mutation of ComputeSlotMapping: positions are counted from one past the start.
SlotMappingShifted(row, start, n) ==
  [t \in 1 .. n |-> SlotOf(row, IF start + t < num_blocks * block_size THEN start + t ELSE start)]

ComputeSlotMapping(row, start, n) == [t \in 1 .. n |-> SlotOf(row, start + t - 1)]

\* kv_append_kernel: token t goes to slots[t]; a negative slot or a block beyond the
\* pool is skipped.
KvAppend(layer, slots, toks) ==
  kv' = [kv EXCEPT ![layer] =
           [x \in Slots |-> IF \E t \in DOMAIN slots : slots[t] = x
                              THEN toks[CHOOSE t \in DOMAIN slots : slots[t] = x]
                              ELSE @[x]]]

\* The slots of the listed blocks.
SlotsOf(ids) == {x \in Slots : \E i \in DOMAIN ids : ids[i] = x \div block_size}

\* Mutation of KvResetBlock: the last listed block is not cleared.
KvResetBlockShort(ls, ids) ==
  kv' = [l \in Layers |->
           IF l \in ls
             THEN [x \in Slots |-> IF \E i \in DOMAIN ids : i < Len(ids) /\ ids[i] = x \div block_size
                                     THEN Blank ELSE kv[l][x]]
             ELSE kv[l]]

\* kv_reset_kernel on the layers in ls: every slot of the listed blocks.
KvResetBlock(ls, ids) ==
  kv' = [l \in Layers |->
           IF l \in ls
             THEN [x \in Slots |-> IF \E i \in DOMAIN ids : ids[i] = x \div block_size
                                     THEN Blank ELSE kv[l][x]]
             ELSE kv[l]]

\* The kernels of the layers in ls get owned.data(), the address of the host's list, and
\* read the ids when they run.  By then owned.clear() may have run and the push_back of
\* a later AppendTokens may have overwritten the entries or freed them, so each layer's
\* kernel clears the blocks the list held at the call or other slots altogether.  The
\* launches behind it in the stream see the outcome, which is therefore chosen here.
KvResetLate(ls, s) ==
  \E cleared \in [ls -> LateClears \union {SlotsOf(seq_blocks[s])}] :
    /\ Cardinality(late) < MaxLate
    /\ \E l \in ls : cleared[l] # SlotsOf(seq_blocks[s])
    /\ kv' = [l \in Layers |->
                IF l \in ls
                  THEN [x \in Slots |-> IF x \in cleared[l] THEN Blank ELSE kv[l][x]]
                  ELSE kv[l]]
    /\ late' = late \union {[seq |-> s, ids |-> seq_blocks[s], cleared |-> cleared]}

-----------------------------------------------------------------------------
\* AppendTokens, first return: the pool cannot cover the request.
AppendTokensRefused(s, n) ==
  /\ ToAllocate(s, n) > 0
  /\ BM!AllocationFails(ToAllocate(s, n))
  /\ UNCHANGED <<table, table_revision, table_synced, table_device, double_free_events,
                 seq_lengths, seq_blocks, page_table_host, revision, counters, pageTable,
                 slotBuffer, kv, late, cuda_error>>

\* The part of AppendTokens that both remaining outcomes share: allocate, attach to
\* the table, extend the owned list, rewrite the host page-table row.
Reserve(s, n) ==
  LET k == ToAllocate(s, n)
      fresh == BM!Popped(k)
  IN
  /\ \/ /\ k > 0
        /\ k <= Len(free_list)
        /\ BM!Take(k)
        /\ BM!Fits(s, k)
        /\ BM!Attach(s, fresh)
        /\ seq_blocks' = [seq_blocks EXCEPT ![s] = @ \o fresh]
     \/ /\ k <= 0
        /\ UNCHANGED <<free_list, in_use, table, table_revision, seq_blocks>>
  /\ page_table_host' = [page_table_host EXCEPT ![s] = Padded(seq_blocks'[s])]
  /\ UNCHANGED <<table_synced, table_device, allocation_failures, double_free_events>>

\* A slot buffer too small for the call is replaced; the allocation may fail.
BufferGrows(n) == slot_mapping_capacity < n
GrowBuffer(n) ==
  IF BufferGrows(n)
    THEN /\ cuda_error # "lost"
         /\ slot_mapping_device' = TRUE
         /\ slot_mapping_capacity' = IF n > kSlotMin THEN n ELSE kSlotMin
    ELSE UNCHANGED slotBuffer

UploadedSlots(s, n) == ComputeSlotMapping(page_table_host'[s], seq_lengths[s], n)

\* AppendTokens, success: KVCache::Append accepted the tensors and the launch.
AppendTokens(s, layer, toks) ==
  LET n == Len(toks) IN
  /\ revision < MaxRevision
  /\ Reserve(s, n)
  /\ GrowBuffer(n)
  /\ slot_mapping_device'
  /\ LaunchOk
  /\ LaunchRaw
  /\ KvAppend(layer, UploadedSlots(s, n), toks)
  /\ seq_lengths' = [seq_lengths EXCEPT ![s] = @ + n]
  /\ revision' = revision + 1
  /\ num_appends' = num_appends + 1
  /\ UNCHANGED <<num_resets, pageTable, late>>

\* AppendTokens, the slot-buffer allocation fails: the old buffer is already gone and
\* the capacity keeps its old value.  The failed cudaMalloc may stay unread.
AppendTokensNoBuffer(s, n) ==
  /\ Reserve(s, n)
  /\ BufferGrows(n)
  /\ slot_mapping_device' = FALSE
  /\ cuda_error' \in MaybeStale(TRUE)
  /\ UNCHANGED <<slot_mapping_capacity, seq_lengths, revision, counters, pageTable, kv, late>>

\* AppendTokens, KVCache::Append rejects the tensors (dtype, heads, head_dim) or
\* finds no slot buffer: nothing is launched.  The upload to a missing buffer fails
\* and may leave its error unread.
AppendTokensRejected(s, n) ==
  /\ Reserve(s, n)
  /\ GrowBuffer(n)
  /\ cuda_error' \in MaybeStale(~slot_mapping_device')
  /\ UNCHANGED <<seq_lengths, revision, counters, pageTable, kv, late>>

\* AppendTokens, LaunchRaw reports an error: after a stale error the kernel was
\* launched all the same.
AppendTokensLaunchFails(s, layer, toks) ==
  /\ Reserve(s, Len(toks))
  /\ GrowBuffer(Len(toks))
  /\ slot_mapping_device'
  /\ ~LaunchOk
  /\ LaunchRaw
  /\ IF KernelRuns THEN KvAppend(layer, UploadedSlots(s, Len(toks)), toks) ELSE UNCHANGED kv
  /\ UNCHANGED <<seq_lengths, revision, counters, pageTable, late>>

-----------------------------------------------------------------------------
\* Mutations of DropSequence: the length gets the table's empty mark; the owned list is
\* not cleared; the revision is not advanced.
DropSequenceBadLength(s) ==
  /\ revision < MaxRevision
  /\ BM!ResetSeq(s)
  /\ seq_blocks' = [seq_blocks EXCEPT ![s] = <<>>]
  /\ seq_lengths' = [seq_lengths EXCEPT ![s] = BM!Empty]
  /\ page_table_host' = [page_table_host EXCEPT ![s] = BM!EmptyRow]
  /\ revision' = revision + 1
  /\ num_resets' = num_resets + 1
  /\ UNCHANGED <<num_appends, pageTable, slotBuffer>>

DropSequenceKeepsOwned(s) ==
  /\ revision < MaxRevision
  /\ BM!ResetSeq(s)
  /\ UNCHANGED seq_blocks
  /\ seq_lengths' = [seq_lengths EXCEPT ![s] = 0]
  /\ page_table_host' = [page_table_host EXCEPT ![s] = BM!EmptyRow]
  /\ revision' = revision + 1
  /\ num_resets' = num_resets + 1
  /\ UNCHANGED <<num_appends, pageTable, slotBuffer>>

DropSequenceSilent(s) ==
  /\ revision < MaxRevision
  /\ BM!ResetSeq(s)
  /\ seq_blocks' = [seq_blocks EXCEPT ![s] = <<>>]
  /\ seq_lengths' = [seq_lengths EXCEPT ![s] = 0]
  /\ page_table_host' = [page_table_host EXCEPT ![s] = BM!EmptyRow]
  /\ UNCHANGED revision
  /\ num_resets' = num_resets + 1
  /\ UNCHANGED <<num_appends, pageTable, slotBuffer>>

\* The host half of ResetSeq, after KVCache::Reset returned Ok.
DropSequence(s) ==
  /\ revision < MaxRevision
  /\ BM!ResetSeq(s)
  /\ seq_blocks' = [seq_blocks EXCEPT ![s] = <<>>]
  /\ seq_lengths' = [seq_lengths EXCEPT ![s] = 0]
  /\ page_table_host' = [page_table_host EXCEPT ![s] = BM!EmptyRow]
  /\ revision' = revision + 1
  /\ num_resets' = num_resets + 1
  /\ UNCHANGED <<num_appends, pageTable, slotBuffer>>

\* ResetSeq of a sequence with no blocks launches nothing.
ResetSeqEmpty(s) ==
  /\ seq_blocks[s] = <<>>
  /\ DropSequence(s)
  /\ UNCHANGED <<kv, late, cuda_error>>

\* ResetSeq, one reset kernel per layer, every launch accepted.  The kernels are given
\* owned.data(), a host address: they read the ids before the host changes the list, or
\* too late, or they fault where the device cannot read host memory.  The model lets the
\* very next launch notice the fault; a device may let further resets pass first, which
\* would change no K/V either.
ResetSeq(s) ==
  /\ seq_blocks[s] # <<>>
  /\ LaunchOk
  /\ DropSequence(s)
  /\ \/ KvResetBlock(Layers, seq_blocks[s]) /\ UNCHANGED <<late, cuda_error>>
     \/ KvResetLate(Layers, s) /\ UNCHANGED cuda_error
     \/ UNCHANGED <<kv, late>> /\ cuda_error' = "lost"

\* ResetSeq, a launch is reported as failed and ResetSeq returns with the host state as
\* it was.  After a stale error the kernel of layer 0 runs nevertheless, in time, too late
\* or to a fault; the fault of one layer's kernel can surface at the next launch.
ResetSeqFails(s) ==
  /\ seq_blocks[s] # <<>>
  /\ \/ /\ ~LaunchOk
        /\ LaunchRaw
        /\ \/ KernelRuns /\ KvResetBlock({0}, seq_blocks[s]) /\ UNCHANGED late
           \/ KernelRuns /\ KvResetLate({0}, s)
           \/ ~KernelRuns /\ UNCHANGED <<kv, late>>
     \/ /\ cuda_error = "stale" \/ (LaunchOk /\ num_layers > 1)
        /\ cuda_error' = "lost"
        /\ UNCHANGED <<kv, late>>
  /\ UNCHANGED <<bmVars, seq_lengths, seq_blocks, page_table_host, revision, counters,
                 pageTable, slotBuffer>>

\* ForceSyncPageTable, which SyncPageTable calls only when the revisions differ.
ForceSyncPageTable ==
  /\ page_table_device' = IF KernelRuns THEN page_table_host ELSE page_table_device
  /\ synced_revision' = revision
  /\ UNCHANGED <<bmVars, seq_lengths, seq_blocks, page_table_host, revision, counters,
                 slotBuffer, kv, late, cuda_error>>

SyncPageTable ==
  /\ revision # synced_revision
  /\ ForceSyncPageTable

Next ==
  \/ \E s \in Seqs, n \in 1 .. MaxAppend :
       \/ AppendTokensRefused(s, n)
       \/ AppendTokensNoBuffer(s, n)
       \/ AppendTokensRejected(s, n)
  \/ \E s \in Seqs : \E layer \in Layers, toks \in Batches(s) :
       \/ AppendTokens(s, layer, toks)
       \/ AppendTokensLaunchFails(s, layer, toks)
  \/ \E s \in Seqs :
       \/ ResetSeqEmpty(s)
       \/ ResetSeq(s)
       \/ ResetSeqFails(s)
  \/ SyncPageTable
  \/ ForceSyncPageTable
  \/ ForeignCudaError

Spec == Init /\ [][Next]_vars

-----------------------------------------------------------------------------
\* The types of the cache's state: block ids in range in both tables and a
\* known token or nothing in every slot of the pool.
TypeOK ==
  /\ BM!TypeOK
  /\ seq_lengths \in [Seqs -> Nat]
  /\ seq_blocks \in [Seqs -> Seq(BM!Blocks)]
  /\ page_table_host \in [Seqs -> [BM!Columns -> BM!BlockIds]]
  /\ page_table_device \in [Seqs -> [BM!Columns -> BM!BlockIds]]
  /\ revision \in Nat /\ synced_revision \in Nat
  /\ num_appends \in Nat /\ num_resets \in Nat
  /\ slot_mapping_device \in BOOLEAN
  /\ slot_mapping_capacity \in Nat
  /\ kv \in [Layers -> [Slots -> Tokens \union {Blank}]]
  /\ late \subseteq Overtaken
  /\ cuda_error \in {"none", "stale", "lost"}

Owns(s, b) == \E i \in DOMAIN seq_blocks[s] : seq_blocks[s][i] = b

\* Blocks are exclusive: no block occurs twice in one sequence or in two sequences
\* (block_manager.hpp: "Exclusive (non-shared) block allocator").
ExclusiveOwnership ==
  \A s, r \in Seqs : \A i \in DOMAIN seq_blocks[s], j \in DOMAIN seq_blocks[r] :
    seq_blocks[s][i] = seq_blocks[r][j] => s = r /\ i = j

\* A block is in use exactly while some sequence owns it: no call, failing half-way or
\* not, leaks a block or frees one that is still owned.
NoBlockLost == \A b \in BM!Blocks : in_use[b] <=> \E s \in Seqs : Owns(s, b)

\* The three copies of a sequence's block list (owned list, BlockManager row, host
\* page-table row) agree after every call.
RowsAgree ==
  \A s \in Seqs : table[s] = Padded(seq_blocks[s]) /\ page_table_host[s] = Padded(seq_blocks[s])

\* The allocator is never handed a block it does not consider live.
NoDoubleFree == double_free_events = 0

Ownership ==
  /\ BM!PoolIntegrity
  /\ ExclusiveOwnership
  /\ NoBlockLost
  /\ RowsAgree
  /\ NoDoubleFree

\* Every position below the length lies in an owned block, so ComputeSlotMapping and
\* the paged kernel find a mapped block for it.
LengthCovered ==
  \A s \in Seqs : seq_lengths[s] <= Len(seq_blocks[s]) * block_size

\* AppendToTable has room for whatever Allocate granted: the rollback branch of
\* AppendTokens is unreachable.
TableHasRoom == \A s \in Seqs, n \in 0 .. Len(free_list) : BM!Fits(s, n)

\* While the revisions agree (SyncPageTable would skip the upload) the device page
\* table maps every position below each length, and names no block its sequence does
\* not own -- although a failed append changes the host table without a new revision.
DevicePageTableFresh ==
  synced_revision = revision /\ KernelRuns =>
    \A s \in Seqs : \A i \in BM!Columns :
      /\ i <= CeilDiv(seq_lengths[s], block_size) =>
           page_table_device[s][i] = seq_blocks[s][i]
      /\ page_table_device[s][i] # BM!Empty =>
           page_table_device[s][i] = page_table_host[s][i]

\* As long as every reset kernel read its block ids in time, reused blocks carry nothing
\* over: a slot of an owned block holds a token of its owner or nothing, a slot of a
\* free block holds nothing (unless the context died).
NoCrossTalk ==
  KernelRuns /\ late = {} =>
    \A l \in Layers, x \in Slots :
      kv[l][x] # Blank => Owns(kv[l][x][1], x \div block_size)

\* What a caller reads back: position p of sequence s in layer l.
View(l, s) == [p \in 1 .. seq_lengths[s] |-> kv[l][SlotOf(page_table_host[s], p - 1)]]

\* The cache implements the block-free description of itself, with resets that were
\* overtaken and resets that were not.
Logical == INSTANCE LogicalCache
             WITH log <- [l \in Layers |-> [s \in Seqs |-> View(l, s)]],
                  held <- [s \in Seqs |-> Len(seq_blocks[s])],
                  avail <- Len(free_list),
                  clean <- late = {}
ImplementsLogicalCache == Logical!Spec

-----------------------------------------------------------------------------
\* paged_kv_cache.cpp, AppendTokens: "the caller can ResetSeq to recover".  After a
\* successful ResetSeq, a batch the pool can hold finds a slot buffer (the one
\* that is there, or one that is allocated because the capacity is too small).
ResetRecovers ==
  [][\A s \in Seqs :
       ResetSeq(s) \/ ResetSeqEmpty(s) =>
         \A n \in 1 .. MaxAppend :
           (ToAllocate(s, n) <= Len(free_list) => slot_mapping_device \/ BufferGrows(n))']_vars

\* The overtaken kernel read the list as the next append of its sequence left it: the
\* ids pushed since, fewer than the reset list had, lie over the first of the old ones.
ReadsRefilledList(o) ==
  LET refill == seq_blocks[o.seq]
      read == [i \in DOMAIN o.ids |-> IF i <= Len(refill) THEN refill[i] ELSE o.ids[i]]
  IN
  /\ seq_lengths[o.seq] > 0
  /\ Len(refill) < Len(o.ids)
  /\ \A l \in DOMAIN o.cleared : o.cleared[l] = SlotsOf(read)

\* docs/kv_cache.md, section 5: an append after a reset meets no cross-talk.  No block of
\* a sequence that was appended to holds a token of another one, even when a reset
\* kernel runs after the next append of its sequence has refilled the list it reads.
ResetThenAppendIsolated ==
  KernelRuns /\ (\A o \in late : ReadsRefilledList(o)) =>
    \A l \in Layers, s \in Seqs : \A x \in SlotsOf(seq_blocks[s]) :
      seq_lengths[s] > 0 /\ kv[l][x] # Blank => kv[l][x][1] = s
=============================================================================
