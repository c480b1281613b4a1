------------------------------ MODULE PagedReads ------------------------------
(***************************************************************************)
(* The readers of the paged cache: paged_attention                         *)
(* (src/backends/paged/paged_backend.cpp), which follows the device page   *)
(* table from the split-K decode kernel, and KVCache::GatherK / GatherV    *)
(* (src/kv_cache/kv_cache.cpp), which copy whole blocks by id.  A read     *)
(* changes nothing of the cache; what it returns is an operator of the     *)
(* state, and the action of a read is what its launch does to the CUDA     *)
(* runtime's error state.                                                  *)
(***************************************************************************)
EXTENDS PagedKVCache

CONSTANTS
  kTokensPerSplit, kMaxSplits, sm_count,
  Requests            \* the calls of paged_attention that are made

SK == INSTANCE SplitK

\* A call: the shape of q, the cache's layer, the caller's num_splits, whether params
\* carries seq_lens, and its block_size and max_blocks_per_seq (0: the cache's own).
RequestType ==
  [ndims : Nat, num_seqs : Int, seq_q : Nat, head_dim : Nat, compute_dtype : BOOLEAN,
   layer : Int, num_splits : Nat, seq_lens : BOOLEAN, block_size : Nat, max_blocks : Nat]

ASSUME ReadAssumption ==
  /\ kTokensPerSplit \in Nat \ {0} /\ kMaxSplits \in Nat \ {0} /\ sm_count \in Nat
  /\ Requests \subseteq RequestType

SupportedHeadDims == {32, 64, 96, 128, 160, 192, 256}

\* The early returns of RunPaged.
RunPagedAccepts(q) ==
  /\ q.ndims = 4
  /\ q.seq_q = 1
  /\ q.num_seqs \in 1 .. Cardinality(Seqs)
  /\ q.layer \in Layers
  /\ q.compute_dtype
  /\ q.head_dim % 32 = 0 /\ q.head_dim \in SupportedHeadDims

\* The geometry and the split count RunPaged settles on.
BlockSizeOf(q) == IF q.block_size > 0 THEN q.block_size ELSE block_size
MaxBlocksOf(q) == IF q.max_blocks > 0 THEN q.max_blocks ELSE max_blocks_per_seq
SplitsOf(q) == SK!ResolveSplits(q.num_splits, num_blocks * BlockSizeOf(q), sm_count)

\* The row of the layer's storage the kernel reads for a token, -1 for none.
RowRead(q, s, j) ==
  SK!PageTableRow(page_table_device[s], j, BlockSizeOf(q), MaxBlocksOf(q), num_blocks)

\* What one split of decode_partial_kernel sums up; an unmapped token is skipped.
SplitTerms(q, s, n, split) ==
  LET mapped == {j \in SK!SplitTokens(split, n, SplitsOf(q)) : RowRead(q, s, j) >= 0}
  IN {[split |-> split, token |-> j, read |-> RowRead(q, s, j)] : j \in mapped}

\* decode_partial_kernel over all splits, for a sequence of n tokens.
TermsRead(q, s, n) == UNION {SplitTerms(q, s, n, k) : k \in 0 .. SplitsOf(q) - 1}

\* Without seq_lens the kernel runs over p.seq_kv, an upper bound on every length.
TermsReadWithoutLens(q, s) == TermsRead(q, s, num_blocks * BlockSizeOf(q))

\* Mutation of Gathered: the kernel addresses the listed block's successor.
GatheredNext(l, ids) ==
  [x \in 1 .. Len(ids) * block_size |->
     LET b == ids[(x - 1) \div block_size + 1] + 1
     IN IF b \in BM!Blocks THEN kv[l][b * block_size + ((x - 1) % block_size)] ELSE Blank]

\* kv_gather_kernel: the slots of the listed blocks, zeros for an id beyond the pool.
Gathered(l, ids) ==
  [x \in 1 .. Len(ids) * block_size |->
     LET b == ids[(x - 1) \div block_size + 1]
     IN IF b \in BM!Blocks THEN kv[l][b * block_size + ((x - 1) % block_size)] ELSE Blank]

-----------------------------------------------------------------------------
cacheState == <<bmVars, seq_lengths, seq_blocks, page_table_host, revision, counters,
                pageTable, slotBuffer, kv, late>>

\* GatherInternal and RunPaged, past their argument checks: the result (for RunPaged
\* the partials too) cannot be allocated, or one launch is issued.
ReadDevice ==
  /\ \/ cuda_error' \in MaybeStale(TRUE)
     \/ LaunchRaw
  /\ UNCHANGED cacheState

RunPaged == {q \in Requests : RunPagedAccepts(q)} # {} /\ ReadDevice

Gather == {s \in Seqs : seq_blocks[s] # <<>>} # {} /\ ReadDevice

ReadsNext == Next \/ RunPaged \/ Gather

ReadsSpec == Init /\ [][ReadsNext]_vars

-----------------------------------------------------------------------------
PageTableCurrent == synced_revision = revision /\ KernelRuns

\* The call describes the cache's page table as it is; nothing in RunPaged compares them.
OwnGeometry(q) == BlockSizeOf(q) = block_size /\ MaxBlocksOf(q) = max_blocks_per_seq

\* paged_attention with seq_lens no longer than the cache's lengths: after a
\* SyncPageTable, and whatever failed appends and resets came before, the splits
\* together read the slots the tokens were appended to, each token once, with none
\* skipped as unmapped.
AttendsOwnTokens ==
  PageTableCurrent =>
    \A q \in Requests, s \in Seqs :
      RunPagedAccepts(q) /\ OwnGeometry(q) /\ q.seq_lens =>
        \A n \in 1 .. seq_lengths[s] :
          SK!EachOnce(TermsRead(q, s, n), [j \in 0 .. n - 1 |-> SlotOf(page_table_host[s], j)])

\* paged_attention without seq_lens reads up to the pool's size: every token of the
\* sequence at its slot, no slot twice, and besides them only slots of its own blocks.
\* As long as every reset kernel read its ids in time these hold nothing or a token of
\* its own, never what another sequence left in a reused block.
NeverAttendsForeign ==
  PageTableCurrent =>
    \A q \in Requests, s \in Seqs :
      RunPagedAccepts(q) /\ OwnGeometry(q) /\ ~q.seq_lens =>
        LET terms == TermsReadWithoutLens(q, s) IN
        /\ \A j \in 0 .. seq_lengths[s] - 1 : \E x \in terms :
             x.token = j /\ x.read = SlotOf(page_table_host[s], j)
        /\ \A x \in terms : Owns(s, x.read \div block_size)
        /\ late = {} =>
             \A x \in terms : kv[q.layer][x.read] # Blank => kv[q.layer][x.read][1] = s
        /\ \A x, y \in terms : x.read = y.read => x = y

\* Gathering a sequence's blocks returns its tokens in position order, and then, as long
\* as every reset kernel read its ids in time, nothing but what its own failed appends
\* wrote.
GatherReturnsView ==
  KernelRuns =>
    \A l \in Layers, s \in Seqs :
      LET got == Gathered(l, seq_blocks[s]) IN
      /\ \A p \in 1 .. seq_lengths[s] : got[p] = View(l, s)[p]
      /\ late = {} => \A x \in DOMAIN got : got[x] # Blank => got[x][1] = s
=============================================================================
