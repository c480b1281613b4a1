----------------------------- MODULE FlashPipeline ----------------------------
(***************************************************************************)
(* One thread block of flash_fwd_kernel                                    *)
(* (src/backends/flash/flash_fwd_impl.cuh): its threads stream the K/V     *)
(* tiles of a block of query rows through kStages shared buffers with      *)
(* cp.async, two __syncthreads per tile, and stop at the first tile the    *)
(* causal mask hides from the whole row block.                             *)
(*                                                                         *)
(* Every thread copies its own share of each tile.  cp.async copies land   *)
(* at any time after they are issued and in any order; the only guarantee  *)
(* is cp.async.wait_group n, which waits until all but the n most recent   *)
(* groups that the calling thread committed have landed                    *)
(* (src/cuda_common/cp_async.cuh).  K and V of a tile are issued together  *)
(* in one group and stand for one copy.  A share whose rows lie beyond     *)
(* seq_kv is stored as zeros at once, which is one of the times at which   *)
(* a copy may land.                                                        *)
(*                                                                         *)
(* Numbers are abstracted: instead of running softmax sums a row keeps the *)
(* set of key columns that have been folded into them.                     *)
(***************************************************************************)
EXTENDS Integers, Sequences

CONSTANTS
  kWarpsM, kSplitsD,  \* the block has kWarpsM * kSplitsD warps
  kLanes,             \* threads of a warp (32 in the code)
  kWarpRows,          \* query rows of a warp (16 in the code)
  kBlockN,            \* key columns of a tile
  kStages,            \* shared buffers per operand
  MaxSeqQ, MaxSeqKv   \* bounds on the sequence lengths

ASSUME GeometryAssumption ==
  /\ kWarpsM \in Nat \ {0} /\ kSplitsD \in Nat \ {0} /\ kLanes \in Nat \ {0}
  /\ kWarpRows \in Nat \ {0}
  /\ kBlockN \in Nat \ {0}
  /\ kStages \in Nat /\ kStages >= 2
  /\ MaxSeqQ \in Nat /\ MaxSeqKv \in Nat

VARIABLES
  seq_q, seq_kv, causal, i0,    \* the kernel's parameters and its row block
  pc,           \* where each thread is
  j_idx,        \* loop counter of each thread
  smem,         \* smem[t][st]: tile whose share thread t last issued into buffer st
  groups,       \* groups[t][g]: tile in t's g-th committed group, NoTile if it is empty
  landed,       \* landed[t]: the groups of t that have landed
  acc           \* acc[t][r]: columns folded into row r of t's warp

params == <<seq_q, seq_kv, causal, i0>>
copies == <<smem, groups, landed>>
vars == <<seq_q, seq_kv, causal, i0, pc, j_idx, smem, groups, landed, acc>>

kBlockM == kWarpsM * kWarpRows
Threads == 0 .. kWarpsM * kSplitsD * kLanes - 1
Stages == 0 .. kStages - 1
WarpRows == 0 .. kWarpRows - 1
NoTile == -1
kPrefetch == kStages - 1

warp_m(t) == (t \div kLanes) \div kSplitsD
Row(t, r) == i0 + warp_m(t) * kWarpRows + r
j_tiles == (seq_kv + kBlockN - 1) \div kBlockN
diagonal == seq_kv - seq_q

\* The launch has one block per kBlockM query rows.  The prologue commits no group for
\* a tile that does not exist, so the wait count is right only when there are
\* kStages - 1 tiles to preload; with kStages = 2, the value in every entry of the
\* tile table, every launch has them.
Init ==
  /\ seq_q \in 1 .. MaxSeqQ
  /\ seq_kv \in 1 .. MaxSeqKv
  /\ j_tiles >= kPrefetch
  /\ causal \in BOOLEAN
  /\ i0 \in {b * kBlockM : b \in 0 .. (seq_q - 1) \div kBlockM}
  /\ pc = [t \in Threads |-> "load_q"]
  /\ j_idx = [t \in Threads |-> 0]
  /\ smem = [t \in Threads |-> [st \in Stages |-> NoTile]]
  /\ groups = [t \in Threads |-> <<>>]
  /\ landed = [t \in Threads |-> {}]
  /\ acc = [t \in Threads |-> [r \in WarpRows |-> {}]]

-----------------------------------------------------------------------------
\* Causal mask predicates.  Bottom-right aligned: row sees col iff col <= row + diagonal.
MaskElementVisible(row, col) == col <= row + diagonal

MaskTileFullyMasked(j_base) == j_base > i0 + kBlockM - 1 + diagonal

\* Mutation of MaskWarpFullyVisible: the tile's last column is forgotten.
MaskWarpFullyVisibleShort(warp_row0, j_base) ==
  j_base + kBlockN - 2 <= warp_row0 + diagonal

MaskWarpFullyVisible(warp_row0, j_base) ==
  j_base + kBlockN - 1 <= warp_row0 + diagonal

\* Mutation of LoopEnds: each warp applies the break to its own rows.
LoopEndsPerWarp(t) ==
  \/ j_idx[t] >= j_tiles
  \/ causal /\ j_idx[t] * kBlockN > Row(t, kWarpRows - 1) + diagonal

\* The loop condition and the causal break.
LoopEnds(t) ==
  \/ j_idx[t] >= j_tiles
  \/ causal /\ MaskTileFullyMasked(j_idx[t] * kBlockN)

-----------------------------------------------------------------------------
Goto(t, label) == pc' = [pc EXCEPT ![t] = label]

\* The thread stores its share of the Q tile.
LoadQ(t) ==
  /\ pc[t] = "load_q"
  /\ Goto(t, "q_barrier")
  /\ UNCHANGED <<params, j_idx, copies, acc>>

\* __syncthreads before the Q fragments are read.
QBarrier ==
  /\ \A t \in Threads : pc[t] = "q_barrier"
  /\ pc' = [t \in Threads |-> "prologue"]
  /\ UNCHANGED <<params, j_idx, copies, acc>>

\* The prologue loop: tile s goes to buffer s, one committed group each.
Prologue(t) ==
  /\ pc[t] = "prologue"
  /\ Goto(t, "loop")
  /\ smem' = [smem EXCEPT ![t] = [st \in Stages |-> IF st < kPrefetch THEN st ELSE @[st]]]
  /\ groups' = [groups EXCEPT ![t] = [g \in 1 .. kPrefetch |-> g - 1]]
  /\ UNCHANGED <<params, j_idx, landed, acc>>

\* A committed copy of thread t lands.
Land(t, g) ==
  /\ g \in 1 .. Len(groups[t])
  /\ g \notin landed[t]
  /\ landed' = [landed EXCEPT ![t] = @ \union {g}]
  /\ UNCHANGED <<params, pc, j_idx, smem, groups, acc>>

\* cp.async.wait_group n returns for thread t.
CpAsyncWaitGroup(t, n) == \A g \in 1 .. Len(groups[t]) - n : g \in landed[t]

\* Mutation of TileWait, and the count cp_async.cuh recommends.
TileWaitOneMore(t) == CpAsyncWaitGroup(t, kStages - 1)

\* The wait at the top of an iteration.
TileWait(t) == CpAsyncWaitGroup(t, kStages - 2)

BeginTile(t) ==
  /\ pc[t] = "loop"
  /\ ~LoopEnds(t)
  /\ TileWait(t)
  /\ Goto(t, "top")
  /\ UNCHANGED <<params, j_idx, copies, acc>>

Leave(t) ==
  /\ pc[t] = "loop"
  /\ LoopEnds(t)
  /\ Goto(t, "done")
  /\ UNCHANGED <<params, j_idx, copies, acc>>

\* Mutation of TopBarrier: __syncthreads is missing, each thread passes alone.
NoTopBarrier ==
  /\ \E t \in Threads : pc[t] = "top" /\ Goto(t, "prefetch")
  /\ UNCHANGED <<params, j_idx, copies, acc>>

\* __syncthreads after the wait.
TopBarrier ==
  /\ \A t \in Threads : pc[t] = "top"
  /\ pc' = [t \in Threads |-> "prefetch"]
  /\ UNCHANGED <<params, j_idx, copies, acc>>

\* Mutation of Prefetch: the tile index is not compared with j_tiles.
PrefetchUnbounded(t) ==
  LET prefetch_idx == j_idx[t] + kStages - 1 IN
  /\ pc[t] = "prefetch"
  /\ Goto(t, "compute")
  /\ smem' = [smem EXCEPT ![t][prefetch_idx % kStages] = prefetch_idx]
  /\ groups' = [groups EXCEPT ![t] = Append(@, prefetch_idx)]
  /\ UNCHANGED <<params, j_idx, landed, acc>>

\* Refill the buffer of the previous iteration; one group is committed whether or not
\* there is a tile left to load.
Prefetch(t) ==
  LET prefetch_idx == j_idx[t] + kStages - 1
      x == IF prefetch_idx < j_tiles THEN prefetch_idx ELSE NoTile
  IN
  /\ pc[t] = "prefetch"
  /\ Goto(t, "compute")
  /\ smem' = [smem EXCEPT ![t][prefetch_idx % kStages] = IF x = NoTile THEN @ ELSE x]
  /\ groups' = [groups EXCEPT ![t] = Append(@, x)]
  /\ UNCHANGED <<params, j_idx, landed, acc>>

\* The columns of tile j that row r of thread t's warp keeps: element masking is
\* skipped when the tile is in range and wholly visible to the warp.
Kept(t, r, j) ==
  LET j_base == j * kBlockN
      tile_in_range == j_base + kBlockN <= seq_kv
      fully_visible == ~causal \/ MaskWarpFullyVisible(Row(t, 0), j_base)
  IN {col \in j_base .. j_base + kBlockN - 1 :
        ~(tile_in_range /\ fully_visible) =>
          /\ col < seq_kv
          /\ ~causal \/ MaskElementVisible(Row(t, r), col)}

\* S = Q K^T, masking, online softmax, O += P V: while pc is "compute" the thread
\* reads the tile's buffer.
Compute(t) ==
  /\ pc[t] = "compute"
  /\ Goto(t, "bottom")
  /\ acc' = [acc EXCEPT ![t] = [r \in WarpRows |-> @[r] \union Kept(t, r, j_idx[t])]]
  /\ UNCHANGED <<params, j_idx, copies>>

\* __syncthreads at the end of the iteration.
BottomBarrier ==
  /\ \A t \in Threads : pc[t] = "bottom"
  /\ pc' = [t \in Threads |-> "loop"]
  /\ j_idx' = [t \in Threads |-> j_idx[t] + 1]
  /\ UNCHANGED <<params, copies, acc>>

Step(t) ==
  \/ LoadQ(t)
  \/ Prologue(t)
  \/ BeginTile(t)
  \/ Leave(t)
  \/ Prefetch(t)
  \/ Compute(t)

Next ==
  \/ \E t \in Threads : Step(t)
  \/ \E t \in Threads : \E g \in 1 .. Len(groups[t]) : Land(t, g)
  \/ QBarrier
  \/ TopBarrier
  \/ BottomBarrier

Spec == Init /\ [][Next]_vars

\* The hardware keeps every resident thread going, completes every copy, and opens a
\* barrier that all threads have reached.
FairSpec ==
  /\ Spec
  /\ \A t \in Threads :
       /\ WF_vars(Step(t))
       /\ WF_vars(\E g \in 1 .. Len(groups[t]) : Land(t, g))
  /\ WF_vars(QBarrier)
  /\ WF_vars(TopBarrier)
  /\ WF_vars(BottomBarrier)

-----------------------------------------------------------------------------
PCs == {"load_q", "q_barrier", "prologue", "loop", "top", "prefetch", "compute",
        "bottom", "done"}
TilesOrNone == {NoTile} \union (0 .. j_tiles - 1)

\* Program counters, tile numbers and buffers stay in range; only tiles that exist are
\* ever copied.
TypeOK ==
  /\ seq_q \in Nat \ {0} /\ seq_kv \in Nat \ {0} /\ causal \in BOOLEAN /\ i0 \in Nat
  /\ pc \in [Threads -> PCs]
  /\ j_idx \in [Threads -> 0 .. j_tiles]
  /\ smem \in [Threads -> [Stages -> TilesOrNone]]
  /\ groups \in [Threads -> Seq(TilesOrNone)]
  /\ landed \in [Threads -> SUBSET (1 .. j_tiles + kPrefetch)]
  /\ acc \in [Threads -> [WarpRows -> SUBSET (0 .. seq_kv - 1)]]

HasLanded(t, x) == \E g \in landed[t] : groups[t][g] = x

\* While any thread computes on tile j_idx, every thread's share of that tile is in
\* the tile's buffer, has landed, and is not being overwritten by a later tile.
TileReady ==
  \A t, u \in Threads : pc[t] = "compute" =>
    /\ smem[u][j_idx[t] % kStages] = j_idx[t]
    /\ HasLanded(u, j_idx[t])

\* No thread waits at one __syncthreads while another waits at a different one, has
\* left the kernel, or runs a different iteration: the causal break is taken by all
\* threads or by none.
BarriersUniform ==
  \A t, u \in Threads :
    pc[t] \in {"q_barrier", "top", "bottom"} =>
      /\ j_idx[u] = j_idx[t]
      /\ pc[u] \in {"q_barrier", "top", "bottom", "done"} => pc[u] = pc[t]

\* A row that reaches the epilogue has folded in exactly the keys the definition of
\* (causal) attention gives it: neither the early break, nor the unmasked fast path,
\* nor the last partial tile drops or adds a column.
OutputExact ==
  \A t \in Threads : pc[t] = "done" =>
    \A r \in WarpRows : Row(t, r) < seq_q =>
      acc[t][r] = {col \in 0 .. seq_kv - 1 : causal => col <= Row(t, r) + seq_kv - seq_q}

\* Every thread of the block reaches the epilogue.
KernelTerminates == <>(\A t \in Threads : pc[t] = "done")
=============================================================================
