------------------------------ MODULE TiledKernel -----------------------------
(***************************************************************************)
(* One thread block of tiled_attn_kernel                                   *)
(* (src/backends/tiled/attention_tiled.cu).  Each key tile goes through    *)
(* four phases with a __syncthreads after each: load K/V, scores, softmax, *)
(* product with V.  Every phase deals the shared memory out differently:   *)
(* the load and the scores by element over the threads, the softmax by row *)
(* over the warps, the product by output slot over the threads.  What a    *)
(* thread reads was therefore written by others, and its own writes        *)
(* replace what others may still be reading.                               *)
(*                                                                         *)
(* Numbers are abstracted: a running sum is how often each key column went *)
(* into it, a maximum is whether it is above -inf.                         *)
(***************************************************************************)
EXTENDS Integers

CONSTANTS
  kWarps,
  kLanes,             \* threads of a warp (32 in the code)
  kBlockM, kBlockN,   \* query rows of a block, key columns of a tile
  kSlotsPerRow,       \* float4 output slots of a row (kHeadDim / 4)
  MaxSeqQ, MaxSeqKv   \* bounds on the sequence lengths

ASSUME TileAssumption ==
  /\ kWarps \in Nat \ {0} /\ kLanes \in Nat \ {0}
  /\ kBlockM \in Nat \ {0} /\ kBlockN \in Nat \ {0} /\ kSlotsPerRow \in Nat \ {0}
  /\ MaxSeqQ \in Nat /\ MaxSeqKv \in Nat

VARIABLES
  seq_q, seq_kv, causal, i0,  \* the kernel's parameters and its row block
  pc, j0,                     \* position and loop counter of each thread
  q_smem,                     \* q_smem[t]: thread t has stored its share of Q
  kv_smem,                    \* kv_smem[t]: tile whose share of K and V t stored last
  s_tile,                     \* s_tile[cell]: [tile, kind, kept]
  m_row,                      \* m_row[row]: the running maximum is above -inf
  l_row,                      \* l_row[row]: columns in the running sum
  alpha_row,                  \* alpha_row[row]: the rescaling factor is not zero
  acc,                        \* acc[slot]: columns in the output registers
  out, lse                    \* what the epilogue stored

params == <<seq_q, seq_kv, causal, i0>>
inputs == <<q_smem, kv_smem>>
rows == <<m_row, l_row, alpha_row>>
results == <<out, lse>>
vars == <<params, pc, j0, inputs, s_tile, rows, acc, results>>

kThreads == kWarps * kLanes
Threads == 0 .. kThreads - 1
Warps == 0 .. kWarps - 1
Rows == 0 .. kBlockM - 1
Columns == 0 .. kBlockN - 1
Cells == 0 .. kBlockM * kBlockN - 1
OutSlots == 0 .. kBlockM * kSlotsPerRow - 1
NoTile == -1
Garbage == -1
NotWritten == <<"not written">>

\* What a sum may contain: the columns of the tiles, padding included, and Garbage for
\* memory that holds something else.  A sum counts its terms.
Keys == 0 .. MaxSeqKv + kBlockN - 1
Terms == Keys \union {Garbage}
NoTerms == [k \in Terms |-> 0]

Lanes(w) == {t \in Threads : t \div kLanes = w}
j_tiles == (seq_kv + kBlockN - 1) \div kBlockN
diagonal == IF causal THEN seq_kv - seq_q ELSE 0

\* Validate has refused causal calls with seq_kv < seq_q.
Init ==
  /\ seq_q \in 1 .. MaxSeqQ
  /\ seq_kv \in 1 .. MaxSeqKv
  /\ causal \in BOOLEAN
  /\ causal => seq_kv >= seq_q
  /\ i0 \in {b * kBlockM : b \in 0 .. (seq_q - 1) \div kBlockM}
  /\ pc = [t \in Threads |-> "load_q"]
  /\ j0 = [t \in Threads |-> 0]
  /\ q_smem = [t \in Threads |-> FALSE]
  /\ kv_smem = [t \in Threads |-> NoTile]
  /\ s_tile = [c \in Cells |-> [tile |-> NoTile, kind |-> "none", kept |-> TRUE]]
  /\ m_row = [r \in Rows |-> TRUE]              \* uninitialised until LoadQ
  /\ l_row = [r \in Rows |-> [NoTerms EXCEPT ![Garbage] = 1]]
  /\ alpha_row = [r \in Rows |-> TRUE]
  /\ acc = [s \in OutSlots |-> NoTerms]
  /\ out = [s \in OutSlots |-> NotWritten]
  /\ lse = [r \in Rows |-> NotWritten]

-----------------------------------------------------------------------------
Goto(t, label) == pc' = [pc EXCEPT ![t] = label]

\* __syncthreads: all threads have arrived and all leave.
Barrier(from, to) ==
  /\ \A t \in Threads : pc[t] = from
  /\ pc' = [t \in Threads |-> to]
  /\ UNCHANGED <<params, inputs, s_tile, rows, acc, results>>

\* The thread's share of the Q tile and of the row vectors.
LoadQ(t) ==
  /\ pc[t] = "load_q"
  /\ Goto(t, "q_barrier")
  /\ q_smem' = [q_smem EXCEPT ![t] = TRUE]
  /\ m_row' = [r \in Rows |-> IF r % kThreads = t THEN FALSE ELSE m_row[r]]
  /\ l_row' = [r \in Rows |-> IF r % kThreads = t THEN NoTerms ELSE l_row[r]]
  /\ UNCHANGED <<params, j0, kv_smem, s_tile, alpha_row, acc, results>>

QBarrier == Barrier("q_barrier", "loop") /\ UNCHANGED j0

\* Mutation of LoopEnds: the break compares with the first row of the block.
LoopEndsEarly(t) ==
  \/ j0[t] >= j_tiles
  \/ causal /\ j0[t] * kBlockN > i0 + diagonal

\* Mutation of LoopEnds: each warp breaks for the last row it owns.
LoopEndsPerWarp(t) ==
  \/ j0[t] >= j_tiles
  \/ causal /\ j0[t] * kBlockN > i0 + (t \div kLanes) + diagonal

\* The loop condition and the causal break.
LoopEnds(t) ==
  \/ j0[t] >= j_tiles
  \/ causal /\ j0[t] * kBlockN > i0 + kBlockM - 1 + diagonal

\* The thread's share of the K and V tile; rows beyond seq_kv are stored as zeros.
LoadTile(t) ==
  /\ pc[t] = "loop"
  /\ ~LoopEnds(t)
  /\ Goto(t, "load_barrier")
  /\ kv_smem' = [kv_smem EXCEPT ![t] = j0[t]]
  /\ UNCHANGED <<params, j0, q_smem, s_tile, rows, acc, results>>

LoadBarrier == Barrier("load_barrier", "scores") /\ UNCHANGED j0

Masked(row, col) ==
  \/ col >= seq_kv
  \/ causal /\ col > i0 + row + diagonal

\* Every share of Q and of tile j is in shared memory.
TileLoaded(j) == \A u \in Threads : q_smem[u] /\ kv_smem[u] = j

\* S = Q K^T, scaled and masked, for the thread's cells.  A score computed from
\* something other than tile j0 is marked as belonging to no tile.
Scores(t) ==
  /\ pc[t] = "scores"
  /\ Goto(t, "scores_barrier")
  /\ s_tile' = [c \in Cells |->
       IF c % kThreads = t
         THEN [tile |-> IF TileLoaded(j0[t]) THEN j0[t] ELSE NoTile,
               kind |-> "score",
               kept |-> ~Masked(c \div kBlockN, j0[t] * kBlockN + (c % kBlockN))]
         ELSE s_tile[c]]
  /\ UNCHANGED <<params, j0, inputs, rows, acc, results>>

\* Mutation of ScoresBarrier: the barrier is missing, each thread passes alone.
NoScoresBarrier ==
  /\ \E t \in Threads : pc[t] = "scores_barrier" /\ Goto(t, "softmax")
  /\ UNCHANGED <<params, j0, inputs, s_tile, rows, acc, results>>

ScoresBarrier == Barrier("scores_barrier", "softmax") /\ UNCHANGED j0

\* What a pass over a row of s_tile adds up: the columns of tile j that are not masked,
\* and garbage if a cell does not hold what the pass expects.
Summed(row, j, kind) ==
  LET cell(col) == s_tile[row * kBlockN + col]
      stale(col) == cell(col).tile # j \/ cell(col).kind # kind
      adds(k) == IF k = Garbage THEN \E col \in Columns : stale(col)
                 ELSE k \div kBlockN = j /\ cell(k % kBlockN).kept /\ ~stale(k % kBlockN)
  IN [k \in Terms |-> IF adds(k) THEN 1 ELSE 0]

\* alpha * sum + part: alpha is 0 while nothing was visible, exp2(m_old - m_new) otherwise.
Rescaled(alpha, sum, part) == [k \in Terms |-> (IF alpha THEN sum[k] ELSE 0) + part[k]]

\* The online softmax of the rows of one warp.  The shuffles of WarpMax and WarpSum keep
\* its lanes together, and lane 0 stores the row vectors after the last one.
Softmax(w) ==
  LET mine == {r \in Rows : r % kWarps = w}
      j == j0[w * kLanes]
      m_new(r) == m_row[r] \/ Summed(r, j, "score") # NoTerms
      alpha(r) == m_row[r] /\ m_new(r)
  IN
  /\ \A t \in Lanes(w) : pc[t] = "softmax"
  /\ pc' = [t \in Threads |-> IF t \in Lanes(w) THEN "softmax_barrier" ELSE pc[t]]
  /\ s_tile' = [c \in Cells |->
       IF c \div kBlockN \in mine THEN [s_tile[c] EXCEPT !.kind = "prob"] ELSE s_tile[c]]
  /\ l_row' = [r \in Rows |->
       IF r \in mine THEN Rescaled(alpha(r), l_row[r], Summed(r, j, "score")) ELSE l_row[r]]
  /\ m_row' = [r \in Rows |-> IF r \in mine THEN m_new(r) ELSE m_row[r]]
  /\ alpha_row' = [r \in Rows |-> IF r \in mine THEN alpha(r) ELSE alpha_row[r]]
  /\ UNCHANGED <<params, j0, inputs, acc, results>>

SoftmaxBarrier == Barrier("softmax_barrier", "product") /\ UNCHANGED j0

\* O = alpha O + P V for the thread's slots.
Product(t) ==
  LET PV(row) == IF TileLoaded(j0[t]) THEN Summed(row, j0[t], "prob")
                                      ELSE [NoTerms EXCEPT ![Garbage] = 1]
  IN
  /\ pc[t] = "product"
  /\ Goto(t, "product_barrier")
  /\ acc' = [s \in OutSlots |->
       IF s % kThreads = t
         THEN LET row == s \div kSlotsPerRow IN Rescaled(alpha_row[row], acc[s], PV(row))
         ELSE acc[s]]
  /\ UNCHANGED <<params, j0, inputs, s_tile, rows, results>>

ProductBarrier ==
  /\ Barrier("product_barrier", "loop")
  /\ j0' = [t \in Threads |-> j0[t] + 1]

\* Rows beyond seq_q are not stored.
Epilogue(t) ==
  /\ pc[t] = "loop"
  /\ LoopEnds(t)
  /\ Goto(t, "done")
  /\ out' = [s \in OutSlots |->
       LET row == s \div kSlotsPerRow IN
       IF s % kThreads = t /\ i0 + row < seq_q
         THEN [num |-> acc[s], den |-> l_row[row]] ELSE out[s]]
  /\ lse' = [r \in Rows |->
       IF r % kThreads = t /\ i0 + r < seq_q THEN [m |-> m_row[r], l |-> l_row[r]] ELSE lse[r]]
  /\ UNCHANGED <<params, j0, inputs, s_tile, rows, acc>>

Step(t) ==
  \/ LoadQ(t)
  \/ LoadTile(t)
  \/ Scores(t)
  \/ Product(t)
  \/ Epilogue(t)

SyncThreads == QBarrier \/ LoadBarrier \/ ScoresBarrier \/ SoftmaxBarrier \/ ProductBarrier

Next ==
  \/ \E t \in Threads : Step(t)
  \/ \E w \in Warps : Softmax(w)
  \/ SyncThreads

Spec == Init /\ [][Next]_vars

\* The hardware keeps every resident warp going and opens a barrier that all threads
\* have reached.
FairSpec ==
  /\ Spec
  /\ \A t \in Threads : WF_vars(Step(t))
  /\ \A w \in Warps : WF_vars(Softmax(w))
  /\ WF_vars(SyncThreads)

-----------------------------------------------------------------------------
BarrierPCs == {"q_barrier", "load_barrier", "scores_barrier", "softmax_barrier", "product_barrier"}

HoldsTile(row, j, kind) ==
  \A col \in Columns : LET c == s_tile[row * kBlockN + col] IN c.tile = j /\ c.kind = kind

\* Whatever the speed of the threads: when a thread enters a phase, everything it is
\* about to read is there, complete, and of the current tile -- the shares of K and V
\* of all threads, the scores of all columns of a row, the probabilities and alpha of
\* the row -- and it stays there until the last reader is through.
ReadsCurrent ==
  \A t \in Threads :
    /\ pc[t] \in {"scores", "product"} => TileLoaded(j0[t])
    /\ pc[t] = "softmax" =>
         \A r \in Rows : r % kWarps = t \div kLanes => HoldsTile(r, j0[t], "score")
    /\ pc[t] = "product" =>
         \A s \in OutSlots : s % kThreads = t => HoldsTile(s \div kSlotsPerRow, j0[t], "prob")

\* No thread waits at one __syncthreads while another waits at a different one, has
\* left the kernel, or runs a different iteration.
BarriersUniform ==
  \A t, u \in Threads : pc[t] \in BarrierPCs =>
    /\ j0[u] = j0[t]
    /\ pc[u] \in BarrierPCs \union {"done"} => pc[u] = pc[t]

\* How many keys a query row sees by the definition of (causal) attention.
VisibleKeys(row) == IF causal THEN i0 + row + 1 + seq_kv - seq_q ELSE seq_kv
EachOnce(n) == [k \in Terms |-> IF k \in 0 .. n - 1 THEN 1 ELSE 0]

\* Every slot of a query row is the sum over exactly the keys the row sees, each once,
\* divided by the sum over the same keys; the log-sum-exp is over them too; and
\* nothing is stored for rows beyond seq_q.
OutputExact ==
  \A t \in Threads : pc[t] = "done" =>
    /\ \A s \in OutSlots : s % kThreads = t =>
         LET row == s \div kSlotsPerRow
             keys == EachOnce(VisibleKeys(row))
         IN out[s] = IF i0 + row < seq_q THEN [num |-> keys, den |-> keys] ELSE NotWritten
    /\ \A r \in Rows : r % kThreads = t =>
         lse[r] = IF i0 + r < seq_q THEN [m |-> TRUE, l |-> EachOnce(VisibleKeys(r))]
                                    ELSE NotWritten

\* Every thread of the block reaches the end of the kernel.
KernelTerminates == <>(\A t \in Threads : pc[t] = "done")
=============================================================================
