-------------------------- MODULE FlashPipelineProofs -------------------------
(***************************************************************************)
(* Proofs about FlashPipeline for every number of warps, every tile size,  *)
(* every pipeline depth kStages >= 2 and every sequence length.            *)
(***************************************************************************)
EXTENDS FlashPipeline, ProofLemmas

BeforeLoop == {"load_q", "q_barrier", "prologue"}
InTile == {"top", "prefetch", "compute", "bottom"}

\* The number of groups thread t has committed when it is at its present label.
Committed(t) ==
  IF pc[t] \in BeforeLoop THEN 0
  ELSE IF pc[t] \in {"compute", "bottom"} THEN j_idx[t] + kStages ELSE j_idx[t] + kStages - 1

\* The number of tiles thread t has folded into its rows.
Folded(t) == IF pc[t] = "bottom" THEN j_idx[t] + 1 ELSE j_idx[t]

TileOfGroup(g) == IF g - 1 < j_tiles THEN g - 1 ELSE NoTile

\* The keys of the first n tiles that row r of t's warp may see.
VisibleKeys(t, r, n) ==
  {col \in 0 .. seq_kv - 1 : /\ col < n * kBlockN
                             /\ causal => col <= Row(t, r) + seq_kv - seq_q}

\* Between two barriers all threads are on the same side, in the same iteration.
PhaseInv ==
  /\ \/ \A t \in Threads : pc[t] \in {"load_q", "q_barrier"}
     \/ \A t \in Threads : pc[t] \in {"prologue", "loop", "top", "done"}
     \/ \A t \in Threads : pc[t] \in {"prefetch", "compute", "bottom"}
  /\ \A t, u \in Threads : j_idx[t] = j_idx[u]

\* Where thread t is in the loop, and that it has not run past the causal break.
LoopInv(t) ==
  /\ pc[t] \in BeforeLoop => j_idx[t] = 0
  /\ pc[t] \in InTile => ~LoopEnds(t)
  /\ pc[t] = "done" => LoopEnds(t)

\* What thread t has committed, and that tile j_idx has landed once t passed the wait.
CopyInv(t) ==
  /\ Len(groups[t]) = Committed(t)
  /\ \A g \in 1 .. Committed(t) : groups[t][g] = TileOfGroup(g)
  /\ landed[t] \subseteq 1 .. Committed(t)
  /\ pc[t] \in InTile => j_idx[t] + 1 \in landed[t]

\* The window of tiles from j_idx to the last one committed is in its buffers.
BufferInv(t) ==
  \A x \in j_idx[t] .. Committed(t) - 1 : x < j_tiles => smem[t][x % kStages] = x

\* The rows of thread t's warp hold the keys of the tiles folded so far.
AccInv(t) == \A r \in WarpRows : acc[t][r] = VisibleKeys(t, r, Folded(t))

ThreadInv(t) == LoopInv(t) /\ CopyInv(t) /\ BufferInv(t) /\ AccInv(t)

IInv ==
  /\ TypeOK
  /\ j_tiles >= kPrefetch
  /\ PhaseInv
  /\ \A t \in Threads : ThreadInv(t)

-----------------------------------------------------------------------------
\* The number of tiles is the ceiling of seq_kv / kBlockN.
LEMMA TileCount ==
  ASSUME seq_kv \in Nat \ {0}
  PROVE  /\ j_tiles \in Nat
         /\ seq_kv <= j_tiles * kBlockN
         /\ (j_tiles - 1) * kBlockN < seq_kv
<1>1. kBlockN \in Nat \ {0}
  BY GeometryAssumption
<1>2. PICK q \in Int, m \in Int : /\ q = (seq_kv + kBlockN - 1) \div kBlockN
                                  /\ m = (seq_kv + kBlockN - 1) % kBlockN
  BY <1>1
<1>3. seq_kv + kBlockN - 1 = kBlockN * q + m /\ m \in 0 .. kBlockN - 1
  BY <1>1, <1>2
<1>4. kBlockN * q >= seq_kv /\ kBlockN * q - kBlockN < seq_kv
  BY <1>1, <1>3
<1>5. q \in Nat
  BY <1>1, <1>4
<1>6. kBlockN * q = q * kBlockN /\ (q - 1) * kBlockN = kBlockN * q - kBlockN
  BY <1>1, <1>5
<1> QED
  BY <1>1, <1>2, <1>4, <1>5, <1>6 DEF j_tiles

\* Multiplication by kBlockN is monotonic.
LEMMA TileBase ==
  ASSUME NEW i \in Int, NEW j \in Int, i <= j
  PROVE  /\ i * kBlockN \in Int
         /\ i * kBlockN <= j * kBlockN
         /\ (i + 1) * kBlockN = i * kBlockN + kBlockN
<1>1. kBlockN \in Nat
  BY GeometryAssumption
<1> QED
  BY <1>1

\* A warp's rows lie within the block's rows.
LEMMA RowInBlock ==
  ASSUME NEW t \in Threads, NEW r \in WarpRows, i0 \in Nat
  PROVE  /\ Row(t, r) \in Nat
         /\ Row(t, 0) \in Nat
         /\ Row(t, 0) <= Row(t, r)
         /\ Row(t, r) <= i0 + kBlockM - 1
<1>1. /\ kWarpsM \in Nat \ {0} /\ kSplitsD \in Nat \ {0} /\ kLanes \in Nat \ {0}
      /\ kWarpRows \in Nat \ {0}
  BY GeometryAssumption
<1>2. PICK M \in Nat : M = kWarpsM * kSplitsD
  BY <1>1
<1>3. t \in Nat /\ t < M * kLanes
  BY <1>1, <1>2 DEF Threads
<1>4. PICK w \in Int, v \in Int : w = t \div kLanes /\ v = t % kLanes
  BY <1>1, <1>3
<1>5. t = kLanes * w + v /\ v \in 0 .. kLanes - 1
  BY <1>1, <1>3, <1>4
<1>6. w \in Nat /\ w < M
  BY <1>1, <1>2, <1>3, <1>5
<1>7. PICK p \in Int, q \in Int : p = w \div kSplitsD /\ q = w % kSplitsD
  BY <1>1, <1>6
<1>8. w = kSplitsD * p + q /\ q \in 0 .. kSplitsD - 1
  BY <1>1, <1>6, <1>7
<1>9. p \in Nat /\ p < kWarpsM
  BY <1>1, <1>2, <1>6, <1>8
<1>10. p * kWarpRows \in Nat /\ p * kWarpRows <= (kWarpsM - 1) * kWarpRows
  BY <1>1, <1>9
<1>11. (kWarpsM - 1) * kWarpRows = kWarpsM * kWarpRows - kWarpRows /\ kWarpsM * kWarpRows \in Nat
  BY <1>1
<1>12. warp_m(t) = p
  BY <1>4, <1>7 DEF warp_m
<1> QED
  BY <1>1, <1>10, <1>11, <1>12 DEF Row, kBlockM, WarpRows

\* Folding one more tile adds the visible keys of that tile and no other: the unmasked
\* fast path and the last partial tile keep exactly what the mask keeps.
LEMMA FoldOne ==
  ASSUME NEW t \in Threads, NEW r \in WarpRows, NEW j \in Nat, TypeOK
  PROVE  VisibleKeys(t, r, j) \union Kept(t, r, j) = VisibleKeys(t, r, j + 1)
<1>1. PICK b \in Int : b = j * kBlockN /\ b >= 0 /\ (j + 1) * kBlockN = b + kBlockN
  BY TileBase, GeometryAssumption
<1>2. PICK row \in Int, row0 \in Int : row = Row(t, r) /\ row0 = Row(t, 0) /\ row0 <= row
  BY RowInBlock DEF TypeOK
<1>3. kBlockN \in Nat \ {0} /\ seq_q \in Nat /\ seq_kv \in Nat /\ causal \in BOOLEAN
  BY GeometryAssumption DEF TypeOK
<1>4. VisibleKeys(t, r, j) =
        {col \in 0 .. seq_kv - 1 : col < b /\ (causal => col <= row + seq_kv - seq_q)}
  BY <1>1, <1>2 DEF VisibleKeys
<1>5. VisibleKeys(t, r, j + 1) =
        {col \in 0 .. seq_kv - 1 : col < b + kBlockN /\ (causal => col <= row + seq_kv - seq_q)}
  BY <1>1, <1>2 DEF VisibleKeys
<1>6. Kept(t, r, j) =
        {col \in b .. b + kBlockN - 1 :
           ~( /\ b + kBlockN <= seq_kv
              /\ ~causal \/ b + kBlockN - 1 <= row0 + (seq_kv - seq_q)) =>
             col < seq_kv /\ (~causal \/ col <= row + (seq_kv - seq_q))}
  BY <1>1, <1>2 DEF Kept, MaskWarpFullyVisible, MaskElementVisible, diagonal
<1>7. ASSUME NEW col \in Int
      PROVE  col \in VisibleKeys(t, r, j + 1) <=>
               col \in VisibleKeys(t, r, j) \/ col \in Kept(t, r, j)
  BY <1>1, <1>2, <1>3, <1>4, <1>5, <1>6
<1>8. /\ VisibleKeys(t, r, j) \subseteq Int /\ VisibleKeys(t, r, j + 1) \subseteq Int
      /\ Kept(t, r, j) \subseteq Int
  BY <1>1, <1>3, <1>4, <1>5, <1>6
<1> QED
  BY <1>7, <1>8

\* When the loop ends, at the last tile or at the causal break, no visible key is left.
LEMMA NothingLeft ==
  ASSUME NEW t \in Threads, NEW r \in WarpRows, TypeOK, LoopEnds(t)
  PROVE  VisibleKeys(t, r, j_idx[t]) =
           {col \in 0 .. seq_kv - 1 : causal => col <= Row(t, r) + seq_kv - seq_q}
<1>1. PICK b \in Int : b = j_idx[t] * kBlockN
  BY TileBase DEF TypeOK
<1>2. /\ j_tiles \in Nat /\ j_idx[t] \in Int /\ seq_kv \in Nat \ {0}
      /\ seq_q \in Nat /\ i0 \in Nat /\ kBlockM \in Int
  BY TileCount, GeometryAssumption DEF TypeOK, kBlockM
<1>3. CASE j_idx[t] >= j_tiles
  <2>1. j_tiles * kBlockN \in Int /\ j_tiles * kBlockN <= b
    BY <1>1, <1>2, <1>3, TileBase
  <2>2. seq_kv <= b
    BY <1>1, <1>2, <2>1, TileCount
  <2> QED
    BY <2>2, <1>1, <1>2 DEF VisibleKeys
<1>4. CASE causal /\ MaskTileFullyMasked(j_idx[t] * kBlockN)
  <2>1. b > i0 + kBlockM - 1 + (seq_kv - seq_q)
    BY <1>1, <1>4 DEF MaskTileFullyMasked, diagonal
  <2>2. Row(t, r) \in Nat /\ Row(t, r) <= i0 + kBlockM - 1
    BY <1>2, RowInBlock
  <2>3. Row(t, r) + seq_kv - seq_q < b
    BY <2>1, <2>2, <1>1, <1>2
  <2>4. ASSUME NEW col \in 0 .. seq_kv - 1
        PROVE  (col < b /\ (causal => col <= Row(t, r) + seq_kv - seq_q))
                 <=> (causal => col <= Row(t, r) + seq_kv - seq_q)
    BY <2>2, <2>3, <1>1, <1>2, <1>4
  <2> QED
    BY <2>4, <1>1 DEF VisibleKeys
<1> QED
  BY <1>3, <1>4 DEF LoopEnds

-----------------------------------------------------------------------------
\* The parameters of the kernel never change.
LEMMA ParamsFixed ==
  ASSUME Next
  PROVE  params' = params
  BY DEF Next, Step, LoadQ, Prologue, BeginTile, Leave, Prefetch, Compute, Land, QBarrier,
         TopBarrier, BottomBarrier, params

\* A step that leaves a thread's part of the state alone leaves its invariant alone.
LEMMA ThreadFrame ==
  ASSUME NEW u \in Threads, ThreadInv(u), params' = params,
         pc'[u] = pc[u], j_idx'[u] = j_idx[u], smem'[u] = smem[u],
         groups'[u] = groups[u], landed'[u] = landed[u], acc'[u] = acc[u]
  PROVE  ThreadInv(u)'
<1>1. seq_q' = seq_q /\ seq_kv' = seq_kv /\ causal' = causal /\ i0' = i0
  BY DEF params
<1>2. j_tiles' = j_tiles /\ diagonal' = diagonal
  BY <1>1 DEF j_tiles, diagonal
<1>3. \A r \in WarpRows : Row(u, r)' = Row(u, r)
  BY <1>1 DEF Row
<1>4. Committed(u)' = Committed(u) /\ Folded(u)' = Folded(u)
  BY DEF Committed, Folded
<1>5. LoopEnds(u)' = LoopEnds(u)
  BY <1>1, <1>2 DEF LoopEnds, MaskTileFullyMasked
<1>6. \A r \in WarpRows, n \in Int : VisibleKeys(u, r, n)' = VisibleKeys(u, r, n)
  BY <1>1, <1>3 DEF VisibleKeys
<1>7. LoopInv(u)'
  BY <1>5 DEF ThreadInv, LoopInv
<1>8. CopyInv(u)'
  BY <1>2, <1>4 DEF ThreadInv, CopyInv, TileOfGroup
<1>9. BufferInv(u)'
  BY <1>2, <1>4 DEF ThreadInv, BufferInv
<1>10. AccInv(u)'
  BY <1>1, <1>3, <1>4 DEF ThreadInv, AccInv, VisibleKeys
<1> QED
  BY <1>7, <1>8, <1>9, <1>10 DEF ThreadInv

\* The inductive invariant holds at launch.
LEMMA InitIInv == Init => IInv
<1> SUFFICES ASSUME Init
             PROVE  IInv
  OBVIOUS
<1>1. /\ kWarpsM \in Nat \ {0} /\ kWarpRows \in Nat \ {0} /\ kBlockN \in Nat \ {0}
      /\ kStages \in Nat /\ kStages >= 2 /\ MaxSeqQ \in Nat /\ MaxSeqKv \in Nat
  BY GeometryAssumption
<1>2. seq_q \in Nat \ {0} /\ seq_kv \in Nat \ {0} /\ causal \in BOOLEAN
  BY <1>1 DEF Init
<1>3. i0 \in Nat
  <2>1. PICK b \in 0 .. (seq_q - 1) \div kBlockM : i0 = b * kBlockM
    BY DEF Init
  <2>2. kBlockM \in Nat \ {0}
    BY <1>1 DEF kBlockM
  <2> QED
    BY <2>1, <2>2, <1>2
<1>4. j_tiles \in Nat
  BY <1>2, TileCount
<1>5. TypeOK
  BY <1>2, <1>3, <1>4 DEF Init, TypeOK, PCs, TilesOrNone, NoTile
<1>6. PhaseInv
  BY DEF Init, PhaseInv
<1>7. ASSUME NEW t \in Threads
      PROVE  ThreadInv(t)
  <2>1. pc[t] = "load_q" /\ j_idx[t] = 0 /\ groups[t] = <<>> /\ landed[t] = {}
    BY DEF Init
  <2>2. Committed(t) = 0 /\ Folded(t) = 0
    BY <2>1 DEF Committed, Folded, BeforeLoop
  <2>3. LoopInv(t)
    BY <2>1 DEF LoopInv, InTile
  <2>4. CopyInv(t)
    BY <2>1, <2>2 DEF CopyInv, InTile
  <2>5. BufferInv(t)
    BY <2>1, <2>2 DEF BufferInv
  <2>6. ASSUME NEW r \in WarpRows
        PROVE  acc[t][r] = VisibleKeys(t, r, 0)
    BY <1>1, <1>2 DEF Init, VisibleKeys
  <2> QED
    BY <2>2, <2>3, <2>4, <2>5, <2>6 DEF ThreadInv, AccInv
<1> QED
  BY <1>5, <1>6, <1>7 DEF IInv, Init

-----------------------------------------------------------------------------
\* The facts every step of the induction starts from.
LEMMA Numbers ==
  ASSUME IInv
  PROVE  /\ kStages \in Nat /\ kStages >= 2 /\ kPrefetch = kStages - 1
         /\ j_tiles \in Nat
         /\ \A t \in Threads : j_idx[t] \in Nat /\ Committed(t) \in Nat
  BY GeometryAssumption, TileCount DEF IInv, TypeOK, Committed, kPrefetch

\* What the parameters determine is fixed with them.
LEMMA ParamsDetermine ==
  ASSUME params' = params
  PROVE  /\ seq_q' = seq_q /\ seq_kv' = seq_kv /\ causal' = causal /\ i0' = i0
         /\ j_tiles' = j_tiles /\ TilesOrNone' = TilesOrNone
         /\ \A g : TileOfGroup(g)' = TileOfGroup(g)
         /\ \A t \in Threads : j_idx'[t] = j_idx[t] => LoopEnds(t)' = LoopEnds(t)
         /\ \A t, r, n : VisibleKeys(t, r, n)' = VisibleKeys(t, r, n)
  BY DEF params, j_tiles, TilesOrNone, TileOfGroup, LoopEnds, MaskTileFullyMasked, diagonal,
         VisibleKeys, Row

\* A step of one thread: what is left to show is that thread's own invariant, the types
\* and that the thread stays on its side of the barriers.
LEMMA OneThread ==
  ASSUME IInv, NEW t \in Threads, params' = params, TypeOK', PhaseInv', ThreadInv(t)',
         \A u \in Threads \ {t} :
           /\ pc'[u] = pc[u] /\ j_idx'[u] = j_idx[u] /\ smem'[u] = smem[u]
           /\ groups'[u] = groups[u] /\ landed'[u] = landed[u] /\ acc'[u] = acc[u]
  PROVE  IInv'
<1>1. (j_tiles >= kPrefetch)'
  BY ParamsDetermine DEF IInv, kPrefetch
<1>2. ASSUME NEW u \in Threads
      PROVE  ThreadInv(u)'
  BY ThreadFrame DEF IInv
<1> QED
  BY <1>1, <1>2 DEF IInv

\* Storing the Q tile touches no K/V buffer.
LEMMA LoadQIInv ==
  ASSUME IInv, NEW t \in Threads, LoadQ(t), params' = params
  PROVE  IInv'
<1>1. TypeOK'
  BY ParamsDetermine DEF IInv, TypeOK, LoadQ, Goto, PCs, copies
<1>2. PhaseInv'
  BY DEF IInv, TypeOK, PhaseInv, LoadQ, Goto
<1>3. pc[t] = "load_q" /\ pc'[t] = "q_barrier"
  BY DEF IInv, TypeOK, LoadQ, Goto
<1>4. Committed(t)' = Committed(t) /\ Folded(t)' = Folded(t)
  BY <1>3 DEF LoadQ, Committed, Folded, BeforeLoop
<1>5. ThreadInv(t)'
  BY <1>3, <1>4, ParamsDetermine DEF IInv, LoadQ, copies, ThreadInv, LoopInv, CopyInv,
     BufferInv, AccInv, BeforeLoop, InTile
<1> QED
  BY <1>1, <1>2, <1>5, OneThread DEF IInv, TypeOK, LoadQ, Goto, copies

\* A thread leaves only when LoopEnds, and nothing else changes.
LEMMA LeaveIInv ==
  ASSUME IInv, NEW t \in Threads, Leave(t), params' = params
  PROVE  IInv'
<1>1. TypeOK'
  BY ParamsDetermine DEF IInv, TypeOK, Leave, Goto, PCs, copies
<1>2. PhaseInv'
  BY DEF IInv, TypeOK, PhaseInv, Leave, Goto
<1>3. pc[t] = "loop" /\ pc'[t] = "done"
  BY DEF IInv, TypeOK, Leave, Goto
<1>4. Committed(t)' = Committed(t) /\ Folded(t)' = Folded(t)
  BY <1>3 DEF Leave, Committed, Folded, BeforeLoop
<1>5. ThreadInv(t)'
  BY <1>3, <1>4, ParamsDetermine DEF IInv, Leave, copies, ThreadInv, LoopInv, CopyInv,
     BufferInv, AccInv, BeforeLoop, InTile
<1> QED
  BY <1>1, <1>2, <1>5, OneThread DEF IInv, TypeOK, Leave, Goto, copies

\* The wait leaves kStages - 2 of the j_idx + kStages - 1 committed groups open, so tile
\* j_idx, copied by group j_idx + 1, has landed.
LEMMA BeginTileIInv ==
  ASSUME IInv, NEW t \in Threads, BeginTile(t), params' = params
  PROVE  IInv'
<1>1. TypeOK'
  BY ParamsDetermine DEF IInv, TypeOK, BeginTile, Goto, PCs, copies
<1>2. PhaseInv'
  BY DEF IInv, TypeOK, PhaseInv, BeginTile, Goto
<1>3. j_idx[t] + 1 \in landed[t]
  <2>1. Len(groups[t]) = j_idx[t] + kStages - 1
    BY DEF IInv, ThreadInv, CopyInv, Committed, BeginTile, BeforeLoop
  <2>2. \A g \in 1 .. Len(groups[t]) - (kStages - 2) : g \in landed[t]
    BY DEF BeginTile, TileWait, CpAsyncWaitGroup
  <2> QED
    BY <2>1, <2>2, Numbers
<1>4. pc'[t] = "top" /\ pc[t] = "loop"
  BY DEF IInv, TypeOK, BeginTile, Goto
<1>5. Committed(t)' = Committed(t) /\ Folded(t)' = Folded(t)
  BY <1>4 DEF BeginTile, Committed, Folded, BeforeLoop
<1>6. ThreadInv(t)'
  BY <1>3, <1>4, <1>5, ParamsDetermine DEF IInv, BeginTile, copies, ThreadInv, LoopInv,
     CopyInv, BufferInv, AccInv, BeforeLoop
<1> QED
  BY <1>1, <1>2, <1>6, OneThread DEF IInv, TypeOK, BeginTile, Goto, copies

\* The prologue fills the first kPrefetch buffers and commits one group for each.
LEMMA PrologueIInv ==
  ASSUME IInv, NEW t \in Threads, Prologue(t), params' = params
  PROVE  IInv'
<1>1. kStages \in Nat /\ kStages >= 2 /\ kPrefetch = kStages - 1 /\ j_tiles \in Nat
  BY Numbers
<1>2. kPrefetch <= j_tiles
  BY DEF IInv
<1>3. pc[t] = "prologue" /\ pc'[t] = "loop" /\ j_idx[t] = 0 /\ j_idx' = j_idx
  BY DEF IInv, TypeOK, Prologue, Goto, ThreadInv, LoopInv, BeforeLoop
<1>4. /\ smem'[t] = [st \in Stages |-> IF st < kPrefetch THEN st ELSE smem[t][st]]
      /\ groups'[t] = [g \in 1 .. kPrefetch |-> g - 1]
      /\ landed'[t] = landed[t] /\ acc'[t] = acc[t]
  BY DEF IInv, TypeOK, Prologue
<1>5. smem'[t] \in [Stages -> TilesOrNone]
  BY <1>1, <1>2, <1>4 DEF IInv, TypeOK, Stages, TilesOrNone
<1>6. groups'[t] \in Seq(TilesOrNone) /\ Len(groups'[t]) = kPrefetch
  <2>1. groups'[t] \in [1 .. kPrefetch -> TilesOrNone]
    BY <1>1, <1>2, <1>4 DEF TilesOrNone
  <2> QED
    BY <2>1, <1>1, FcnIsSeq
<1>7. TypeOK'
  <2>1. /\ pc' \in [Threads -> PCs] /\ j_idx' \in [Threads -> 0 .. j_tiles]
        /\ smem' \in [Threads -> [Stages -> TilesOrNone]]
        /\ groups' \in [Threads -> Seq(TilesOrNone)]
    BY <1>5, <1>6 DEF IInv, TypeOK, Prologue, Goto, PCs
  <2> QED
    BY <2>1, ParamsDetermine DEF IInv, TypeOK, Prologue
<1>8. PhaseInv'
  BY DEF IInv, TypeOK, PhaseInv, Prologue, Goto
<1>9. Committed(t) = 0 /\ Committed(t)' = kPrefetch /\ Folded(t)' = Folded(t)
  BY <1>1, <1>3 DEF Committed, Folded, BeforeLoop
<1>10. LoopInv(t)'
  BY <1>3 DEF LoopInv, BeforeLoop, InTile
<1>11. CopyInv(t)'
  <2>1. landed'[t] \subseteq 1 .. Committed(t)'
    BY <1>1, <1>4, <1>9 DEF IInv, ThreadInv, CopyInv
  <2>2. ASSUME NEW g \in 1 .. kPrefetch
        PROVE  groups'[t][g] = TileOfGroup(g)'
    <3>1. groups'[t][g] = g - 1 /\ g - 1 < j_tiles
      BY <1>1, <1>2, <1>4
    <3> QED
      BY <3>1, ParamsDetermine, Zenon DEF TileOfGroup
  <2> QED
    BY <2>1, <2>2, <1>3, <1>6, <1>9 DEF CopyInv, InTile
<1>12. BufferInv(t)'
  <2>1. ASSUME NEW x \in 0 .. kPrefetch - 1
        PROVE  x % kStages = x /\ x \in Stages /\ x < kPrefetch
    BY <1>1 DEF Stages
  <2> QED
    BY <2>1, <1>3, <1>4, <1>9 DEF BufferInv
<1>13. AccInv(t)'
  BY <1>4, <1>9, ParamsDetermine DEF IInv, ThreadInv, AccInv
<1>14. ThreadInv(t)'
  BY <1>10, <1>11, <1>12, <1>13 DEF ThreadInv
<1> QED
  BY <1>7, <1>8, <1>14, OneThread DEF IInv, TypeOK, Prologue, Goto

\* A landed group is a committed one.
LEMMA LandIInv ==
  ASSUME IInv, NEW t \in Threads, NEW g \in 1 .. Len(groups[t]), Land(t, g),
         params' = params
  PROVE  IInv'
<1>1. landed'[t] = landed[t] \union {g}
  BY DEF IInv, TypeOK, Land
<1>2. Len(groups[t]) = Committed(t) /\ Committed(t) \in Nat
  BY Numbers DEF IInv, ThreadInv, CopyInv
<1>3. Committed(t) <= j_tiles + kPrefetch
  BY Numbers DEF IInv, TypeOK, ThreadInv, LoopInv, LoopEnds, Committed, InTile
<1>4. g \in 1 .. j_tiles + kPrefetch
  BY <1>2, <1>3, Numbers
<1>5. TypeOK'
  <2>1. landed' \in [Threads -> SUBSET (1 .. j_tiles + kPrefetch)]
    BY <1>1, <1>4 DEF IInv, TypeOK, Land
  <2> QED
    BY <2>1, ParamsDetermine DEF IInv, TypeOK, Land, kPrefetch
<1>6. PhaseInv'
  BY DEF IInv, PhaseInv, Land
<1>7. Committed(t)' = Committed(t) /\ Folded(t)' = Folded(t)
  BY DEF Land, Committed, Folded
<1>8. ThreadInv(t)'
  BY <1>1, <1>2, <1>7, ParamsDetermine DEF IInv, Land, ThreadInv, LoopInv, CopyInv,
     BufferInv, AccInv
<1> QED
  BY <1>5, <1>6, <1>8, OneThread DEF IInv, TypeOK, Land

\* The refilled buffer is the one the previous tile used: it holds none of the kStages - 1
\* tiles still ahead.
LEMMA PrefetchIInv ==
  ASSUME IInv, NEW t \in Threads, Prefetch(t), params' = params
  PROVE  IInv'
<1> DEFINE p == j_idx[t] + kStages - 1
           x == IF p < j_tiles THEN p ELSE NoTile
<1>1. /\ kStages \in Nat /\ kStages >= 2 /\ j_tiles \in Nat /\ j_idx[t] \in Nat
      /\ p \in Nat /\ p % kStages \in Stages
  BY Numbers DEF Stages
<1>2. /\ pc[t] = "prefetch" /\ pc'[t] = "compute" /\ j_idx' = j_idx
      /\ landed' = landed /\ acc' = acc
  BY DEF IInv, TypeOK, Prefetch, Goto
<1>3. /\ smem'[t] = [smem[t] EXCEPT ![p % kStages] = IF x = NoTile THEN @ ELSE x]
      /\ groups'[t] = Append(groups[t], x)
  BY DEF IInv, TypeOK, Prefetch
<1>4. x \in TilesOrNone /\ smem[t] \in [Stages -> TilesOrNone]
      /\ groups[t] \in Seq(TilesOrNone)
  BY <1>1 DEF TilesOrNone, IInv, TypeOK
<1>5. smem'[t] \in [Stages -> TilesOrNone] /\ groups'[t] \in Seq(TilesOrNone)
  BY <1>1, <1>3, <1>4
<1>6. TypeOK'
  <2>1. /\ pc' \in [Threads -> PCs]
        /\ smem' \in [Threads -> [Stages -> TilesOrNone]]
        /\ groups' \in [Threads -> Seq(TilesOrNone)]
    BY <1>5 DEF IInv, TypeOK, Prefetch, Goto, PCs
  <2> QED
    BY <2>1, <1>2, ParamsDetermine DEF IInv, TypeOK
<1>7. PhaseInv'
  BY DEF IInv, TypeOK, PhaseInv, Prefetch, Goto
<1>8. Committed(t) = p /\ Committed(t)' = p + 1 /\ Folded(t)' = Folded(t)
  BY <1>1, <1>2 DEF Committed, Folded, BeforeLoop
<1>9. LoopInv(t)'
  BY <1>2, ParamsDetermine DEF IInv, ThreadInv, LoopInv, BeforeLoop, InTile
<1>10. CopyInv(t)'
  <2>1. /\ Len(groups[t]) = p
        /\ \A g \in 1 .. p : groups[t][g] = TileOfGroup(g)
        /\ landed[t] \subseteq 1 .. p
        /\ j_idx[t] + 1 \in landed[t]
    BY <1>2, <1>8 DEF IInv, ThreadInv, CopyInv, InTile
  <2>2. /\ Len(groups'[t]) = p + 1
        /\ \A g \in 1 .. p : groups'[t][g] = groups[t][g]
        /\ groups'[t][p + 1] = x
    BY <2>1, <1>1, <1>3, <1>4
  <2>3. TileOfGroup(p + 1) = x
    BY <1>1 DEF TileOfGroup
  <2> HIDE DEF p, x
  <2>4. ASSUME NEW g \in 1 .. p + 1
        PROVE  groups'[t][g] = TileOfGroup(g)
    <3>1. CASE g = p + 1
      BY <3>1, <2>2, <2>3
    <3>2. CASE g # p + 1
      <4>1. p \in Nat
        BY <1>1
      <4>2. g \in 1 .. p
        BY <4>1, <3>2
      <4> QED
        BY <4>2, <2>1, <2>2
    <3> QED
      BY <3>1, <3>2
  <2>5. landed'[t] \subseteq 1 .. p + 1
    BY <2>1, <1>1, <1>2
  <2> QED
    BY <2>1, <2>2, <2>4, <2>5, <1>2, <1>8, ParamsDetermine DEF CopyInv
<1>11. BufferInv(t)'
  <2>1. ASSUME NEW y \in j_idx[t] .. p, y < j_tiles
        PROVE  smem'[t][y % kStages] = y
    <3>1. y \in Nat /\ y % kStages \in Stages
      BY <1>1 DEF Stages
    <3>2. CASE y = p
      BY <3>2, <2>1, <1>1, <1>3, <1>4 DEF NoTile
    <3>3. CASE y # p
      <4>1. y % kStages # p % kStages
        <5>1. kStages \in Nat \ {0} /\ y - p < kStages /\ p - y < kStages
          BY <3>1, <1>1
        <5> QED
          BY <5>1, <3>1, <3>3, <1>1, SameResidue
      <4>2. smem[t][y % kStages] = y
        BY <3>1, <3>3, <2>1, <1>1, <1>8 DEF IInv, ThreadInv, BufferInv
      <4> QED
        BY <4>1, <4>2, <3>1, <1>3, <1>4
    <3> QED
      BY <3>2, <3>3
  <2> QED
    BY <2>1, <1>1, <1>2, <1>8, ParamsDetermine DEF BufferInv
<1>12. AccInv(t)'
  BY <1>2, <1>8, ParamsDetermine DEF IInv, ThreadInv, AccInv
<1>13. ThreadInv(t)'
  BY <1>9, <1>10, <1>11, <1>12 DEF ThreadInv
<1> QED
  BY <1>6, <1>7, <1>13, OneThread DEF IInv, TypeOK, Prefetch, Goto

\* The tile that is folded is tile j_idx.
LEMMA ComputeIInv ==
  ASSUME IInv, NEW t \in Threads, Compute(t), params' = params
  PROVE  IInv'
<1>1. /\ pc[t] = "compute" /\ pc'[t] = "bottom" /\ j_idx' = j_idx
      /\ smem' = smem /\ groups' = groups /\ landed' = landed
  BY DEF IInv, TypeOK, Compute, Goto, copies
<1>2. acc'[t] = [r \in WarpRows |-> acc[t][r] \union Kept(t, r, j_idx[t])]
  BY DEF IInv, TypeOK, Compute
<1>3. j_idx[t] \in Nat /\ TypeOK
  BY Numbers DEF IInv
<1>4. Folded(t) = j_idx[t] /\ Folded(t)' = j_idx[t] + 1 /\ Committed(t)' = Committed(t)
  BY <1>1 DEF Folded, Committed, BeforeLoop
<1>5. ASSUME NEW r \in WarpRows
      PROVE  acc'[t][r] = VisibleKeys(t, r, j_idx[t] + 1)
  <2>1. acc[t][r] = VisibleKeys(t, r, j_idx[t])
    BY <1>4 DEF IInv, ThreadInv, AccInv
  <2> QED
    BY <2>1, <1>2, <1>3, FoldOne
<1>6. acc'[t] \in [WarpRows -> SUBSET (0 .. seq_kv - 1)]
  BY <1>2, <1>5 DEF VisibleKeys
<1>7. TypeOK'
  <2>1. /\ pc' \in [Threads -> PCs]
        /\ acc' \in [Threads -> [WarpRows -> SUBSET (0 .. seq_kv - 1)]]
    BY <1>6 DEF IInv, TypeOK, Compute, Goto, PCs
  <2> QED
    BY <2>1, <1>1, ParamsDetermine DEF IInv, TypeOK
<1>8. PhaseInv'
  BY DEF IInv, TypeOK, PhaseInv, Compute, Goto
<1>9. LoopInv(t)' /\ CopyInv(t)' /\ BufferInv(t)'
  BY <1>1, <1>4, ParamsDetermine DEF IInv, ThreadInv, LoopInv, CopyInv, BufferInv,
     BeforeLoop, InTile
<1>10. AccInv(t)'
  BY <1>4, <1>5, ParamsDetermine DEF AccInv
<1>11. ThreadInv(t)'
  BY <1>9, <1>10 DEF ThreadInv
<1> QED
  BY <1>1, <1>7, <1>8, <1>11, OneThread DEF IInv, TypeOK, Compute, Goto

\* A barrier moves all threads at once.
LEMMA BarrierIInv ==
  ASSUME IInv, params' = params, QBarrier \/ TopBarrier
  PROVE  IInv'
<1>1. UNCHANGED <<j_idx, smem, groups, landed, acc>>
  BY DEF QBarrier, TopBarrier, copies
<1>2. \/ /\ \A t \in Threads : pc[t] = "q_barrier"
         /\ pc' = [t \in Threads |-> "prologue"]
      \/ /\ \A t \in Threads : pc[t] = "top"
         /\ pc' = [t \in Threads |-> "prefetch"]
  BY DEF QBarrier, TopBarrier
<1>3. TypeOK'
  <2>1. pc' \in [Threads -> PCs]
    BY <1>2 DEF PCs
  <2> QED
    BY <2>1, <1>1, ParamsDetermine DEF IInv, TypeOK
<1>4. PhaseInv'
  BY <1>1, <1>2 DEF IInv, PhaseInv
<1>5. (j_tiles >= kPrefetch)'
  BY ParamsDetermine DEF IInv, kPrefetch
<1>6. ASSUME NEW t \in Threads
      PROVE  ThreadInv(t)'
  <2>1. \/ pc[t] = "q_barrier" /\ pc'[t] = "prologue"
        \/ pc[t] = "top" /\ pc'[t] = "prefetch"
    BY <1>2
  <2>2. Committed(t)' = Committed(t) /\ Folded(t)' = Folded(t)
    BY <2>1, <1>1 DEF Committed, Folded, BeforeLoop
  <2> QED
    BY <2>1, <2>2, <1>1, ParamsDetermine DEF IInv, ThreadInv, LoopInv, CopyInv, BufferInv,
       AccInv, BeforeLoop, InTile
<1> QED
  BY <1>3, <1>4, <1>5, <1>6 DEF IInv

\* The next iteration starts with one tile more folded and one window position further.
LEMMA BottomBarrierIInv ==
  ASSUME IInv, params' = params, BottomBarrier
  PROVE  IInv'
<1>1. /\ UNCHANGED <<smem, groups, landed, acc>>
      /\ pc' = [t \in Threads |-> "loop"]
      /\ j_idx' = [t \in Threads |-> j_idx[t] + 1]
  BY DEF BottomBarrier, copies
<1>2. ASSUME NEW t \in Threads
      PROVE  /\ pc[t] = "bottom" /\ pc'[t] = "loop" /\ j_idx'[t] = j_idx[t] + 1
             /\ j_idx[t] \in Nat /\ j_idx[t] < j_tiles
             /\ Committed(t) \in Nat
             /\ Committed(t)' = Committed(t) /\ Folded(t)' = Folded(t)
  <2>1. pc[t] = "bottom" /\ pc'[t] = "loop" /\ j_idx'[t] = j_idx[t] + 1
    BY <1>1 DEF BottomBarrier
  <2>2. j_idx[t] < j_tiles
    BY <2>1, Numbers DEF IInv, ThreadInv, LoopInv, LoopEnds, InTile
  <2> QED
    BY <2>1, <2>2, Numbers DEF Committed, Folded, BeforeLoop
<1>3. TypeOK'
  <2>1. pc' \in [Threads -> PCs]
    BY <1>1 DEF PCs
  <2>2. j_idx' \in [Threads -> 0 .. j_tiles]
    BY <1>1, <1>2, Numbers
  <2> QED
    BY <2>1, <2>2, <1>1, ParamsDetermine DEF IInv, TypeOK
<1>4. PhaseInv'
  BY <1>1 DEF IInv, PhaseInv
<1>5. (j_tiles >= kPrefetch)'
  BY ParamsDetermine DEF IInv, kPrefetch
<1>6. ASSUME NEW t \in Threads
      PROVE  ThreadInv(t)'
  <2>1. LoopInv(t)'
    BY <1>2 DEF LoopInv, BeforeLoop, InTile
  <2>2. CopyInv(t)'
    BY <1>1, <1>2, ParamsDetermine DEF IInv, ThreadInv, CopyInv, InTile
  <2>3. BufferInv(t)'
    BY <1>1, <1>2, ParamsDetermine DEF IInv, ThreadInv, BufferInv
  <2>4. AccInv(t)'
    BY <1>1, <1>2, ParamsDetermine DEF IInv, ThreadInv, AccInv
  <2> QED
    BY <2>1, <2>2, <2>3, <2>4 DEF ThreadInv
<1> QED
  BY <1>3, <1>4, <1>5, <1>6 DEF IInv

\* Every step of the kernel preserves the inductive invariant.
LEMMA NextIInv == IInv /\ [Next]_vars => IInv'
<1>1. ASSUME IInv, Next
      PROVE  IInv'
  <2>1. params' = params
    BY <1>1, ParamsFixed
  <2>2. CASE \E t \in Threads : Step(t)
    BY <2>1, <2>2, <1>1, LoadQIInv, PrologueIInv, BeginTileIInv, LeaveIInv, PrefetchIInv,
       ComputeIInv DEF Step
  <2>3. CASE \E t \in Threads : \E g \in 1 .. Len(groups[t]) : Land(t, g)
    BY <2>1, <2>3, <1>1, LandIInv
  <2>4. CASE QBarrier \/ TopBarrier
    BY <2>1, <2>4, <1>1, BarrierIInv
  <2>5. CASE BottomBarrier
    BY <2>1, <2>5, <1>1, BottomBarrierIInv
  <2> QED
    BY <2>2, <2>3, <2>4, <2>5, <1>1 DEF Next
<1>2. ASSUME IInv, UNCHANGED vars
      PROVE  IInv'
  <2>1. params' = params
    BY <1>2 DEF vars, params
  <2>2. TypeOK' /\ PhaseInv' /\ (j_tiles >= kPrefetch)'
    BY <2>1, <1>2, ParamsDetermine DEF vars, IInv, TypeOK, PhaseInv, kPrefetch
  <2>3. \A t \in Threads : ThreadInv(t)'
    BY <2>1, <1>2, ThreadFrame DEF vars, IInv
  <2> QED
    BY <2>2, <2>3 DEF IInv
<1> QED
  BY <1>1, <1>2

\* Hence it holds in every reachable state.
LEMMA SpecIInv == Spec => []IInv
  BY InitIInv, NextIInv, PTL DEF Spec

-----------------------------------------------------------------------------
\* Program counters, tile numbers and buffers stay in range, for every geometry.
THEOREM TypeCorrect == Spec => []TypeOK
<1>1. IInv => TypeOK
  BY DEF IInv
<1> QED
  BY <1>1, SpecIInv, PTL

\* No thread computes on a tile of which some thread's share has not landed or has been
\* overwritten: the wait count, the two barriers and the buffer rotation are right for
\* every depth kStages >= 2 of the pipeline.
THEOREM TileReadyHolds == Spec => []TileReady
<1>1. ASSUME IInv
      PROVE  TileReady
  <2>1. SUFFICES ASSUME NEW t \in Threads, NEW u \in Threads, pc[t] = "compute"
                 PROVE  /\ smem[u][j_idx[t] % kStages] = j_idx[t]
                        /\ HasLanded(u, j_idx[t])
    BY DEF TileReady
  <2>2. pc[u] \in {"prefetch", "compute", "bottom"} /\ j_idx[u] = j_idx[t]
    BY <2>1, <1>1 DEF IInv, PhaseInv
  <2>3. /\ kStages \in Nat /\ kStages >= 2 /\ j_tiles \in Nat /\ j_idx[u] \in Nat
        /\ Committed(u) \in Nat
    BY <1>1, Numbers
  <2>4. j_idx[u] < j_tiles
    BY <2>2, <2>3, <1>1 DEF IInv, ThreadInv, LoopInv, LoopEnds, InTile
  <2>5. Committed(u) >= j_idx[u] + 1
    BY <2>2, <2>3 DEF Committed, BeforeLoop
  <2>6. smem[u][j_idx[u] % kStages] = j_idx[u]
    BY <2>3, <2>4, <2>5, <1>1 DEF IInv, ThreadInv, BufferInv
  <2>7. j_idx[u] + 1 \in landed[u]
    BY <2>2, <1>1 DEF IInv, ThreadInv, CopyInv, InTile
  <2>8. groups[u][j_idx[u] + 1] = TileOfGroup(j_idx[u] + 1)
    BY <2>3, <2>5, <1>1 DEF IInv, ThreadInv, CopyInv
  <2>9. TileOfGroup(j_idx[u] + 1) = j_idx[u]
    BY <2>3, <2>4 DEF TileOfGroup
  <2> QED
    BY <2>2, <2>6, <2>7, <2>8, <2>9 DEF HasLanded
<1> QED
  BY <1>1, SpecIInv, PTL

\* The causal break is uniform: threads waiting at a __syncthreads wait at the same one,
\* in the same iteration, and none has left the kernel.
THEOREM BarriersUniformHolds == Spec => []BarriersUniform
<1>1. ASSUME IInv
      PROVE  BarriersUniform
  <2>1. ASSUME NEW t \in Threads, NEW u \in Threads, pc[t] = "top", pc[u] = "done"
        PROVE  FALSE
    <3>1. ~LoopEnds(t) /\ LoopEnds(u)
      BY <2>1, <1>1 DEF IInv, ThreadInv, LoopInv, InTile
    <3>2. j_idx[t] = j_idx[u]
      BY <1>1 DEF IInv, PhaseInv
    <3> QED
      BY <3>1, <3>2 DEF LoopEnds
  <2> QED
    BY <2>1, <1>1 DEF BarriersUniform, IInv, PhaseInv
<1> QED
  BY <1>1, SpecIInv, PTL

\* A row that reaches the epilogue has folded in exactly the keys that (causal) attention
\* gives it, for every tile size and every pair of sequence lengths.
THEOREM OutputExactHolds == Spec => []OutputExact
<1>1. ASSUME IInv
      PROVE  OutputExact
  <2>1. ASSUME NEW t \in Threads, pc[t] = "done", NEW r \in WarpRows
        PROVE  acc[t][r] =
                 {col \in 0 .. seq_kv - 1 : causal => col <= Row(t, r) + seq_kv - seq_q}
    <3>1. LoopEnds(t) /\ TypeOK
      BY <2>1, <1>1 DEF IInv, ThreadInv, LoopInv
    <3>2. acc[t][r] = VisibleKeys(t, r, j_idx[t])
      BY <2>1, <1>1 DEF IInv, ThreadInv, AccInv, Folded
    <3> QED
      BY <3>1, <3>2, NothingLeft
  <2> QED
    BY <2>1 DEF OutputExact
<1> QED
  BY <1>1, SpecIInv, PTL
=============================================================================
