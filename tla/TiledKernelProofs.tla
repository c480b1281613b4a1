--------------------------- MODULE TiledKernelProofs --------------------------
(***************************************************************************)
(* Proofs about TiledKernel for every number of warps and lanes, every     *)
(* tile and output size, and every sequence length.                        *)
(***************************************************************************)
EXTENDS TiledKernel, ProofLemmas

Labels == {"load_q", "loop", "scores", "softmax", "product", "done"} \union BarrierPCs
Sums == [Terms -> Nat]

TileTypes ==
  /\ seq_q \in Nat \ {0} /\ seq_kv \in 1 .. MaxSeqKv /\ i0 \in Nat
  /\ causal \in BOOLEAN /\ (causal => seq_kv >= seq_q)
  /\ pc \in [Threads -> Labels] /\ j0 \in [Threads -> Nat]
  /\ q_smem \in [Threads -> BOOLEAN] /\ kv_smem \in [Threads -> Int]
  /\ s_tile \in [Cells -> [tile : Int, kind : {"none", "score", "prob"}, kept : BOOLEAN]]
  /\ m_row \in [Rows -> BOOLEAN] /\ l_row \in [Rows -> Sums]
  /\ alpha_row \in [Rows -> BOOLEAN] /\ acc \in [OutSlots -> Sums]
  /\ out = [s \in OutSlots |-> out[s]] /\ lse = [r \in Rows |-> lse[r]]

RowOf(s) == s \div kSlotsPerRow

\* The keys of the first n tiles that a row sees, each once.
Taken(row, n) ==
  [k \in Terms |-> IF k \in Keys /\ k < n * kBlockN /\ ~Masked(row, k) THEN 1 ELSE 0]

\* The row vectors and an output slot after n tiles, and a cell of tile n.
RowAt(r, n) == (m_row[r] <=> n > 0) /\ l_row[r] = Taken(r, n)
SlotAt(s, n) == acc[s] = Taken(RowOf(s), n)
Holds(c, n, kind) ==
  s_tile[c] = [tile |-> n, kind |-> kind,
               kept |-> ~Masked(c \div kBlockN, n * kBlockN + (c % kBlockN))]

\* What thread t leaves in global memory.
Stored(t) ==
  /\ \A s \in OutSlots : s % kThreads = t /\ i0 + RowOf(s) < seq_q =>
       out[s] = [num |-> Taken(RowOf(s), j0[t]), den |-> Taken(RowOf(s), j0[t])]
  /\ \A r \in Rows : r % kThreads = t /\ i0 + r < seq_q =>
       lse[r] = [m |-> (j0[t] > 0), l |-> Taken(r, j0[t])]

\* Between two barriers all threads are in one of five phases.
LoadingQ(n) ==
  /\ n = 0
  /\ \A t \in Threads : pc[t] \in {"load_q", "q_barrier"}
  /\ \A t \in Threads : pc[t] = "q_barrier" => q_smem[t]
  /\ \A r \in Rows : pc[r % kThreads] = "q_barrier" => RowAt(r, 0)
  /\ \A s \in OutSlots : SlotAt(s, 0)

AtLoop(n) ==
  /\ \A t \in Threads : pc[t] \in {"loop", "load_barrier", "done"} /\ q_smem[t]
  /\ \A t \in Threads : pc[t] = "load_barrier" => ~LoopEnds(t) /\ kv_smem[t] = n
  /\ \A t \in Threads : pc[t] = "done" => LoopEnds(t) /\ Stored(t)
  /\ \A r \in Rows : RowAt(r, n)
  /\ \A s \in OutSlots : SlotAt(s, n)

InScores(n) ==
  /\ \A t \in Threads : pc[t] \in {"scores", "scores_barrier"}
  /\ TileLoaded(n)
  /\ \A c \in Cells : pc[c % kThreads] = "scores_barrier" => Holds(c, n, "score")
  /\ \A r \in Rows : RowAt(r, n)
  /\ \A s \in OutSlots : SlotAt(s, n)

InSoftmax(n) ==
  /\ \A t \in Threads : pc[t] \in {"softmax", "softmax_barrier"}
  /\ TileLoaded(n)
  /\ \A t \in Threads, r \in Rows : r % kWarps = t \div kLanes =>
       /\ pc[t] = "softmax" =>
            RowAt(r, n) /\ \A c \in Cells : c \div kBlockN = r => Holds(c, n, "score")
       /\ pc[t] = "softmax_barrier" =>
            /\ RowAt(r, n + 1) /\ (alpha_row[r] <=> n > 0)
            /\ \A c \in Cells : c \div kBlockN = r => Holds(c, n, "prob")
  /\ \A s \in OutSlots : SlotAt(s, n)

InProduct(n) ==
  /\ \A t \in Threads : pc[t] \in {"product", "product_barrier"}
  /\ TileLoaded(n)
  /\ \A r \in Rows : RowAt(r, n + 1) /\ (alpha_row[r] <=> n > 0)
  /\ \A c \in Cells : Holds(c, n, "prob")
  /\ \A s \in OutSlots : SlotAt(s, IF pc[s % kThreads] = "product" THEN n ELSE n + 1)

Phase(n) == LoadingQ(n) \/ AtLoop(n) \/ InScores(n) \/ InSoftmax(n) \/ InProduct(n)

\* Nothing is stored for rows beyond seq_q.
PaddingUnwritten ==
  /\ \A s \in OutSlots : i0 + RowOf(s) >= seq_q => out[s] = NotWritten
  /\ \A r \in Rows : i0 + r >= seq_q => lse[r] = NotWritten

IInv ==
  /\ TileTypes
  /\ PaddingUnwritten
  /\ \E n \in Nat : (\A t \in Threads : j0[t] = n) /\ Phase(n)

-----------------------------------------------------------------------------
\* The sizes are positive numbers.
LEMMA Sizes ==
  /\ kWarps \in Nat \ {0} /\ kLanes \in Nat \ {0} /\ kThreads \in Nat \ {0}
  /\ kBlockM \in Nat \ {0} /\ kBlockN \in Nat \ {0} /\ kSlotsPerRow \in Nat \ {0}
<1>1. /\ kWarps \in Nat \ {0} /\ kLanes \in Nat \ {0}
      /\ kBlockM \in Nat \ {0} /\ kBlockN \in Nat \ {0} /\ kSlotsPerRow \in Nat \ {0}
  BY TileAssumption
<1>2. kWarps * kLanes \in Nat \ {0}
  BY <1>1
<1> QED
  BY <1>1, <1>2 DEF kThreads

\* Every element, row, slot and cell has a thread, and every thread a warp.
LEMMA Owners ==
  /\ \A x \in Nat : x % kThreads \in Threads
  /\ \A s \in OutSlots : s \in Nat /\ RowOf(s) \in Rows
  /\ \A c \in Cells : c \in Nat /\ c \div kBlockN \in Rows /\ c % kBlockN \in Columns
  /\ \A r \in Rows : r \in Nat /\ r % kWarps \in Warps
  /\ \A t \in Threads : t \in Nat /\ t \div kLanes \in Warps
<1>1. \A x \in Nat : x % kThreads \in Threads
  BY Sizes, DivMod DEF Threads
<1>2. ASSUME NEW s \in OutSlots
      PROVE  s \in Nat /\ RowOf(s) \in Rows
  <2>1. s \in 0 .. kBlockM * kSlotsPerRow - 1
    BY DEF OutSlots
  <2>2. s \div kSlotsPerRow \in 0 .. kBlockM - 1
    BY <2>1, Sizes, DivBelow
  <2> QED
    BY <2>1, <2>2 DEF RowOf, Rows
<1>3. ASSUME NEW c \in Cells
      PROVE  c \in Nat /\ c \div kBlockN \in Rows /\ c % kBlockN \in Columns
  <2>1. c \in 0 .. kBlockM * kBlockN - 1 /\ c \in Nat
    BY DEF Cells
  <2>2. c \div kBlockN \in 0 .. kBlockM - 1
    BY <2>1, Sizes, DivBelow
  <2>3. c % kBlockN \in 0 .. kBlockN - 1
    BY <2>1, Sizes, DivMod
  <2> QED
    BY <2>1, <2>2, <2>3 DEF Rows, Columns
<1>4. ASSUME NEW r \in Rows
      PROVE  r \in Nat /\ r % kWarps \in Warps
  BY Sizes, DivMod DEF Rows, Warps
<1>5. ASSUME NEW t \in Threads
      PROVE  t \in Nat /\ t \div kLanes \in Warps
  <2>1. t \in 0 .. kWarps * kLanes - 1
    BY DEF Threads, kThreads
  <2>2. t \div kLanes \in 0 .. kWarps - 1
    BY <2>1, Sizes, DivBelow
  <2> QED
    BY <2>1, <2>2 DEF Warps
<1> QED
  BY <1>1, <1>2, <1>3, <1>4, <1>5

\* The first lane of a warp is one of its threads.
LEMMA FirstLane ==
  ASSUME NEW w \in Warps
  PROVE  w * kLanes \in Threads /\ w * kLanes \in Lanes(w)
<1>1. /\ w * kLanes + 0 \in 0 .. kWarps * kLanes - 1
      /\ (w * kLanes + 0) \div kLanes = w
  BY Sizes, RowMajor DEF Warps
<1>2. w * kLanes + 0 = w * kLanes
  BY Sizes DEF Warps
<1> QED
  BY <1>1, <1>2 DEF Threads, kThreads, Lanes

\* The cell of a row and a column.
LEMMA CellOf ==
  ASSUME NEW row \in Rows, NEW col \in Columns
  PROVE  /\ row * kBlockN + col \in Cells
         /\ (row * kBlockN + col) \div kBlockN = row
         /\ (row * kBlockN + col) % kBlockN = col
  BY Sizes, RowMajor DEF Rows, Columns, Cells

\* The keys of tile n that a row sees.
TileTerms(row, n) ==
  [k \in Terms |-> IF k \in Keys /\ k \div kBlockN = n /\ ~Masked(row, k) THEN 1 ELSE 0]

\* A pass over a row whose cells are all current adds up exactly the keys of the tile
\* that the row sees.
LEMMA SummedExact ==
  ASSUME NEW row \in Rows, NEW n \in Nat, NEW kind,
         \A c \in Cells : c \div kBlockN = row => Holds(c, n, kind)
  PROVE  Summed(row, n, kind) = TileTerms(row, n)
<1> DEFINE cell(col) == s_tile[row * kBlockN + col]
           stale(col) == cell(col).tile # n \/ cell(col).kind # kind
           adds(k) == IF k = Garbage THEN \E col \in Columns : stale(col)
                      ELSE k \div kBlockN = n /\ cell(k % kBlockN).kept /\ ~stale(k % kBlockN)
<1>1. ASSUME NEW col \in Columns
      PROVE  cell(col) = [tile |-> n, kind |-> kind, kept |-> ~Masked(row, n * kBlockN + col)]
  BY CellOf DEF Holds
<1>2. ASSUME NEW col \in Columns
      PROVE  ~stale(col) /\ (cell(col).kept <=> ~Masked(row, n * kBlockN + col))
  <2>1. PICK b \in BOOLEAN : b <=> ~Masked(row, n * kBlockN + col)
    OBVIOUS
  <2>2. cell(col) = [tile |-> n, kind |-> kind, kept |-> b]
    BY <1>1, <2>1
  <2>3. cell(col).tile = n /\ cell(col).kind = kind /\ cell(col).kept = b
    BY <2>2
  <2> QED
    BY <2>1, <2>3
<1>3. ASSUME NEW k \in Terms
      PROVE  adds(k) <=> (k \in Keys /\ k \div kBlockN = n /\ ~Masked(row, k))
  <2>1. CASE k = Garbage
    <3>1. k \notin Keys
      BY <2>1 DEF Keys, Garbage
    <3>2. ~adds(k)
      BY <2>1, <1>2
    <3> QED
      BY <3>1, <3>2
  <2>2. CASE k # Garbage
    <3>1. k \in Keys /\ k \in Nat
      BY <2>2 DEF Terms, Keys
    <3>2. /\ k \div kBlockN \in Nat /\ k % kBlockN \in 0 .. kBlockN - 1
          /\ k = kBlockN * (k \div kBlockN) + (k % kBlockN)
      BY <3>1, Sizes, DivMod
    <3>3. PICK q \in Nat, r \in 0 .. kBlockN - 1 :
            q = k \div kBlockN /\ r = k % kBlockN /\ k = kBlockN * q + r
      BY <3>2
    <3>4. r \in Columns
      BY DEF Columns
    <3>5. q = n => n * kBlockN + r = k
      BY <3>3, Sizes
    <3>6. adds(k) <=> (q = n /\ ~Masked(row, n * kBlockN + r))
      BY <2>2, <3>3, <3>4, <1>2
    <3> QED
      BY <3>1, <3>3, <3>5, <3>6
  <2> QED
    BY <2>1, <2>2
<1>4. Summed(row, n, kind) = [k \in Terms |-> IF adds(k) THEN 1 ELSE 0]
  BY DEF Summed
<1> HIDE DEF adds
<1> QED
  BY <1>3, <1>4 DEF TileTerms

\* Adding a tile to the sum of the tiles before it.
LEMMA AddTile ==
  ASSUME NEW row \in Rows, NEW n \in Nat
  PROVE  Rescaled(n > 0, Taken(row, n), TileTerms(row, n)) = Taken(row, n + 1)
<1>1. ASSUME NEW k \in Terms
      PROVE  (IF n > 0 THEN Taken(row, n)[k] ELSE 0) + TileTerms(row, n)[k]
               = Taken(row, n + 1)[k]
  <2>1. CASE k \notin Keys
    BY <2>1 DEF Taken, TileTerms
  <2>2. CASE k \in Keys
    <3>1. k \in Nat
      BY <2>2 DEF Keys
    <3>2. /\ k \div kBlockN \in Nat /\ k % kBlockN \in 0 .. kBlockN - 1
          /\ k = kBlockN * (k \div kBlockN) + (k % kBlockN)
      BY <3>1, Sizes, DivMod
    <3>3. PICK q \in Nat, r \in 0 .. kBlockN - 1 :
            q = k \div kBlockN /\ k = kBlockN * q + r
      BY <3>2
    <3>4. ASSUME NEW m \in Nat
          PROVE  k < m * kBlockN <=> q < m
      <4>1. kBlockN * (m - q) = m * kBlockN - kBlockN * q
        BY Sizes
      <4>2. CASE q < m
        <5>1. kBlockN * (m - q) >= kBlockN
          BY <4>2, Sizes
        <5> QED
          BY <4>1, <4>2, <5>1, <3>3, Sizes
      <4>3. CASE ~(q < m)
        <5>1. kBlockN * (m - q) <= 0
          BY <4>3, Sizes
        <5> QED
          BY <4>1, <4>3, <5>1, <3>3, Sizes
      <4> QED
        BY <4>2, <4>3
    <3>5. (k < n * kBlockN <=> q < n) /\ (k < (n + 1) * kBlockN <=> q < n + 1)
      BY <3>4
    <3>6. /\ Taken(row, n)[k] = IF q < n /\ ~Masked(row, k) THEN 1 ELSE 0
          /\ Taken(row, n + 1)[k] = IF q < n + 1 /\ ~Masked(row, k) THEN 1 ELSE 0
          /\ TileTerms(row, n)[k] = IF q = n /\ ~Masked(row, k) THEN 1 ELSE 0
      BY <2>2, <3>3, <3>5 DEF Taken, TileTerms
    <3> QED
      BY <3>6
  <2> QED
    BY <2>1, <2>2
<1>2. Taken(row, n + 1) = [k \in Terms |-> Taken(row, n + 1)[k]]
  BY DEF Taken
<1> QED
  BY <1>1, <1>2 DEF Rescaled

\* Every row sees the first key.
LEMMA FirstKey ==
  ASSUME TileTypes, NEW row \in Rows
  PROVE  TileTerms(row, 0) # NoTerms
<1>1. 0 \in Keys /\ 0 \in Terms
  BY TileAssumption, Sizes DEF Keys, Terms
<1>2. 0 \div kBlockN = 0
  BY Sizes, DivUnique
<1>3. ~Masked(row, 0)
  <2>1. seq_kv \in Nat /\ seq_kv >= 1 /\ i0 \in Nat /\ row \in Nat /\ seq_q \in Nat
    BY Owners, TileAssumption DEF TileTypes
  <2> QED
    BY <2>1 DEF Masked, diagonal, TileTypes
<1>4. TileTerms(row, 0)[0] = 1 /\ NoTerms[0] = 0
  BY <1>1, <1>2, <1>3 DEF TileTerms, NoTerms
<1> QED
  BY <1>4

\* No tile taken means no key taken.
LEMMA TakenNone ==
  ASSUME NEW row \in Rows
  PROVE  Taken(row, 0) = NoTerms
<1>1. \A k \in Terms : ~(k \in Keys /\ k < 0 * kBlockN)
  BY Sizes DEF Keys
<1> QED
  BY <1>1 DEF Taken, NoTerms

\* Sums of counts are counts.
LEMMA SumTypes ==
  /\ NoTerms \in Sums
  /\ [NoTerms EXCEPT ![Garbage] = 1] \in Sums
  /\ \A row, j, kind : Summed(row, j, kind) \in Sums
  /\ \A alpha \in BOOLEAN, a \in Sums, b \in Sums : Rescaled(alpha, a, b) \in Sums
<1>1. NoTerms \in Sums /\ [NoTerms EXCEPT ![Garbage] = 1] \in Sums
  BY DEF NoTerms, Sums
<1>2. ASSUME NEW row, NEW j, NEW kind
      PROVE  Summed(row, j, kind) \in Sums
  BY DEF Summed, Sums
<1>3. ASSUME NEW alpha \in BOOLEAN, NEW a \in Sums, NEW b \in Sums
      PROVE  Rescaled(alpha, a, b) \in Sums
  BY DEF Rescaled, Sums
<1> QED
  BY <1>1, <1>2, <1>3

-----------------------------------------------------------------------------
\* The label of one thread tells the phase of all.
LEMMA PhaseOf ==
  ASSUME NEW n \in Nat, Phase(n), NEW t \in Threads
  PROVE  /\ pc[t] \in {"load_q", "q_barrier"} => LoadingQ(n)
         /\ pc[t] \in {"loop", "load_barrier", "done"} => AtLoop(n)
         /\ pc[t] \in {"scores", "scores_barrier"} => InScores(n)
         /\ pc[t] \in {"softmax", "softmax_barrier"} => InSoftmax(n)
         /\ pc[t] \in {"product", "product_barrier"} => InProduct(n)
<1>1. CASE LoadingQ(n)
  <2>1. pc[t] \in {"load_q", "q_barrier"}
    BY <1>1 DEF LoadingQ
  <2> QED
    BY <1>1, <2>1
<1>2. CASE AtLoop(n)
  <2>1. pc[t] \in {"loop", "load_barrier", "done"}
    BY <1>2 DEF AtLoop
  <2> QED
    BY <1>2, <2>1
<1>3. CASE InScores(n)
  <2>1. pc[t] \in {"scores", "scores_barrier"}
    BY <1>3 DEF InScores
  <2> QED
    BY <1>3, <2>1
<1>4. CASE InSoftmax(n)
  <2>1. pc[t] \in {"softmax", "softmax_barrier"}
    BY <1>4 DEF InSoftmax
  <2> QED
    BY <1>4, <2>1
<1>5. CASE InProduct(n)
  <2>1. pc[t] \in {"product", "product_barrier"}
    BY <1>5 DEF InProduct
  <2> QED
    BY <1>5, <2>1
<1> QED
  BY <1>1, <1>2, <1>3, <1>4, <1>5 DEF Phase

\* What a row sees depends on the kernel's parameters only.
LEMMA SameParams ==
  ASSUME UNCHANGED params
  PROVE  /\ \A row, k : Masked(row, k)' = Masked(row, k)
         /\ \A row, n : Taken(row, n)' = Taken(row, n)
<1>1. UNCHANGED <<seq_q, seq_kv, causal, i0>>
  BY DEF params
<1> QED
  BY <1>1 DEF Masked, Taken, diagonal

\* One thread stores its share of Q and of the row vectors.
LEMMA LoadQIInv ==
  ASSUME IInv, NEW t \in Threads, LoadQ(t)
  PROVE  IInv'
<1>1. PICK n \in Nat : (\A u \in Threads : j0[u] = n) /\ Phase(n)
  BY DEF IInv
<1>2. TileTypes /\ PaddingUnwritten
  BY DEF IInv
<1>3. /\ pc[t] = "load_q" /\ pc' = [pc EXCEPT ![t] = "q_barrier"]
      /\ q_smem' = [q_smem EXCEPT ![t] = TRUE]
      /\ m_row' = [r \in Rows |-> IF r % kThreads = t THEN FALSE ELSE m_row[r]]
      /\ l_row' = [r \in Rows |-> IF r % kThreads = t THEN NoTerms ELSE l_row[r]]
      /\ UNCHANGED <<seq_q, seq_kv, causal, i0, j0, kv_smem, s_tile, alpha_row, acc, out, lse>>
  BY DEF LoadQ, Goto, params, results
<1>4. LoadingQ(n)
  BY <1>1, <1>3, PhaseOf
<1>5. /\ \A row, k : Masked(row, k)' = Masked(row, k)
      /\ \A row, m : Taken(row, m)' = Taken(row, m)
  BY <1>3, SameParams DEF params
<1>6. TileTypes'
  <2>1. pc' \in [Threads -> Labels] /\ q_smem' \in [Threads -> BOOLEAN]
    BY <1>2, <1>3 DEF TileTypes, Labels, BarrierPCs
  <2>2. m_row' \in [Rows -> BOOLEAN] /\ l_row' \in [Rows -> Sums]
    BY <1>2, <1>3, SumTypes DEF TileTypes
  <2> QED
    BY <1>2, <1>3, <2>1, <2>2 DEF TileTypes
<1>7. PaddingUnwritten'
  BY <1>2, <1>3 DEF PaddingUnwritten
<1>8. LoadingQ(n)'
  <2>1. n = 0 /\ \A u \in Threads : pc'[u] \in {"load_q", "q_barrier"}
    BY <1>2, <1>3, <1>4 DEF LoadingQ, TileTypes
  <2>2. \A u \in Threads : pc'[u] = "q_barrier" => q_smem'[u]
    BY <1>2, <1>3, <1>4 DEF LoadingQ, TileTypes
  <2>3. ASSUME NEW r \in Rows, pc'[r % kThreads] = "q_barrier"
        PROVE  RowAt(r, 0)'
    <3>1. r % kThreads \in Threads
      BY Owners
    <3>2. CASE r % kThreads = t
      <4>1. m_row'[r] = FALSE /\ l_row'[r] = Taken(r, 0)
        BY <1>3, <3>2, TakenNone
      <4> QED
        BY <4>1, <1>5 DEF RowAt
    <3>3. CASE r % kThreads # t
      <4>1. RowAt(r, 0)
        BY <1>2, <1>3, <1>4, <2>3, <3>1, <3>3 DEF LoadingQ, TileTypes
      <4>2. m_row'[r] = m_row[r] /\ l_row'[r] = l_row[r]
        BY <1>3, <3>3
      <4> QED
        BY <4>1, <4>2, <1>5 DEF RowAt
    <3> QED
      BY <3>2, <3>3
  <2>4. \A s \in OutSlots : SlotAt(s, 0)'
    BY <1>3, <1>4, <1>5 DEF LoadingQ, SlotAt
  <2> QED
    BY <2>1, <2>2, <2>3, <2>4 DEF LoadingQ
<1> QED
  BY <1>1, <1>3, <1>6, <1>7, <1>8 DEF IInv, Phase

\* One thread stores its share of the next tile.
LEMMA LoadTileIInv ==
  ASSUME IInv, NEW t \in Threads, LoadTile(t)
  PROVE  IInv'
<1>1. PICK n \in Nat : (\A u \in Threads : j0[u] = n) /\ Phase(n)
  BY DEF IInv
<1>2. TileTypes /\ PaddingUnwritten
  BY DEF IInv
<1>3. /\ pc[t] = "loop" /\ ~LoopEnds(t) /\ pc' = [pc EXCEPT ![t] = "load_barrier"]
      /\ kv_smem' = [kv_smem EXCEPT ![t] = j0[t]]
      /\ UNCHANGED <<seq_q, seq_kv, causal, i0, j0, q_smem, s_tile, m_row, l_row, alpha_row,
                     acc, out, lse>>
  BY DEF LoadTile, Goto, params, rows, results
<1>4. AtLoop(n)
  BY <1>1, <1>3, PhaseOf
<1>5. /\ \A row, k : Masked(row, k)' = Masked(row, k)
      /\ \A row, m : Taken(row, m)' = Taken(row, m)
  BY <1>3, SameParams DEF params
<1>6. TileTypes'
  <2>1. pc' \in [Threads -> Labels] /\ kv_smem' \in [Threads -> Int]
    BY <1>2, <1>3 DEF TileTypes, Labels, BarrierPCs
  <2> QED
    BY <1>2, <1>3, <2>1 DEF TileTypes
<1>7. PaddingUnwritten'
  BY <1>2, <1>3 DEF PaddingUnwritten
<1>8. AtLoop(n)'
  <2>1. \A u \in Threads : pc'[u] \in {"loop", "load_barrier", "done"} /\ q_smem'[u]
    BY <1>2, <1>3, <1>4 DEF AtLoop, TileTypes
  <2>2. \A u \in Threads : LoopEnds(u)' = LoopEnds(u) /\ Stored(u)' = Stored(u)
    BY <1>3, <1>5 DEF LoopEnds, Stored, j_tiles, diagonal
  <2>3. ASSUME NEW u \in Threads
        PROVE  /\ pc'[u] = "load_barrier" => ~LoopEnds(u)' /\ kv_smem'[u] = n
               /\ pc'[u] = "done" => LoopEnds(u)' /\ Stored(u)'
    <3>1. CASE u = t
      BY <3>1, <1>1, <1>2, <1>3, <2>2 DEF TileTypes
    <3>2. CASE u # t
      <4>1. pc'[u] = pc[u] /\ kv_smem'[u] = kv_smem[u]
        BY <3>2, <1>2, <1>3 DEF TileTypes
      <4> QED
        BY <4>1, <1>4, <2>2 DEF AtLoop
    <3> QED
      BY <3>1, <3>2
  <2>4. (\A r \in Rows : RowAt(r, n)') /\ (\A s \in OutSlots : SlotAt(s, n)')
    BY <1>3, <1>4, <1>5 DEF AtLoop, RowAt, SlotAt
  <2> QED
    BY <2>1, <2>3, <2>4 DEF AtLoop
<1> QED
  BY <1>1, <1>3, <1>6, <1>7, <1>8 DEF IInv, Phase

\* One thread computes its share of the scores.
LEMMA ScoresIInv ==
  ASSUME IInv, NEW t \in Threads, Scores(t)
  PROVE  IInv'
<1>1. PICK n \in Nat : (\A u \in Threads : j0[u] = n) /\ Phase(n)
  BY DEF IInv
<1>2. TileTypes /\ PaddingUnwritten
  BY DEF IInv
<1>3. /\ pc[t] = "scores" /\ pc' = [pc EXCEPT ![t] = "scores_barrier"]
      /\ UNCHANGED <<seq_q, seq_kv, causal, i0, j0, q_smem, kv_smem, m_row, l_row, alpha_row,
                     acc, out, lse>>
  BY DEF Scores, Goto, params, inputs, rows, results
<1>4. InScores(n)
  BY <1>1, <1>3, PhaseOf
<1>5. s_tile' = [c \in Cells |->
        IF c % kThreads = t
          THEN [tile |-> n, kind |-> "score",
                kept |-> ~Masked(c \div kBlockN, n * kBlockN + (c % kBlockN))]
          ELSE s_tile[c]]
  BY <1>1, <1>4 DEF Scores, InScores
<1>6. /\ \A row, k : Masked(row, k)' = Masked(row, k)
      /\ \A row, m : Taken(row, m)' = Taken(row, m)
  BY <1>3, SameParams DEF params
<1>7. TileTypes'
  <2>1. pc' \in [Threads -> Labels]
    BY <1>2, <1>3 DEF TileTypes, Labels, BarrierPCs
  <2>2. s_tile' \in [Cells -> [tile : Int, kind : {"none", "score", "prob"}, kept : BOOLEAN]]
    BY <1>2, <1>5 DEF TileTypes
  <2> QED
    BY <1>2, <1>3, <2>1, <2>2 DEF TileTypes
<1>8. PaddingUnwritten'
  BY <1>2, <1>3 DEF PaddingUnwritten
<1>9. InScores(n)'
  <2>1. \A u \in Threads : pc'[u] \in {"scores", "scores_barrier"}
    BY <1>2, <1>3, <1>4 DEF InScores, TileTypes
  <2>2. TileLoaded(n)'
    BY <1>3, <1>4 DEF InScores, TileLoaded
  <2>3. ASSUME NEW c \in Cells, pc'[c % kThreads] = "scores_barrier"
        PROVE  Holds(c, n, "score")'
    <3>1. c % kThreads \in Threads
      BY Owners
    <3>2. CASE c % kThreads = t
      <4>1. s_tile'[c] = [tile |-> n, kind |-> "score",
                          kept |-> ~Masked(c \div kBlockN, n * kBlockN + (c % kBlockN))]
        BY <1>5, <3>2
      <4> QED
        BY <4>1, <1>6 DEF Holds
    <3>3. CASE c % kThreads # t
      <4>1. s_tile'[c] = s_tile[c] /\ Holds(c, n, "score")
        BY <1>2, <1>3, <1>4, <1>5, <2>3, <3>1, <3>3 DEF InScores, TileTypes
      <4> QED
        BY <4>1, <1>6 DEF Holds
    <3> QED
      BY <3>2, <3>3
  <2>4. (\A r \in Rows : RowAt(r, n)') /\ (\A s \in OutSlots : SlotAt(s, n)')
    BY <1>3, <1>4, <1>6 DEF InScores, RowAt, SlotAt
  <2> QED
    BY <2>1, <2>2, <2>3, <2>4 DEF InScores
<1> QED
  BY <1>1, <1>3, <1>7, <1>8, <1>9 DEF IInv, Phase

\* One warp folds the tile into its rows.
LEMMA SoftmaxIInv ==
  ASSUME IInv, NEW w \in Warps, Softmax(w)
  PROVE  IInv'
<1>1. PICK n \in Nat : (\A u \in Threads : j0[u] = n) /\ Phase(n)
  BY DEF IInv
<1>2. TileTypes /\ PaddingUnwritten
  BY DEF IInv
<1>3. w * kLanes \in Threads /\ w * kLanes \in Lanes(w)
  BY FirstLane
<1> DEFINE mine == {r \in Rows : r % kWarps = w}
           tile(r) == Summed(r, n, "score")
           m_new(r) == m_row[r] \/ tile(r) # NoTerms
           alpha(r) == m_row[r] /\ m_new(r)
<1>4. /\ \A t \in Lanes(w) : pc[t] = "softmax"
      /\ pc' = [t \in Threads |-> IF t \in Lanes(w) THEN "softmax_barrier" ELSE pc[t]]
      /\ s_tile' = [c \in Cells |->
           IF c \div kBlockN \in mine THEN [s_tile[c] EXCEPT !.kind = "prob"] ELSE s_tile[c]]
      /\ l_row' = [r \in Rows |->
           IF r \in mine THEN Rescaled(alpha(r), l_row[r], tile(r)) ELSE l_row[r]]
      /\ m_row' = [r \in Rows |-> IF r \in mine THEN m_new(r) ELSE m_row[r]]
      /\ alpha_row' = [r \in Rows |-> IF r \in mine THEN alpha(r) ELSE alpha_row[r]]
  <2>1. j0[w * kLanes] = n
    BY <1>1, <1>3
  <2> QED
    BY <2>1 DEF Softmax
<1>5. UNCHANGED <<seq_q, seq_kv, causal, i0, j0, q_smem, kv_smem, acc, out, lse>>
  BY DEF Softmax, params, inputs, results
<1>6. InSoftmax(n)
  <2>1. pc[w * kLanes] = "softmax"
    BY <1>3, <1>4
  <2> QED
    BY <2>1, <1>1, <1>3, PhaseOf
<1>7. /\ \A row, k : Masked(row, k)' = Masked(row, k)
      /\ \A row, m : Taken(row, m)' = Taken(row, m)
  BY <1>5, SameParams DEF params
<1>8. ASSUME NEW r \in mine
      PROVE  /\ RowAt(r, n)
             /\ \A c \in Cells : c \div kBlockN = r => Holds(c, n, "score")
             /\ m_new(r) /\ (alpha(r) <=> n > 0)
             /\ Rescaled(alpha(r), l_row[r], tile(r)) = Taken(r, n + 1)
  <2>1. r \in Rows /\ r % kWarps = (w * kLanes) \div kLanes /\ pc[w * kLanes] = "softmax"
    BY <1>3, <1>4 DEF Lanes
  <2>2. RowAt(r, n) /\ \A c \in Cells : c \div kBlockN = r => Holds(c, n, "score")
    BY <2>1, <1>3, <1>6 DEF InSoftmax
  <2>3. tile(r) = TileTerms(r, n)
    BY <2>1, <2>2, SummedExact
  <2>4. (m_row[r] <=> n > 0) /\ l_row[r] = Taken(r, n) /\ m_row[r] \in BOOLEAN
    BY <2>1, <2>2, <1>2 DEF RowAt, TileTypes
  <2>5. m_new(r)
    <3>1. CASE n > 0
      BY <3>1, <2>4
    <3>2. CASE n = 0
      BY <3>2, <2>1, <2>3, <1>2, FirstKey
    <3> QED
      BY <3>1, <3>2
  <2>6. alpha(r) <=> n > 0
    BY <2>4, <2>5
  <2>7. Rescaled(alpha(r), l_row[r], tile(r)) = Rescaled(n > 0, Taken(r, n), TileTerms(r, n))
    BY <2>3, <2>4, <2>6 DEF Rescaled
  <2>8. Rescaled(alpha(r), l_row[r], tile(r)) = Taken(r, n + 1)
    BY <2>1, <2>7, AddTile
  <2> QED
    BY <2>2, <2>5, <2>6, <2>8
<1>9. ASSUME NEW r \in Rows
      PROVE  /\ m_new(r) \in BOOLEAN /\ alpha(r) \in BOOLEAN
             /\ Rescaled(alpha(r), l_row[r], tile(r)) \in Sums
  <2>1. m_row[r] \in BOOLEAN /\ l_row[r] \in Sums /\ tile(r) \in Sums
    BY <1>2, SumTypes DEF TileTypes
  <2>2. m_new(r) \in BOOLEAN /\ alpha(r) \in BOOLEAN
    BY <2>1
  <2> QED
    BY <2>1, <2>2, SumTypes
<1> HIDE DEF tile, m_new, alpha
<1>10. TileTypes'
  <2>1. pc' \in [Threads -> Labels]
    BY <1>2, <1>4 DEF TileTypes, Labels, BarrierPCs
  <2>2. s_tile' \in [Cells -> [tile : Int, kind : {"none", "score", "prob"}, kept : BOOLEAN]]
    BY <1>2, <1>4 DEF TileTypes
  <2>3. m_row' \in [Rows -> BOOLEAN] /\ alpha_row' \in [Rows -> BOOLEAN]
    BY <1>2, <1>4, <1>9 DEF TileTypes
  <2>4. l_row' \in [Rows -> Sums]
    BY <1>2, <1>4, <1>9 DEF TileTypes
  <2> QED
    BY <1>2, <1>5, <2>1, <2>2, <2>3, <2>4 DEF TileTypes
<1>11. PaddingUnwritten'
  BY <1>2, <1>5 DEF PaddingUnwritten
<1>12. InSoftmax(n)'
  <2>1. \A u \in Threads : pc'[u] \in {"softmax", "softmax_barrier"}
    BY <1>4, <1>6 DEF InSoftmax
  <2>2. TileLoaded(n)' /\ \A s \in OutSlots : SlotAt(s, n)'
    BY <1>5, <1>6, <1>7 DEF InSoftmax, TileLoaded, SlotAt
  <2>3. ASSUME NEW u \in Threads, NEW r \in Rows, r % kWarps = u \div kLanes
        PROVE  /\ pc'[u] = "softmax" =>
                    /\ RowAt(r, n)'
                    /\ \A c \in Cells : c \div kBlockN = r => Holds(c, n, "score")'
               /\ pc'[u] = "softmax_barrier" =>
                    /\ RowAt(r, n + 1)' /\ (alpha_row'[r] <=> n > 0)
                    /\ \A c \in Cells : c \div kBlockN = r => Holds(c, n, "prob")'
    <3>1. CASE u \in Lanes(w)
      <4>1. pc'[u] = "softmax_barrier" /\ r \in mine
        BY <3>1, <2>3, <1>4 DEF Lanes
      <4>2. /\ m_row'[r] = m_new(r) /\ alpha_row'[r] = alpha(r)
            /\ l_row'[r] = Taken(r, n + 1)
        BY <4>1, <1>4, <1>8
      <4>3. RowAt(r, n + 1)' /\ (alpha_row'[r] <=> n > 0)
        BY <4>1, <4>2, <1>7, <1>8 DEF RowAt
      <4>4. ASSUME NEW c \in Cells, c \div kBlockN = r
            PROVE  Holds(c, n, "prob")'
        <5>1. PICK b \in BOOLEAN : b <=> ~Masked(c \div kBlockN, n * kBlockN + (c % kBlockN))
          OBVIOUS
        <5>2. s_tile[c] = [tile |-> n, kind |-> "score", kept |-> b]
          BY <5>1, <4>1, <4>4, <1>8 DEF Holds
        <5>3. s_tile'[c] = [tile |-> n, kind |-> "prob", kept |-> b]
          BY <5>2, <4>1, <4>4, <1>4
        <5> QED
          BY <5>1, <5>3, <1>7 DEF Holds
      <4> QED
        BY <4>1, <4>3, <4>4
    <3>2. CASE u \notin Lanes(w)
      <4>1. pc'[u] = pc[u] /\ r \notin mine
        BY <3>2, <2>3, <1>4 DEF Lanes
      <4>2. m_row'[r] = m_row[r] /\ l_row'[r] = l_row[r] /\ alpha_row'[r] = alpha_row[r]
        BY <4>1, <1>4
      <4>3. \A c \in Cells : c \div kBlockN = r => s_tile'[c] = s_tile[c]
        BY <4>1, <1>4
      <4>4. /\ pc[u] = "softmax" =>
                 RowAt(r, n) /\ \A c \in Cells : c \div kBlockN = r => Holds(c, n, "score")
            /\ pc[u] = "softmax_barrier" =>
                 /\ RowAt(r, n + 1) /\ (alpha_row[r] <=> n > 0)
                 /\ \A c \in Cells : c \div kBlockN = r => Holds(c, n, "prob")
        BY <2>3, <1>6 DEF InSoftmax
      <4>5. \A m : RowAt(r, m) => RowAt(r, m)'
        BY <4>2, <1>7 DEF RowAt
      <4>6. \A kind : \A c \in Cells : c \div kBlockN = r /\ Holds(c, n, kind) => Holds(c, n, kind)'
        BY <4>3, <1>7 DEF Holds
      <4> QED
        BY <4>1, <4>2, <4>4, <4>5, <4>6
    <3> QED
      BY <3>1, <3>2
  <2> QED
    BY <2>1, <2>2, <2>3 DEF InSoftmax
<1> QED
  BY <1>1, <1>5, <1>10, <1>11, <1>12 DEF IInv, Phase

\* One thread multiplies its share with V.
LEMMA ProductIInv ==
  ASSUME IInv, NEW t \in Threads, Product(t)
  PROVE  IInv'
<1>1. PICK n \in Nat : (\A u \in Threads : j0[u] = n) /\ Phase(n)
  BY DEF IInv
<1>2. TileTypes /\ PaddingUnwritten
  BY DEF IInv
<1>3. /\ pc[t] = "product" /\ pc' = [pc EXCEPT ![t] = "product_barrier"]
      /\ UNCHANGED <<seq_q, seq_kv, causal, i0, j0, q_smem, kv_smem, s_tile, m_row, l_row,
                     alpha_row, out, lse>>
  BY DEF Product, Goto, params, inputs, rows, results
<1>4. InProduct(n)
  BY <1>1, <1>3, PhaseOf
<1>5. acc' = [s \in OutSlots |->
        IF s % kThreads = t
          THEN Rescaled(alpha_row[RowOf(s)], acc[s], Summed(RowOf(s), n, "prob"))
          ELSE acc[s]]
  <2>1. j0[t] = n /\ TileLoaded(j0[t])
    BY <1>1, <1>4 DEF InProduct
  <2> QED
    BY <2>1 DEF Product, RowOf
<1>6. /\ \A row, k : Masked(row, k)' = Masked(row, k)
      /\ \A row, m : Taken(row, m)' = Taken(row, m)
  BY <1>3, SameParams DEF params
<1>7. TileTypes'
  <2>1. pc' \in [Threads -> Labels]
    BY <1>2, <1>3 DEF TileTypes, Labels, BarrierPCs
  <2>2. ASSUME NEW s \in OutSlots
        PROVE  Rescaled(alpha_row[RowOf(s)], acc[s], Summed(RowOf(s), n, "prob")) \in Sums
    <3>1. alpha_row[RowOf(s)] \in BOOLEAN /\ acc[s] \in Sums
      BY <1>2, Owners DEF TileTypes
    <3> QED
      BY <3>1, SumTypes
  <2>3. acc' \in [OutSlots -> Sums]
    BY <1>2, <1>5, <2>2 DEF TileTypes
  <2> QED
    BY <1>2, <1>3, <2>1, <2>3 DEF TileTypes
<1>8. PaddingUnwritten'
  BY <1>2, <1>3 DEF PaddingUnwritten
<1>9. InProduct(n)'
  <2>1. \A u \in Threads : pc'[u] \in {"product", "product_barrier"}
    BY <1>2, <1>3, <1>4 DEF InProduct, TileTypes
  <2>2. TileLoaded(n)' /\ \A c \in Cells : Holds(c, n, "prob")'
    BY <1>3, <1>4, <1>6 DEF InProduct, TileLoaded, Holds
  <2>3. \A r \in Rows : RowAt(r, n + 1)' /\ (alpha_row'[r] <=> n > 0)
    BY <1>3, <1>4, <1>6 DEF InProduct, RowAt
  <2>4. ASSUME NEW s \in OutSlots
        PROVE  SlotAt(s, IF pc[s % kThreads] = "product" THEN n ELSE n + 1)'
    <3>1. s % kThreads \in Threads /\ RowOf(s) \in Rows
      BY Owners
    <3>2. CASE s % kThreads = t
      <4>1. acc[s] = Taken(RowOf(s), n) /\ (alpha_row[RowOf(s)] <=> n > 0)
        BY <1>3, <1>4, <3>1, <3>2 DEF InProduct, SlotAt
      <4>2. Summed(RowOf(s), n, "prob") = TileTerms(RowOf(s), n)
        BY <1>4, <3>1, SummedExact DEF InProduct
      <4>3. acc'[s] = Rescaled(n > 0, Taken(RowOf(s), n), TileTerms(RowOf(s), n))
        BY <1>5, <3>2, <4>1, <4>2 DEF Rescaled
      <4>4. acc'[s] = Taken(RowOf(s), n + 1)
        BY <4>3, <3>1, AddTile
      <4>5. pc'[s % kThreads] # "product"
        BY <1>2, <1>3, <3>2 DEF TileTypes
      <4> QED
        BY <4>4, <4>5, <1>6 DEF SlotAt
    <3>3. CASE s % kThreads # t
      <4>1. acc'[s] = acc[s] /\ pc'[s % kThreads] = pc[s % kThreads]
        BY <1>2, <1>3, <1>5, <3>1, <3>3 DEF TileTypes
      <4>2. SlotAt(s, IF pc[s % kThreads] = "product" THEN n ELSE n + 1)
        BY <1>4 DEF InProduct
      <4> QED
        BY <4>1, <4>2, <1>6 DEF SlotAt
    <3> QED
      BY <3>2, <3>3
  <2> QED
    BY <2>1, <2>2, <2>3, <2>4 DEF InProduct
<1> QED
  BY <1>1, <1>3, <1>7, <1>8, <1>9 DEF IInv, Phase

\* One thread stores its results and leaves.
LEMMA EpilogueIInv ==
  ASSUME IInv, NEW t \in Threads, Epilogue(t)
  PROVE  IInv'
<1>1. PICK n \in Nat : (\A u \in Threads : j0[u] = n) /\ Phase(n)
  BY DEF IInv
<1>2. TileTypes /\ PaddingUnwritten
  BY DEF IInv
<1>3. /\ pc[t] = "loop" /\ LoopEnds(t) /\ pc' = [pc EXCEPT ![t] = "done"]
      /\ out' = [s \in OutSlots |->
           IF s % kThreads = t /\ i0 + RowOf(s) < seq_q
             THEN [num |-> acc[s], den |-> l_row[RowOf(s)]] ELSE out[s]]
      /\ lse' = [r \in Rows |->
           IF r % kThreads = t /\ i0 + r < seq_q THEN [m |-> m_row[r], l |-> l_row[r]] ELSE lse[r]]
      /\ UNCHANGED <<seq_q, seq_kv, causal, i0, j0, q_smem, kv_smem, s_tile, m_row, l_row,
                     alpha_row, acc>>
  BY DEF Epilogue, Goto, params, inputs, rows, RowOf
<1>4. AtLoop(n)
  BY <1>1, <1>3, PhaseOf
<1>5. /\ \A row, k : Masked(row, k)' = Masked(row, k)
      /\ \A row, m : Taken(row, m)' = Taken(row, m)
  BY <1>3, SameParams DEF params
<1>6. TileTypes'
  <2>1. pc' \in [Threads -> Labels]
    BY <1>2, <1>3 DEF TileTypes, Labels, BarrierPCs
  <2>2. out' = [s \in OutSlots |-> out'[s]] /\ lse' = [r \in Rows |-> lse'[r]]
    BY <1>3
  <2> QED
    BY <1>2, <1>3, <2>1, <2>2 DEF TileTypes
<1>7. seq_q \in Nat /\ i0 \in Nat
  BY <1>2 DEF TileTypes
<1>8. PaddingUnwritten'
  <2>1. ASSUME NEW s \in OutSlots, i0 + RowOf(s) >= seq_q
        PROVE  out'[s] = NotWritten
    <3>1. RowOf(s) \in Nat
      BY Owners
    <3>2. ~(i0 + RowOf(s) < seq_q)
      BY <3>1, <2>1, <1>7
    <3> QED
      BY <3>2, <2>1, <1>2, <1>3 DEF PaddingUnwritten
  <2>2. ASSUME NEW r \in Rows, i0 + r >= seq_q
        PROVE  lse'[r] = NotWritten
    <3>1. ~(i0 + r < seq_q)
      BY <2>2, <1>7, Owners
    <3> QED
      BY <3>1, <2>2, <1>2, <1>3 DEF PaddingUnwritten
  <2> QED
    BY <2>1, <2>2, <1>3 DEF PaddingUnwritten
<1>9. AtLoop(n)'
  <2>1. \A u \in Threads : pc'[u] \in {"loop", "load_barrier", "done"} /\ q_smem'[u]
    BY <1>2, <1>3, <1>4 DEF AtLoop, TileTypes
  <2>2. \A u \in Threads : LoopEnds(u)' = LoopEnds(u)
    BY <1>3 DEF LoopEnds, j_tiles, diagonal
  <2>3. ASSUME NEW u \in Threads
        PROVE  /\ pc'[u] = "load_barrier" => ~LoopEnds(u)' /\ kv_smem'[u] = n
               /\ pc'[u] = "done" => LoopEnds(u)' /\ Stored(u)'
    <3>1. CASE u = t
      <4>1. pc'[u] = "done" /\ LoopEnds(u)'
        BY <3>1, <1>2, <1>3, <2>2 DEF TileTypes
      <4>2. ASSUME NEW s \in OutSlots, s % kThreads = u, i0 + RowOf(s) < seq_q
            PROVE  out'[s] = [num |-> Taken(RowOf(s), n), den |-> Taken(RowOf(s), n)]
        <5>1. acc[s] = Taken(RowOf(s), n) /\ l_row[RowOf(s)] = Taken(RowOf(s), n)
          BY <1>4, Owners DEF AtLoop, SlotAt, RowAt
        <5> QED
          BY <5>1, <4>2, <3>1, <1>3
      <4>3. ASSUME NEW r \in Rows, r % kThreads = u, i0 + r < seq_q
            PROVE  lse'[r] = [m |-> (n > 0), l |-> Taken(r, n)]
        <5>1. (m_row[r] <=> n > 0) /\ l_row[r] = Taken(r, n) /\ m_row[r] \in BOOLEAN
          BY <1>2, <1>4 DEF AtLoop, RowAt, TileTypes
        <5>2. lse'[r] = [m |-> m_row[r], l |-> Taken(r, n)]
          BY <5>1, <4>3, <3>1, <1>3
        <5> QED
          BY <5>1, <5>2
      <4>4. j0'[u] = n
        BY <1>1, <1>3
      <4>5. Stored(u)'
        BY <4>2, <4>3, <4>4, <1>3, <1>5 DEF Stored
      <4> QED
        BY <4>1, <4>5
    <3>2. CASE u # t
      <4>1. pc'[u] = pc[u] /\ kv_smem'[u] = kv_smem[u]
        BY <3>2, <1>2, <1>3 DEF TileTypes
      <4>2. Stored(u)' = Stored(u)
        <5>1. \A s \in OutSlots : s % kThreads = u => out'[s] = out[s]
          BY <3>2, <1>3
        <5>2. \A r \in Rows : r % kThreads = u => lse'[r] = lse[r]
          BY <3>2, <1>3
        <5> QED
          BY <5>1, <5>2, <1>3, <1>5 DEF Stored
      <4> QED
        BY <4>1, <4>2, <1>4, <2>2 DEF AtLoop
    <3> QED
      BY <3>1, <3>2
  <2>4. (\A r \in Rows : RowAt(r, n)') /\ (\A s \in OutSlots : SlotAt(s, n)')
    BY <1>3, <1>4, <1>5 DEF AtLoop, RowAt, SlotAt
  <2> QED
    BY <2>1, <2>3, <2>4 DEF AtLoop
<1> QED
  BY <1>1, <1>3, <1>6, <1>8, <1>9 DEF IInv, Phase

\* A barrier moves all threads, and changes nothing else but the loop counter.
LEMMA BarrierKeeps ==
  ASSUME TileTypes, PaddingUnwritten, NEW from \in Labels, NEW to \in Labels,
         Barrier(from, to), j0' \in [Threads -> Nat]
  PROVE  /\ TileTypes' /\ PaddingUnwritten'
         /\ \A t \in Threads : pc[t] = from /\ pc'[t] = to
         /\ UNCHANGED <<seq_q, seq_kv, causal, i0, q_smem, kv_smem, s_tile, m_row, l_row,
                        alpha_row, acc, out, lse>>
         /\ \A r, n : RowAt(r, n)' = RowAt(r, n)
         /\ \A s, n : SlotAt(s, n)' = SlotAt(s, n)
         /\ \A c, n, kind : Holds(c, n, kind)' = Holds(c, n, kind)
         /\ \A n : TileLoaded(n)' = TileLoaded(n)
<1>1. /\ \A t \in Threads : pc[t] = from
      /\ pc' = [t \in Threads |-> to]
      /\ UNCHANGED <<seq_q, seq_kv, causal, i0, q_smem, kv_smem, s_tile, m_row, l_row,
                     alpha_row, acc, out, lse>>
  BY DEF Barrier, params, inputs, rows, results
<1>2. /\ \A row, k : Masked(row, k)' = Masked(row, k)
      /\ \A row, m : Taken(row, m)' = Taken(row, m)
  BY <1>1, SameParams DEF params
<1>3. TileTypes'
  BY <1>1 DEF TileTypes
<1>4. PaddingUnwritten'
  BY <1>1 DEF PaddingUnwritten
<1>5. /\ \A r, n : RowAt(r, n)' = RowAt(r, n)
      /\ \A s, n : SlotAt(s, n)' = SlotAt(s, n)
      /\ \A c, n, kind : Holds(c, n, kind)' = Holds(c, n, kind)
      /\ \A n : TileLoaded(n)' = TileLoaded(n)
  BY <1>1, <1>2 DEF RowAt, SlotAt, Holds, TileLoaded
<1> QED
  BY <1>1, <1>3, <1>4, <1>5

\* Every barrier leads from a finished phase to the next one.
LEMMA SyncIInv ==
  ASSUME IInv, SyncThreads
  PROVE  IInv'
<1>1. PICK n \in Nat : (\A u \in Threads : j0[u] = n) /\ Phase(n)
  BY DEF IInv
<1>2. TileTypes /\ PaddingUnwritten
  BY DEF IInv
<1>3. 0 \in Threads
  BY Sizes DEF Threads
<1>4. CASE QBarrier
  <2>1. Barrier("q_barrier", "loop") /\ UNCHANGED j0
    BY <1>4 DEF QBarrier
  <2>2. "q_barrier" \in Labels /\ "loop" \in Labels /\ j0' \in [Threads -> Nat]
    BY <1>2, <2>1 DEF Labels, BarrierPCs, TileTypes
  <2>3. /\ TileTypes' /\ PaddingUnwritten'
        /\ \A t \in Threads : pc[t] = "q_barrier" /\ pc'[t] = "loop"
        /\ UNCHANGED q_smem
        /\ \A r, m : RowAt(r, m)' = RowAt(r, m)
        /\ \A s, m : SlotAt(s, m)' = SlotAt(s, m)
    BY <1>2, <2>1, <2>2, BarrierKeeps
  <2>4. LoadingQ(n)
    BY <1>1, <1>3, <2>3, PhaseOf
  <2>5. \A r \in Rows : pc[r % kThreads] = "q_barrier"
    BY <2>3, Owners
  <2>6. AtLoop(n)'
    BY <2>3, <2>4, <2>5 DEF LoadingQ, AtLoop
  <2> QED
    BY <1>1, <2>1, <2>3, <2>6 DEF IInv, Phase
<1>5. CASE LoadBarrier
  <2>1. Barrier("load_barrier", "scores") /\ UNCHANGED j0
    BY <1>5 DEF LoadBarrier
  <2>2. "load_barrier" \in Labels /\ "scores" \in Labels /\ j0' \in [Threads -> Nat]
    BY <1>2, <2>1 DEF Labels, BarrierPCs, TileTypes
  <2>3. /\ TileTypes' /\ PaddingUnwritten'
        /\ \A t \in Threads : pc[t] = "load_barrier" /\ pc'[t] = "scores"
        /\ \A r, m : RowAt(r, m)' = RowAt(r, m)
        /\ \A s, m : SlotAt(s, m)' = SlotAt(s, m)
        /\ \A m : TileLoaded(m)' = TileLoaded(m)
    BY <1>2, <2>1, <2>2, BarrierKeeps
  <2>4. AtLoop(n)
    BY <1>1, <1>3, <2>3, PhaseOf
  <2>5. TileLoaded(n)
    BY <2>3, <2>4 DEF AtLoop, TileLoaded
  <2>6. \A c \in Cells : pc'[c % kThreads] # "scores_barrier"
    BY <2>3, Owners
  <2>7. InScores(n)'
    BY <2>3, <2>4, <2>5, <2>6 DEF AtLoop, InScores
  <2> QED
    BY <1>1, <2>1, <2>3, <2>7 DEF IInv, Phase
<1>6. CASE ScoresBarrier
  <2>1. Barrier("scores_barrier", "softmax") /\ UNCHANGED j0
    BY <1>6 DEF ScoresBarrier
  <2>2. "scores_barrier" \in Labels /\ "softmax" \in Labels /\ j0' \in [Threads -> Nat]
    BY <1>2, <2>1 DEF Labels, BarrierPCs, TileTypes
  <2>3. /\ TileTypes' /\ PaddingUnwritten'
        /\ \A t \in Threads : pc[t] = "scores_barrier" /\ pc'[t] = "softmax"
        /\ \A r, m : RowAt(r, m)' = RowAt(r, m)
        /\ \A s, m : SlotAt(s, m)' = SlotAt(s, m)
        /\ \A c, m, kind : Holds(c, m, kind)' = Holds(c, m, kind)
        /\ \A m : TileLoaded(m)' = TileLoaded(m)
    BY <1>2, <2>1, <2>2, BarrierKeeps
  <2>4. InScores(n)
    BY <1>1, <1>3, <2>3, PhaseOf
  <2>5. \A c \in Cells : Holds(c, n, "score")
    BY <2>3, <2>4, Owners DEF InScores
  <2>6. InSoftmax(n)'
    BY <2>3, <2>4, <2>5 DEF InScores, InSoftmax
  <2> QED
    BY <1>1, <2>1, <2>3, <2>6 DEF IInv, Phase
<1>7. CASE SoftmaxBarrier
  <2>1. Barrier("softmax_barrier", "product") /\ UNCHANGED j0
    BY <1>7 DEF SoftmaxBarrier
  <2>2. "softmax_barrier" \in Labels /\ "product" \in Labels /\ j0' \in [Threads -> Nat]
    BY <1>2, <2>1 DEF Labels, BarrierPCs, TileTypes
  <2>3. /\ TileTypes' /\ PaddingUnwritten' /\ UNCHANGED alpha_row
        /\ \A t \in Threads : pc[t] = "softmax_barrier" /\ pc'[t] = "product"
        /\ \A r, m : RowAt(r, m)' = RowAt(r, m)
        /\ \A s, m : SlotAt(s, m)' = SlotAt(s, m)
        /\ \A c, m, kind : Holds(c, m, kind)' = Holds(c, m, kind)
        /\ \A m : TileLoaded(m)' = TileLoaded(m)
    BY <1>2, <2>1, <2>2, BarrierKeeps
  <2>4. InSoftmax(n)
    BY <1>1, <1>3, <2>3, PhaseOf
  <2>5. ASSUME NEW r \in Rows
        PROVE  /\ RowAt(r, n + 1) /\ (alpha_row[r] <=> n > 0)
               /\ \A c \in Cells : c \div kBlockN = r => Holds(c, n, "prob")
    <3>1. PICK w \in Warps : w = r % kWarps
      BY Owners
    <3>2. w * kLanes \in Threads /\ (w * kLanes) \div kLanes = w
      BY FirstLane DEF Lanes
    <3> QED
      BY <3>1, <3>2, <2>3, <2>4 DEF InSoftmax
  <2>6. \A c \in Cells : Holds(c, n, "prob")
    BY <2>5, Owners
  <2>7. \A s \in OutSlots : pc'[s % kThreads] = "product"
    BY <2>3, Owners
  <2>8. InProduct(n)'
    <3>1. \A s \in OutSlots : SlotAt(s, IF pc[s % kThreads] = "product" THEN n ELSE n + 1)'
      <4>1. \A s \in OutSlots : SlotAt(s, n)'
        BY <2>3, <2>4 DEF InSoftmax
      <4> QED
        BY <4>1, <2>7 DEF SlotAt
    <3>2. \A r \in Rows : RowAt(r, n + 1)' /\ (alpha_row'[r] <=> n > 0)
      BY <2>3, <2>5
    <3> QED
      BY <3>1, <3>2, <2>3, <2>4, <2>6 DEF InSoftmax, InProduct
  <2> QED
    BY <1>1, <2>1, <2>3, <2>8 DEF IInv, Phase
<1>8. CASE ProductBarrier
  <2>1. Barrier("product_barrier", "loop") /\ j0' = [t \in Threads |-> j0[t] + 1]
    BY <1>8 DEF ProductBarrier
  <2>2. /\ "product_barrier" \in Labels /\ "loop" \in Labels /\ j0' \in [Threads -> Nat]
        /\ \A t \in Threads : j0'[t] = n + 1
    BY <1>1, <1>2, <2>1 DEF Labels, BarrierPCs, TileTypes
  <2>3. /\ TileTypes' /\ PaddingUnwritten' /\ UNCHANGED q_smem
        /\ \A t \in Threads : pc[t] = "product_barrier" /\ pc'[t] = "loop"
        /\ \A r, m : RowAt(r, m)' = RowAt(r, m)
        /\ \A s, m : SlotAt(s, m)' = SlotAt(s, m)
    BY <1>2, <2>1, <2>2, BarrierKeeps
  <2>4. InProduct(n)
    BY <1>1, <1>3, <2>3, PhaseOf
  <2>5. \A s \in OutSlots : SlotAt(s, n + 1)
    <3>1. \A s \in OutSlots : pc[s % kThreads] # "product"
      BY <2>3, Owners
    <3> QED
      BY <3>1, <2>4 DEF InProduct
  <2>6. AtLoop(n + 1)'
    <3>1. \A t \in Threads : q_smem[t]
      BY <2>4 DEF InProduct, TileLoaded
    <3> QED
      BY <3>1, <2>3, <2>4, <2>5 DEF InProduct, AtLoop
  <2>7. n + 1 \in Nat
    OBVIOUS
  <2> QED
    BY <2>2, <2>3, <2>6, <2>7 DEF IInv, Phase
<1> QED
  BY <1>4, <1>5, <1>6, <1>7, <1>8 DEF SyncThreads

\* The launch establishes the invariant.
LEMMA InitIInv == Init => IInv
<1> SUFFICES ASSUME Init
             PROVE  IInv
  OBVIOUS
<1>1. /\ seq_q \in Nat \ {0} /\ seq_kv \in 1 .. MaxSeqKv /\ causal \in BOOLEAN
      /\ (causal => seq_kv >= seq_q)
  BY TileAssumption DEF Init
<1>2. i0 \in Nat
  <2>1. PICK b \in 0 .. (seq_q - 1) \div kBlockM : i0 = b * kBlockM
    BY DEF Init
  <2>2. b \in Nat
    OBVIOUS
  <2> QED
    BY <2>1, <2>2, Sizes
<1>3. TileTypes
  <2>1. /\ pc \in [Threads -> Labels] /\ j0 \in [Threads -> Nat]
        /\ q_smem \in [Threads -> BOOLEAN] /\ kv_smem \in [Threads -> Int]
        /\ m_row \in [Rows -> BOOLEAN] /\ alpha_row \in [Rows -> BOOLEAN]
    BY DEF Init, Labels, NoTile
  <2>2. s_tile \in [Cells -> [tile : Int, kind : {"none", "score", "prob"}, kept : BOOLEAN]]
    BY DEF Init, NoTile
  <2>3. l_row \in [Rows -> Sums] /\ acc \in [OutSlots -> Sums]
    BY SumTypes DEF Init
  <2>4. out = [s \in OutSlots |-> out[s]] /\ lse = [r \in Rows |-> lse[r]]
    BY DEF Init
  <2> QED
    BY <1>1, <1>2, <2>1, <2>2, <2>3, <2>4 DEF TileTypes
<1>4. PaddingUnwritten
  BY DEF Init, PaddingUnwritten
<1>5. LoadingQ(0)
  <2>1. \A s \in OutSlots : SlotAt(s, 0)
    BY Owners, TakenNone DEF Init, SlotAt
  <2>2. \A x \in Nat : pc[x % kThreads] = "load_q"
    BY Owners DEF Init
  <2>3. \A t \in Threads : pc[t] = "load_q"
    BY DEF Init
  <2> QED
    BY <2>1, <2>2, <2>3, Owners DEF LoadingQ
<1> QED
  BY <1>3, <1>4, <1>5 DEF IInv, Phase, Init

\* Every step keeps it.
LEMMA NextIInv == IInv /\ [Next]_vars => IInv'
<1> SUFFICES ASSUME IInv, [Next]_vars
             PROVE  IInv'
  OBVIOUS
<1>1. ASSUME NEW t \in Threads, Step(t)
      PROVE  IInv'
  BY <1>1, LoadQIInv, LoadTileIInv, ScoresIInv, ProductIInv, EpilogueIInv DEF Step
<1>2. ASSUME NEW w \in Warps, Softmax(w)
      PROVE  IInv'
  BY <1>2, SoftmaxIInv
<1>3. CASE SyncThreads
  BY <1>3, SyncIInv
<1>4. CASE UNCHANGED vars
  BY <1>4, SMTT(40) DEF vars, params, inputs, rows, results, IInv, TileTypes, PaddingUnwritten, Phase,
              LoadingQ, AtLoop, InScores, InSoftmax, InProduct, RowAt, SlotAt, Holds, Taken,
              Masked, Stored, LoopEnds, TileLoaded, j_tiles, diagonal
<1> QED
  BY <1>1, <1>2, <1>3, <1>4 DEF Next

\* The invariant holds throughout the kernel.
LEMMA SpecIInv == Spec => []IInv
  BY InitIInv, NextIInv, PTL DEF Spec

-----------------------------------------------------------------------------
\* Five barriers per tile are enough: whatever the speed of the threads, each reads
\* complete data of the current tile only.
THEOREM ReadsCurrentHolds == Spec => []ReadsCurrent
<1>1. ASSUME IInv
      PROVE  ReadsCurrent
  <2>1. PICK n \in Nat : (\A u \in Threads : j0[u] = n) /\ Phase(n)
    BY <1>1 DEF IInv
  <2>2. ASSUME NEW row \in Rows, NEW kind,
               \A c \in Cells : c \div kBlockN = row => Holds(c, n, kind)
        PROVE  HoldsTile(row, n, kind)
    <3> SUFFICES ASSUME NEW col \in Columns
                 PROVE  /\ s_tile[row * kBlockN + col].tile = n
                        /\ s_tile[row * kBlockN + col].kind = kind
      BY DEF HoldsTile
    <3>1. PICK c \in Cells : c = row * kBlockN + col /\ c \div kBlockN = row
      BY CellOf
    <3>2. Holds(c, n, kind)
      BY <3>1, <2>2
    <3>3. PICK b \in BOOLEAN : b <=> ~Masked(c \div kBlockN, n * kBlockN + (c % kBlockN))
      OBVIOUS
    <3>4. s_tile[c] = [tile |-> n, kind |-> kind, kept |-> b]
      BY <3>2, <3>3 DEF Holds
    <3> QED
      BY <3>1, <3>4
  <2> SUFFICES ASSUME NEW t \in Threads
               PROVE  /\ pc[t] \in {"scores", "product"} => TileLoaded(n)
                      /\ pc[t] = "softmax" =>
                           \A r \in Rows : r % kWarps = t \div kLanes => HoldsTile(r, n, "score")
                      /\ pc[t] = "product" =>
                           \A s \in OutSlots : s % kThreads = t => HoldsTile(RowOf(s), n, "prob")
    BY <2>1 DEF ReadsCurrent, RowOf
  <2>3. pc[t] \in {"scores", "product"} => TileLoaded(n)
    BY <2>1, PhaseOf DEF InScores, InProduct
  <2>4. ASSUME pc[t] = "softmax", NEW r \in Rows, r % kWarps = t \div kLanes
        PROVE  HoldsTile(r, n, "score")
    <3>1. InSoftmax(n)
      BY <2>1, <2>4, PhaseOf
    <3> QED
      BY <3>1, <2>2, <2>4 DEF InSoftmax
  <2>5. ASSUME pc[t] = "product", NEW s \in OutSlots
        PROVE  HoldsTile(RowOf(s), n, "prob")
    <3>1. InProduct(n) /\ RowOf(s) \in Rows
      BY <2>1, <2>5, PhaseOf, Owners
    <3> QED
      BY <3>1, <2>2 DEF InProduct
  <2> QED
    BY <2>3, <2>4, <2>5
<1> QED
  BY <1>1, SpecIInv, PTL

\* No thread waits at a __syncthreads that another thread never reaches, or reaches in
\* another iteration: the loop's two exits are taken by all threads or by none.
THEOREM BarriersUniformHolds == Spec => []BarriersUniform
<1>1. ASSUME IInv
      PROVE  BarriersUniform
  <2>1. PICK n \in Nat : (\A u \in Threads : j0[u] = n) /\ Phase(n)
    BY <1>1 DEF IInv
  <2> SUFFICES ASSUME NEW t \in Threads, NEW u \in Threads, pc[t] \in BarrierPCs
               PROVE  /\ j0[u] = j0[t]
                      /\ pc[u] \in BarrierPCs \union {"done"} => pc[u] = pc[t]
    BY DEF BarriersUniform
  <2>2. j0[u] = j0[t]
    BY <2>1
  <2>3. CASE LoadingQ(n)
    BY <2>2, <2>3 DEF LoadingQ, BarrierPCs
  <2>4. CASE AtLoop(n)
    <3>1. pc[t] = "load_barrier" /\ ~LoopEnds(t)
      BY <2>4 DEF AtLoop, BarrierPCs
    <3>2. LoopEnds(u) = LoopEnds(t)
      BY <2>2 DEF LoopEnds
    <3> QED
      BY <3>1, <3>2, <2>2, <2>4 DEF AtLoop, BarrierPCs
  <2>5. CASE InScores(n)
    BY <2>2, <2>5 DEF InScores, BarrierPCs
  <2>6. CASE InSoftmax(n)
    BY <2>2, <2>6 DEF InSoftmax, BarrierPCs
  <2>7. CASE InProduct(n)
    BY <2>2, <2>7 DEF InProduct, BarrierPCs
  <2> QED
    BY <2>1, <2>2, <2>3, <2>4, <2>5, <2>6, <2>7 DEF Phase
<1> QED
  BY <1>1, SpecIInv, PTL

\* When the loop ends, the first tiles hold every key the row sees.
LEMMA LoopCovers ==
  ASSUME TileTypes, NEW t \in Threads, LoopEnds(t), NEW row \in Rows, i0 + row < seq_q
  PROVE  Taken(row, j0[t]) = EachOnce(VisibleKeys(row)) /\ j0[t] > 0
<1>1. PICK n \in Nat : n = j0[t]
  BY DEF TileTypes
<1>2. /\ seq_q \in Nat \ {0} /\ seq_kv \in Nat \ {0} /\ seq_kv <= MaxSeqKv /\ i0 \in Nat
      /\ causal \in BOOLEAN /\ (causal => seq_kv >= seq_q) /\ row \in 0 .. kBlockM - 1
      /\ kBlockN \in Nat \ {0} /\ kBlockM \in Nat \ {0} /\ MaxSeqKv \in Nat
  BY TileAssumption DEF TileTypes, Rows
<1>3. PICK b \in Int : b = n * kBlockN /\ (n = 0 => b = 0)
  BY <1>2
<1>4. n >= j_tiles => n > 0 /\ b >= seq_kv
  <2>1. PICK x \in Nat : x = seq_kv + kBlockN - 1
    BY <1>2
  <2>2. /\ x \div kBlockN \in Nat /\ x % kBlockN \in 0 .. kBlockN - 1
        /\ x = kBlockN * (x \div kBlockN) + (x % kBlockN)
    BY <1>2, DivMod
  <2>3. PICK q \in Nat, r \in 0 .. kBlockN - 1 : q = x \div kBlockN /\ x = kBlockN * q + r
    BY <2>2
  <2>4. j_tiles = q
    BY <2>1, <2>3 DEF j_tiles
  <2>5. q # 0
    BY <1>2, <2>1, <2>3
  <2>6. kBlockN * q >= seq_kv
    BY <1>2, <2>1, <2>3
  <2>7. n >= q => n * kBlockN >= kBlockN * q
    BY <1>2
  <2> QED
    BY <2>4, <2>5, <2>6, <2>7, <1>2, <1>3
<1>5. (causal /\ b > i0 + kBlockM - 1 + seq_kv - seq_q) => n > 0
  BY <1>2, <1>3
<1>6. n >= j_tiles \/ (causal /\ b > i0 + kBlockM - 1 + seq_kv - seq_q)
  BY <1>1, <1>2, <1>3 DEF LoopEnds, diagonal
<1>7. n > 0
  BY <1>4, <1>5, <1>6
<1>8. ASSUME NEW k \in Terms
      PROVE  (k \in Keys /\ k < n * kBlockN /\ ~Masked(row, k)) <=> k \in 0 .. VisibleKeys(row) - 1
  <2>1. CASE k \notin Keys
    BY <2>1 DEF Terms, Garbage
  <2>2. CASE k \in Keys
    <3>1. k \in Nat
      BY <2>2 DEF Keys
    <3>2. Masked(row, k) <=> k >= seq_kv \/ (causal /\ k > i0 + row + seq_kv - seq_q)
      BY <1>2, <3>1 DEF Masked, diagonal
    <3>3. VisibleKeys(row) = IF causal THEN i0 + row + 1 + seq_kv - seq_q ELSE seq_kv
      BY DEF VisibleKeys
    <3>4. ~Masked(row, k) <=> k \in 0 .. VisibleKeys(row) - 1
      BY <1>2, <3>1, <3>2, <3>3
    <3>5. ~Masked(row, k) => k < b
      BY <1>2, <1>4, <1>6, <3>1, <3>2
    <3> QED
      BY <2>2, <3>4, <3>5, <1>3
  <2> QED
    BY <2>1, <2>2
<1>9. Taken(row, n) = EachOnce(VisibleKeys(row))
  BY <1>8 DEF Taken, EachOnce
<1> QED
  BY <1>1, <1>7, <1>9

\* Every stored output is the sum over exactly the keys its row sees, each once, over
\* the sum of the same keys; nothing is stored for the padding rows.
THEOREM OutputExactHolds == Spec => []OutputExact
<1>1. ASSUME IInv
      PROVE  OutputExact
  <2>1. PICK n \in Nat : (\A u \in Threads : j0[u] = n) /\ Phase(n)
    BY <1>1 DEF IInv
  <2>2. TileTypes /\ PaddingUnwritten
    BY <1>1 DEF IInv
  <2> SUFFICES ASSUME NEW t \in Threads, pc[t] = "done"
               PROVE  /\ \A s \in OutSlots : s % kThreads = t =>
                           out[s] = IF i0 + RowOf(s) < seq_q
                                      THEN [num |-> EachOnce(VisibleKeys(RowOf(s))),
                                            den |-> EachOnce(VisibleKeys(RowOf(s)))]
                                      ELSE NotWritten
                      /\ \A r \in Rows : r % kThreads = t =>
                           lse[r] = IF i0 + r < seq_q
                                      THEN [m |-> TRUE, l |-> EachOnce(VisibleKeys(r))]
                                      ELSE NotWritten
    BY DEF OutputExact, RowOf
  <2>3. AtLoop(n)
    BY <2>1, PhaseOf
  <2>4. LoopEnds(t) /\ Stored(t)
    BY <2>3 DEF AtLoop
  <2>5. seq_q \in Nat /\ i0 \in Nat
    BY <2>2 DEF TileTypes
  <2>6. ASSUME NEW s \in OutSlots, s % kThreads = t
        PROVE  out[s] = IF i0 + RowOf(s) < seq_q
                          THEN [num |-> EachOnce(VisibleKeys(RowOf(s))),
                                den |-> EachOnce(VisibleKeys(RowOf(s)))]
                          ELSE NotWritten
    <3>1. RowOf(s) \in Rows /\ RowOf(s) \in Nat
      BY Owners
    <3>2. CASE i0 + RowOf(s) < seq_q
      <4>1. Taken(RowOf(s), j0[t]) = EachOnce(VisibleKeys(RowOf(s)))
        BY <3>1, <3>2, <2>2, <2>4, LoopCovers
      <4> QED
        BY <4>1, <3>2, <2>4, <2>6 DEF Stored
    <3>3. CASE ~(i0 + RowOf(s) < seq_q)
      <4>1. i0 + RowOf(s) >= seq_q
        BY <3>1, <3>3, <2>5
      <4> QED
        BY <4>1, <3>3, <2>2 DEF PaddingUnwritten
    <3> QED
      BY <3>2, <3>3
  <2>7. ASSUME NEW r \in Rows, r % kThreads = t
        PROVE  lse[r] = IF i0 + r < seq_q THEN [m |-> TRUE, l |-> EachOnce(VisibleKeys(r))]
                                          ELSE NotWritten
    <3>1. r \in Nat
      BY Owners
    <3>2. CASE i0 + r < seq_q
      <4>1. Taken(r, j0[t]) = EachOnce(VisibleKeys(r)) /\ j0[t] > 0
        BY <3>2, <2>2, <2>4, LoopCovers
      <4>2. lse[r] = [m |-> (j0[t] > 0), l |-> Taken(r, j0[t])]
        BY <3>2, <2>4, <2>7 DEF Stored
      <4>3. (j0[t] > 0) = TRUE
        BY <4>1
      <4> QED
        BY <4>1, <4>2, <4>3, <3>2
    <3>3. CASE ~(i0 + r < seq_q)
      <4>1. i0 + r >= seq_q
        BY <3>1, <3>3, <2>5
      <4> QED
        BY <4>1, <3>3, <2>2 DEF PaddingUnwritten
    <3> QED
      BY <3>2, <3>3
  <2> QED
    BY <2>6, <2>7
<1> QED
  BY <1>1, SpecIInv, PTL
=============================================================================
