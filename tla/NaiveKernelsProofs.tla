-------------------------- MODULE NaiveKernelsProofs --------------------------
(***************************************************************************)
(* The naive attention call computes what it should in every row its       *)
(* softmax grid covers, for every problem, every number of warps and lanes *)
(* and every bound on the grids.                                           *)
(*                                                                         *)
(* The inductive invariant says what the kernels already run have left in  *)
(* the scores buffer and in the output (QkInv, SoftmaxInv, PvInv), and for *)
(* the resident softmax block between which two barriers all its warps     *)
(* are and what scratch[] holds there (BlockInv).                          *)
(***************************************************************************)
EXTENDS NaiveKernels, ProofLemmas, FiniteSetTheorems

KernelType == [kind : {"qk", "softmax", "pv"}, todo : SUBSET Nat]

Types ==
  /\ p \in Problems
  /\ host \in {"qk", "softmax", "pv", "ok", "failed"}
  /\ stream \in Seq(KernelType)
  /\ DOMAIN scores = Rows /\ DOMAIN lse = Rows
  /\ DOMAIN out = 0 .. Cardinality(Rows) * p.head_dim - 1
  /\ DOMAIN pc = Warps /\ DOMAIN scratch = Warps
  /\ DOMAIN m = Warps /\ DOMAIN sum = Warps

\* The kernels in the stream follow each other as the host launches them; only the first
\* may have begun.
StreamInv ==
  /\ \A i \in DOMAIN stream :
       /\ i < Len(stream) => stream[i + 1].kind = After(stream[i].kind)
       /\ i = Len(stream) /\ host # "failed" => host = After(stream[i].kind)
       /\ i > 1 => stream[i].todo = Blocks(stream[i].kind)
  /\ stream # <<>> => stream[1].todo \subseteq Blocks(stream[1].kind)

\* A resident block belongs to the softmax kernel at the head of the stream.
RowInv ==
  row # NoRow => /\ stream # <<>> /\ stream[1].kind = "softmax"
                 /\ row \in stream[1].todo /\ row \in Covered /\ row \in Rows

\* Every kernel before this one has run to its end; "failed": nobody looks at the output.
Stage == IF stream # <<>> THEN stream[1].kind ELSE host
Through(b) == stream # <<>> /\ b \notin stream[1].todo

Key(r, c) == <<BatchOf(r), KvHeadOf(r), c>>
Scored(r, c) ==
  /\ scores[r][c].kind = "score" /\ scores[r][c].key = Key(r, c)
  /\ scores[r][c].class = "masked" <=> Masked(r, c)
Shifted(r, c) ==
  /\ scores[r][c].kind = "exp" /\ scores[r][c].key = Key(r, c) /\ scores[r][c].max = Cols
  /\ scores[r][c].class = "masked" <=> Masked(r, c)
Normalised(r, c) ==
  /\ scores[r][c].kind = "prob" /\ scores[r][c].key = Key(r, c)
  /\ scores[r][c].max = Cols /\ scores[r][c].sum = Cols
  /\ scores[r][c].class = "masked" <=> Masked(r, c)

\* What the softmax leaves of a row.
LseRight(r) == lse[r].kind = "neginf" \/ (lse[r].kind = "lse" /\ lse[r].max = Cols /\ lse[r].sum = Cols)
RowFinal(r) == LseRight(r) /\ (lse[r].kind = "lse" => \A c \in Cols : Normalised(r, c))

QkBlockOf(r, c) ==
  ((r * p.seq_kv + c) \div kThreads) % Grid(Cardinality(Rows) * p.seq_kv, kMaxGrid)
PvBlockOf(x) == (x \div kThreads) % Grid(Cardinality(Rows) * p.head_dim, kMaxGrid)

Terms(x) ==
  {[p |-> scores[x \div p.head_dim][c],
    v |-> <<BatchOf(x \div p.head_dim), KvHeadOf(x \div p.head_dim), c>>] : c \in Cols}
Summed(x) == out[x] = [kind |-> "sum", terms |-> Terms(x)]

QkInv == Stage = "qk" => \A r \in Rows, c \in Cols : Through(QkBlockOf(r, c)) => Scored(r, c)
SoftmaxInv ==
  Stage = "softmax" =>
    \A r \in Covered : /\ Through(r) => RowFinal(r)
                       /\ ~Through(r) /\ r # row => \A c \in Cols : Scored(r, c)
PvInv ==
  /\ Stage \in {"pv", "ok"} => \A r \in Covered : RowFinal(r)
  /\ Stage = "pv" => \A x \in DOMAIN out : Through(PvBlockOf(x)) => Summed(x)
  /\ Stage = "ok" => \A x \in DOMAIN out : Summed(x)

\* The resident softmax block: all its warps are between the same two barriers.
In(labels) == \A w \in Warps : pc[w] \in labels
HasMax(w, cols) == scratch[w].kind = "max" /\ scratch[w].cols = cols
HasSum(w, cols) == scratch[w].kind = "sum" /\ scratch[w].cols = cols
RowScored == \A c \in Cols : Scored(row, c)
GotMax == \A w \in Warps : m[w].cols = Cols /\ m[w].class = m[0].class

Maxima ==
  /\ In({"max", "max_written"}) /\ RowScored
  /\ \A w \in Warps : pc[w] = "max_written" => HasMax(w, Mine(w))
MaxCombination ==
  /\ In({"max_combine", "max_combined"}) /\ RowScored
  /\ \A w \in Warps : w # 0 \/ pc[w] = "max_combine" => HasMax(w, Mine(w))
  /\ pc[0] = "max_combined" => HasMax(0, Cols)
MaxBroadcast ==
  /\ In({"max_read", "max_done"}) /\ RowScored /\ HasMax(0, Cols)
  /\ \A w \in Warps : pc[w] = "max_done" => m[w].cols = Cols /\ m[w].class = scratch[0].class
Exponentials ==
  /\ In({"exp", "sum_written"}) /\ GotMax
  /\ \A w \in Warps :
       /\ pc[w] = "exp" => \A c \in Mine(w) : Scored(row, c)
       /\ pc[w] = "sum_written" => /\ ~all_masked(w) /\ HasSum(w, Mine(w))
                                   /\ \A c \in Mine(w) : Shifted(row, c)
Skipping ==
  /\ In({"exp", "scale", "exit"}) /\ GotMax /\ all_masked(0)
  /\ pc[0] = "exit" => lse[row].kind = "neginf"
RowShifted == ~all_masked(0) /\ GotMax /\ \A c \in Cols : Shifted(row, c)
SumCombination ==
  /\ In({"sum_combine", "sum_combined"}) /\ RowShifted
  /\ \A w \in Warps : w # 0 \/ pc[w] = "sum_combine" => HasSum(w, Mine(w))
  /\ pc[0] = "sum_combined" => HasSum(0, Cols)
SumBroadcast ==
  /\ In({"sum_read", "sum_done"}) /\ RowShifted /\ HasSum(0, Cols)
  /\ \A w \in Warps : pc[w] = "sum_done" => sum[w] = Cols
Scaling ==
  /\ In({"scale", "exit"}) /\ GotMax /\ ~all_masked(0)
  /\ \A w \in Warps :
       /\ sum[w] = Cols
       /\ pc[w] = "scale" => \A c \in Mine(w) : Shifted(row, c)
       /\ pc[w] = "exit" => \A c \in Mine(w) : Normalised(row, c)
  /\ pc[0] = "exit" => lse[row].kind = "lse" /\ lse[row].max = Cols /\ lse[row].sum = Cols

BlockInv ==
  IF row = NoRow THEN In({"exit"})
  ELSE \/ Maxima \/ MaxCombination \/ MaxBroadcast \/ Exponentials \/ Skipping
       \/ SumCombination \/ SumBroadcast \/ Scaling

IInv == Types /\ StreamInv /\ RowInv /\ QkInv /\ SoftmaxInv /\ PvInv /\ BlockInv

-----------------------------------------------------------------------------
\* Sizes of the call and of its grids.
LEMMA Sizes ==
  ASSUME p \in Problems
  PROVE  /\ kWarps \in Nat \ {0} /\ kLanes \in Nat \ {0} /\ kThreads \in Nat \ {0}
         /\ p.seq_kv \in Nat \ {0} /\ p.head_dim \in Nat \ {0} /\ p.seq_q \in Nat \ {0}
         /\ Cardinality(Rows) \in Nat /\ Rows = 0 .. Cardinality(Rows) - 1
<1>1. p \in ProblemType
  BY NaiveAssumption
<1>2. /\ p.batch \in Nat /\ p.num_heads \in Nat
      /\ p.seq_kv \in Nat \ {0} /\ p.head_dim \in Nat \ {0} /\ p.seq_q \in Nat \ {0}
  BY <1>1 DEF ProblemType
<1>3. PICK a \in Nat, b \in Nat, c \in Nat : a = p.batch /\ b = p.num_heads /\ c = p.seq_q
  BY <1>2
<1>4. a * b * c \in Nat
  OBVIOUS
<1>5. PICK n \in Nat : n = a * b * c
  BY <1>4
<1>6. Rows = 0 .. n - 1
  BY <1>3, <1>5 DEF Rows
<1>7. Cardinality(0 .. n - 1) = IF 0 > n - 1 THEN 0 ELSE (n - 1) - 0 + 1
  BY FS_Interval
<1>8. Cardinality(Rows) = n
  BY <1>6, <1>7
<1>9. kWarps \in Nat \ {0} /\ kLanes \in Nat \ {0} /\ kWarps * kLanes \in Nat \ {0}
  <2>1. kWarps \in Nat \ {0} /\ kLanes \in Nat \ {0}
    BY NaiveAssumption
  <2> QED
    BY <2>1
<1> QED
  BY <1>1, <1>2, <1>3, <1>5, <1>6, <1>8, <1>9 DEF kThreads

\* A grid has a block.
LEMMA GridPositive ==
  ASSUME p \in Problems, NEW total \in Nat
  PROVE  Grid(total, kMaxGrid) \in Nat \ {0}
<1>1. PICK t \in Nat \ {0} : t = kThreads
  BY Sizes
<1>2. kMaxGrid \in Nat \ {0}
  BY NaiveAssumption
<1>3. ASSUME total > t PROVE (total + t - 1) \div t \in Nat \ {0}
  <2>1. PICK x \in Nat : x = total + t - 1 /\ x >= t
    BY <1>3
  <2>2. PICK q \in Nat, r \in 0 .. t - 1 : q = x \div t /\ x = t * q + r
    BY DivMod
  <2>3. q # 0
    BY <2>1, <2>2
  <2> QED
    BY <2>1, <2>2, <2>3
<1>4. (IF total > t THEN (total + t - 1) \div t ELSE 1) \in Nat \ {0}
  BY <1>3
<1> QED
  BY <1>1, <1>2, <1>4 DEF Grid, Least

\* The blocks of the row softmax are rows.
LEMMA OneBlockPerRow ==
  ASSUME p \in Problems
  PROVE  Blocks("softmax") = Covered /\ Covered \subseteq Rows
<1>1. PICK n \in Nat : n = Cardinality(Rows) /\ Rows = 0 .. n - 1
  BY Sizes
<1>2. RowGrid \in Nat /\ RowGrid <= n
  BY <1>1, NaiveAssumption DEF RowGrid, Least
<1>3. Covered \subseteq Rows
  <2>1. PICK g \in Nat : g = RowGrid /\ g <= n
    BY <1>2
  <2>2. 0 .. g - 1 \subseteq 0 .. n - 1
    BY <2>1
  <2> QED
    BY <1>1, <2>1, <2>2 DEF Covered
<1>4. Blocks("softmax") = Covered
  BY DEF Blocks, Covered
<1> QED
  BY <1>3, <1>4

\* Every element of a grid-stride loop belongs to a block of the grid.
LEMMA BlockOfElement ==
  ASSUME p \in Problems
  PROVE  /\ \A r \in Rows, c \in Cols : QkBlockOf(r, c) \in Blocks("qk")
         /\ \A x \in Nat : PvBlockOf(x) \in Blocks("pv")
<1>1. PICK n \in Nat, t \in Nat \ {0}, k \in Nat \ {0}, d \in Nat \ {0} :
        n = Cardinality(Rows) /\ t = kThreads /\ k = p.seq_kv /\ d = p.head_dim /\ Rows = 0 .. n - 1
  BY Sizes
<1>2. n * k \in Nat /\ n * d \in Nat
  BY <1>1
<1>3. PICK g \in Nat \ {0}, h \in Nat \ {0} :
        g = Grid(Cardinality(Rows) * p.seq_kv, kMaxGrid) /\ h = Grid(Cardinality(Rows) * p.head_dim, kMaxGrid)
  BY <1>1, <1>2, GridPositive
<1>4. Blocks("qk") = 0 .. g - 1 /\ Blocks("pv") = 0 .. h - 1
  BY <1>3 DEF Blocks
<1>5. ASSUME NEW x \in Nat, NEW y \in Nat \ {0} PROVE (x \div t) % y \in 0 .. y - 1
  <2>1. x \div t \in Nat
    BY DivMod
  <2> QED
    BY <2>1, DivMod
<1>6. ASSUME NEW r \in Rows, NEW c \in Cols PROVE QkBlockOf(r, c) \in Blocks("qk")
  <2>1. r \in Nat /\ c \in Nat
    BY <1>1, <1>6 DEF Cols
  <2>2. r * k + c \in Nat
    BY <2>1
  <2>3. QkBlockOf(r, c) = ((r * k + c) \div t) % g
    BY <1>1, <1>3 DEF QkBlockOf
  <2> QED
    BY <1>4, <1>5, <2>2, <2>3
<1>7. ASSUME NEW x \in Nat PROVE PvBlockOf(x) \in Blocks("pv")
  <2>1. PvBlockOf(x) = (x \div t) % h
    BY <1>1, <1>3 DEF PvBlockOf
  <2> QED
    BY <1>4, <1>5, <2>1
<1> QED
  BY <1>6, <1>7

\* Every column belongs to exactly one warp.
LEMMA WarpsPartition ==
  ASSUME p \in Problems
  PROVE  /\ 0 \in Warps
         /\ \A w \in Warps : Mine(w) \subseteq Cols
         /\ \A c \in Cols : \E w \in Warps : c \in Mine(w)
         /\ \A w, u \in Warps : \A c \in Mine(w) : c \in Mine(u) => u = w
<1>1. PICK n \in Nat \ {0}, l \in Nat \ {0}, t \in Nat \ {0} :
        n = kWarps /\ l = kLanes /\ t = kThreads /\ t = n * l
  BY Sizes DEF kThreads
<1>2. ASSUME NEW c \in Cols PROVE \E w \in Warps : c \in Mine(w)
  <2>1. c \in Nat
    BY DEF Cols
  <2>2. c % t \in 0 .. n * l - 1
    BY <1>1, <2>1, DivMod
  <2>3. (c % t) \div l \in 0 .. n - 1
    BY <2>2, DivBelow
  <2> QED
    BY <1>1, <2>3 DEF Warps, Mine
<1> QED
  BY <1>1, <1>2 DEF Warps, Mine

\* What depends only on the parameters of the call does not change with the state.
LEMMA Parameters ==
  ASSUME p' = p
  PROVE  /\ Rows' = Rows /\ Cols' = Cols /\ Covered' = Covered
         /\ \A r, c : Key(r, c)' = Key(r, c) /\ (Masked(r, c)' <=> Masked(r, c))
         /\ \A r, c : QkBlockOf(r, c)' = QkBlockOf(r, c)
         /\ \A x : PvBlockOf(x)' = PvBlockOf(x)
         /\ \A w : Mine(w)' = Mine(w)
         /\ \A kind : Blocks(kind)' = Blocks(kind)
<1>1. Rows' = Rows /\ Cols' = Cols
  BY DEF Rows, Cols
<1>2. \A r, c : Key(r, c)' = Key(r, c)
  BY DEF Key, BatchOf, KvHeadOf, HeadOf
<1>3. \A r, c : Masked(r, c)' <=> Masked(r, c)
  BY DEF Masked, QueryOf, diagonal
<1>4. \A t, b : Grid(t, b)' = Grid(t, b)
  BY DEF Grid, Least, kThreads
<1>5. \A r, c : QkBlockOf(r, c)' = QkBlockOf(r, c)
  BY <1>1, <1>4 DEF QkBlockOf, kThreads, Grid, Least
<1>6. \A x : PvBlockOf(x)' = PvBlockOf(x)
  BY <1>1, <1>4 DEF PvBlockOf, kThreads, Grid, Least
<1>7. \A w : Mine(w)' = Mine(w)
  BY <1>1 DEF Mine, kThreads
<1>8. \A kind : Blocks(kind)' = Blocks(kind)
  BY <1>1 DEF Blocks, RowGrid, Grid, Least, kThreads
<1>9. Covered' = Covered
  BY <1>1 DEF Covered, RowGrid, Least
<1> QED
  BY <1>1, <1>2, <1>3, <1>5, <1>6, <1>7, <1>8, <1>9

-----------------------------------------------------------------------------
\* A block of the running kernel ends: either the kernel goes on with fewer blocks, or
\* the next one has its turn and has not begun.
LEMMA Advance ==
  ASSUME Types, StreamInv, p' = p, host' = host, stream # <<>>,
         NEW b, b \in stream[1].todo, BlockDone(b)
  PROVE  /\ stream' \in Seq(KernelType) /\ StreamInv'
         /\ stream[1].todo # {b} =>
              /\ stream' # <<>> /\ stream'[1].kind = stream[1].kind
              /\ stream'[1].todo = stream[1].todo \ {b}
         /\ stream[1].todo = {b} =>
              \/ stream' = <<>> /\ host \in {After(stream[1].kind), "failed"}
              \/ /\ stream' # <<>> /\ stream'[1].kind = After(stream[1].kind)
                 /\ stream'[1].todo = Blocks(stream'[1].kind)
<1> USE DEF KernelType
<1>0. stream \in Seq(KernelType) /\ Len(stream) \in Nat /\ Len(stream) >= 1 /\ DOMAIN stream = 1 .. Len(stream)
  BY DEF Types
<1>1. PICK n \in Nat : n = Len(stream) /\ n >= 1 /\ DOMAIN stream = 1 .. n
  BY <1>0
<1>2. /\ \A i \in 1 .. n :
           /\ i < n => stream[i + 1].kind = After(stream[i].kind)
           /\ i = n /\ host # "failed" => host = After(stream[i].kind)
           /\ i > 1 => stream[i].todo = Blocks(stream[i].kind)
      /\ stream[1].todo \subseteq Blocks(stream[1].kind)
  BY <1>1 DEF StreamInv
<1>3. \A k : Blocks(k)' = Blocks(k)
  BY Parameters
<1>4. \A k : After(k)' = After(k)
  BY DEF After
<1>5. CASE stream[1].todo = {b}
  <2>1. stream' = Tail(stream)
    BY <1>5 DEF BlockDone
  <2>2. /\ stream' \in Seq(KernelType) /\ Len(stream') = n - 1 /\ DOMAIN stream' = 1 .. n - 1
        /\ \A i \in 1 .. n - 1 : stream'[i] = stream[i + 1]
    BY <1>0, <1>1, <2>1
  <2>3. ASSUME NEW i \in 1 .. n - 1
        PROVE  /\ i < n - 1 => stream'[i + 1].kind = After(stream'[i].kind)
               /\ i = n - 1 /\ host' # "failed" => host' = After(stream'[i].kind)
               /\ stream'[i].todo = Blocks(stream'[i].kind)
    <3>1. i + 1 \in 1 .. n /\ i + 1 > 1 /\ stream'[i] = stream[i + 1]
      BY <2>2
    <3>2. i < n - 1 => i + 1 \in 1 .. n - 1 /\ stream'[i + 1] = stream[(i + 1) + 1]
      BY <2>2
    <3> QED
      BY <1>2, <3>1, <3>2
  <2>4. stream' # <<>> => 1 \in 1 .. n - 1
    BY <2>2
  <2>5. StreamInv'
    BY <1>3, <1>4, <2>2, <2>3, <2>4 DEF StreamInv
  <2>6. CASE n = 1
    BY <1>2, <1>5, <2>2, <2>5, <2>6
  <2>7. CASE n # 1
    <3>1. 1 \in 1 .. n - 1 /\ stream'[1] = stream[2] /\ stream' # <<>>
      BY <1>1, <2>2, <2>7
    <3>2. stream[2].kind = After(stream[1].kind) /\ stream[2].todo = Blocks(stream[2].kind)
      BY <1>1, <1>2, <2>7
    <3> QED
      BY <1>5, <2>2, <2>5, <3>1, <3>2
  <2> QED
    BY <2>6, <2>7
<1>6. CASE stream[1].todo # {b}
  <2>1. stream' = [stream EXCEPT ![1].todo = stream[1].todo \ {b}]
    BY <1>6 DEF BlockDone
  <2>2. 1 \in 1 .. n /\ stream[1] \in KernelType
    <3> HIDE DEF KernelType
    <3> QED
      BY <1>0, <1>1
  <2>3. stream'[1].kind = stream[1].kind /\ stream'[1].todo = stream[1].todo \ {b}
    BY <1>0, <1>1, <2>1, <2>2
  <2>4. \A i \in 1 .. n : i > 1 => stream'[i] = stream[i]
    BY <1>0, <1>1, <2>1
  <2>5. stream' \in Seq(KernelType) /\ Len(stream') = n /\ DOMAIN stream' = 1 .. n
    <3>1. [stream[1] EXCEPT !.todo = stream[1].todo \ {b}] \in KernelType
      BY <2>2
    <3> HIDE DEF KernelType
    <3> QED
      BY <1>0, <1>1, <2>1, <3>1
  <2>6. \A i \in 1 .. n : stream'[i].kind = stream[i].kind
    BY <2>3, <2>4
  <2>7. stream' # <<>>
    BY <1>1, <2>5
  <2>8. stream'[1].todo \subseteq Blocks(stream'[1].kind)
    BY <1>2, <2>3
  <2>9. ASSUME NEW i \in 1 .. n
        PROVE  /\ i < n => stream'[i + 1].kind = After(stream'[i].kind)
               /\ i = n /\ host' # "failed" => host' = After(stream'[i].kind)
               /\ i > 1 => stream'[i].todo = Blocks(stream'[i].kind)
    BY <1>2, <2>4, <2>6
  <2>10. StreamInv'
    BY <1>3, <1>4, <2>5, <2>8, <2>9 DEF StreamInv
  <2> QED
    BY <1>6, <2>3, <2>5, <2>7, <2>10
<1> QED
  BY <1>5, <1>6

\* A launch.
LEMMA Launch ==
  ASSUME Types, StreamInv, p' = p, host \in {"qk", "softmax", "pv"},
         \/ Queue(host) /\ host' \in {After(host), "failed"}
         \/ stream' = stream /\ host' = "failed"
  PROVE  /\ stream' \in Seq(KernelType) /\ StreamInv'
         /\ stream # <<>> => stream' # <<>> /\ stream'[1] = stream[1]
         /\ stream = <<>> => \/ stream' = <<>> /\ host' = "failed"
                             \/ /\ stream' # <<>> /\ stream'[1].kind = host
                                /\ stream'[1].todo = Blocks(host)
<1> USE DEF KernelType
<1>0. stream \in Seq(KernelType) /\ Len(stream) \in Nat /\ DOMAIN stream = 1 .. Len(stream)
  BY DEF Types
<1>1. PICK n \in Nat : n = Len(stream) /\ DOMAIN stream = 1 .. n
  BY <1>0
<1>2. /\ \A i \in 1 .. n :
           /\ i < n => stream[i + 1].kind = After(stream[i].kind)
           /\ i = n /\ host # "failed" => host = After(stream[i].kind)
           /\ i > 1 => stream[i].todo = Blocks(stream[i].kind)
      /\ stream # <<>> => stream[1].todo \subseteq Blocks(stream[1].kind)
  BY <1>1 DEF StreamInv
<1>3. \A k : Blocks(k)' = Blocks(k)
  BY Parameters
<1>4. \A k : After(k)' = After(k)
  BY DEF After
<1>5. CASE stream' = stream /\ host' = "failed"
  <2>1. StreamInv'
    BY <1>1, <1>2, <1>3, <1>4, <1>5 DEF StreamInv
  <2> QED
    BY <1>0, <1>5, <2>1
<1>6. CASE Queue(host) /\ host' \in {After(host), "failed"}
  <2> DEFINE k == [kind |-> host, todo |-> Blocks(host)]
  <2>1. Blocks(host) \subseteq Nat
    <3>1. \A z : 0 .. z \subseteq Nat
      OBVIOUS
    <3> QED
      BY <3>1 DEF Blocks
  <2>2. k \in KernelType /\ k.kind = host /\ k.todo = Blocks(host) /\ stream' = Append(stream, k)
    BY <1>6, <2>1 DEF Queue
  <2> HIDE DEF k
  <2>3. /\ stream' \in Seq(KernelType) /\ Len(stream') = n + 1 /\ DOMAIN stream' = 1 .. n + 1
        /\ \A i \in 1 .. n : stream'[i] = stream[i]
        /\ stream'[n + 1] = k
    <3> HIDE DEF KernelType
    <3>1. stream \in Seq(KernelType) /\ k \in KernelType /\ Len(stream) = n
      BY <1>0, <1>1, <2>2
    <3>2. /\ Append(stream, k) \in Seq(KernelType) /\ Len(Append(stream, k)) = n + 1
          /\ \A i \in 1 .. n : Append(stream, k)[i] = stream[i]
          /\ Append(stream, k)[n + 1] = k
      BY <3>1
    <3>3. DOMAIN Append(stream, k) = 1 .. n + 1
      BY <3>2
    <3> QED
      BY <2>2, <3>2, <3>3
  <2>4. host # "failed" /\ (n > 0 => host = After(stream[n].kind))
    BY <1>1, <1>2
  <2>5. ASSUME NEW i \in 1 .. n + 1
        PROVE  /\ i < n + 1 => stream'[i + 1].kind = After(stream'[i].kind)
               /\ i = n + 1 /\ host' # "failed" => host' = After(stream'[i].kind)
               /\ i > 1 => stream'[i].todo = Blocks(stream'[i].kind)
    <3>1. CASE i = n + 1
      BY <1>6, <2>2, <2>3, <3>1
    <3>2. CASE i = n
      BY <1>2, <2>2, <2>3, <2>4, <3>2
    <3>3. CASE i < n
      <4>1. i \in 1 .. n /\ i + 1 \in 1 .. n
        BY <3>3
      <4> QED
        BY <1>2, <2>3, <3>3, <4>1
    <3> QED
      BY <3>1, <3>2, <3>3
  <2>6. CASE n = 0
    <3>1. stream'[1] = k /\ stream' # <<>> /\ stream = <<>>
      BY <1>0, <1>1, <2>3, <2>6
    <3>2. StreamInv'
      BY <1>3, <1>4, <2>2, <2>3, <2>5, <3>1 DEF StreamInv
    <3> QED
      BY <2>2, <2>3, <3>1, <3>2
  <2>7. CASE n # 0
    <3>1. stream'[1] = stream[1] /\ stream' # <<>> /\ stream # <<>>
      BY <1>0, <1>1, <2>3, <2>7
    <3>2. StreamInv'
      BY <1>2, <1>3, <1>4, <2>3, <2>5, <3>1 DEF StreamInv
    <3> QED
      BY <2>3, <3>1, <3>2
  <2> QED
    BY <2>6, <2>7
<1> QED
  BY <1>5, <1>6

-----------------------------------------------------------------------------
\* What the properties of a row depend on.
LEMMA RowFrame ==
  ASSUME p' = p, NEW r, scores'[r] = scores[r], lse'[r] = lse[r]
  PROVE  /\ \A c : Scored(r, c)' <=> Scored(r, c)
         /\ RowFinal(r)' <=> RowFinal(r)
<1>1. \A c : Scored(r, c)' <=> Scored(r, c)
  BY Parameters DEF Scored
<1>2. \A c : Normalised(r, c)' <=> Normalised(r, c)
  BY Parameters DEF Normalised
<1> QED
  BY <1>1, <1>2, Parameters DEF RowFinal, LseRight

\* What the invariant of the resident block depends on.
LEMMA BlockFrame ==
  ASSUME UNCHANGED <<p, scores, lse, block>>
  PROVE  BlockInv' <=> BlockInv
<1> USE Parameters DEF block
<1>1. \A r, c : Scored(r, c)' <=> Scored(r, c)
  BY DEF Scored
<1>2. \A r, c : Shifted(r, c)' <=> Shifted(r, c)
  BY DEF Shifted
<1>3. \A r, c : Normalised(r, c)' <=> Normalised(r, c)
  BY DEF Normalised
<1>4. /\ row' = row /\ pc' = pc /\ scratch' = scratch /\ m' = m /\ sum' = sum /\ lse' = lse
      /\ \A L : In(L)' <=> In(L)
      /\ \A w, cols : (HasMax(w, cols)' <=> HasMax(w, cols)) /\ (HasSum(w, cols)' <=> HasSum(w, cols))
      /\ RowScored' <=> RowScored
      /\ GotMax' <=> GotMax
      /\ \A w : all_masked(w)' <=> all_masked(w)
  BY <1>1 DEF In, HasMax, HasSum, RowScored, GotMax, all_masked
<1>5. RowShifted' <=> RowShifted
  BY <1>2, <1>4 DEF RowShifted
<1>6. (Maxima' <=> Maxima) /\ (MaxCombination' <=> MaxCombination) /\ (MaxBroadcast' <=> MaxBroadcast)
  BY <1>4 DEF Maxima, MaxCombination, MaxBroadcast
<1>7. (Exponentials' <=> Exponentials) /\ (Skipping' <=> Skipping)
  BY <1>1, <1>2, <1>4 DEF Exponentials, Skipping
<1>8. (SumCombination' <=> SumCombination) /\ (SumBroadcast' <=> SumBroadcast)
  BY <1>4, <1>5 DEF SumCombination, SumBroadcast
<1>9. Scaling' <=> Scaling
  BY <1>2, <1>3, <1>4 DEF Scaling
<1> QED
  BY <1>4, <1>6, <1>7, <1>8, <1>9 DEF BlockInv, NoRow

\* With no block resident the block invariant says only where the warps are.
LEMMA NoBlock ==
  ASSUME BlockInv, row = NoRow, row' = NoRow, pc' = pc
  PROVE  BlockInv'
  BY DEF BlockInv, In, NoRow

\* LaunchTyped queues a kernel, or returns an error.
LEMMA LaunchStep ==
  ASSUME IInv, LaunchKernel \/ LaunchFails
  PROVE  IInv'
<1> USE DEF IInv
<1>1. /\ UNCHANGED <<p, scores, out, lse, block>> /\ p' = p
      /\ host \in {"qk", "softmax", "pv"}
      /\ \/ Queue(host) /\ host' \in {After(host), "failed"}
         \/ stream' = stream /\ host' = "failed"
  BY DEF LaunchKernel, LaunchFails
<1>2. /\ stream' \in Seq(KernelType) /\ StreamInv'
      /\ stream # <<>> => stream' # <<>> /\ stream'[1] = stream[1]
      /\ stream = <<>> => \/ stream' = <<>> /\ host' = "failed"
                          \/ /\ stream' # <<>> /\ stream'[1].kind = host
                             /\ stream'[1].todo = Blocks(host)
  BY <1>1, Launch
<1>3. BlockInv'
  BY <1>1, BlockFrame
<1>4. Types'
  <2>1. host' \in {"qk", "softmax", "pv", "ok", "failed"}
    BY <1>1 DEF After
  <2>2. Rows' = Rows
    BY <1>1, Parameters
  <2> QED
    BY <1>1, <1>2, <2>1, <2>2 DEF Types, block, Warps, KernelType
<1>5. \A r : (RowFinal(r)' <=> RowFinal(r)) /\ \A c : Scored(r, c)' <=> Scored(r, c)
  BY <1>1, RowFrame
<1>6. \A x : Summed(x)' <=> Summed(x)
  BY <1>1 DEF Summed, Terms, BatchOf, KvHeadOf, HeadOf, Cols
<1>7. p \in Problems
  BY DEF Types
<1>8. CASE stream # <<>>
  <2>1. Stage' = Stage /\ \A b : Through(b)' <=> Through(b)
    BY <1>2, <1>8 DEF Stage, Through
  <2>2. RowInv'
    BY <1>1, <1>2, <1>8, Parameters DEF RowInv, block, NoRow
  <2>3. QkInv'
    BY <1>1, <1>5, <2>1, Parameters DEF QkInv
  <2>4. SoftmaxInv'
    BY <1>1, <1>5, <2>1, Parameters DEF SoftmaxInv, block
  <2>5. PvInv'
    BY <1>1, <1>5, <1>6, <2>1, Parameters DEF PvInv
  <2> QED
    BY <1>2, <1>3, <1>4, <2>2, <2>3, <2>4, <2>5
<1>9. CASE stream = <<>>
  <2>1. row' = NoRow /\ row = NoRow
    BY <1>1, <1>9 DEF RowInv, block
  <2>2. RowInv'
    BY <2>1 DEF RowInv, NoRow
  <2>3. Stage = host /\ \A b : ~Through(b)
    BY <1>9 DEF Stage, Through
  <2>4. CASE stream' = <<>> /\ host' = "failed"
    <3>1. Stage' = "failed"
      BY <2>4 DEF Stage
    <3> QED
      BY <1>2, <1>3, <1>4, <2>2, <3>1 DEF QkInv, SoftmaxInv, PvInv
  <2>5. CASE stream' # <<>> /\ stream'[1].kind = host /\ stream'[1].todo = Blocks(host)
    <3>1. Stage' = host /\ \A b : Through(b)' <=> b \notin Blocks(host)
      BY <2>5 DEF Stage, Through
    <3>2. QkInv'
      <4>1. host = "qk" => \A r \in Rows, c \in Cols : QkBlockOf(r, c) \in Blocks(host)
        BY <1>7, BlockOfElement
      <4> QED
        BY <1>1, <3>1, <4>1, Parameters DEF QkInv
    <3>3. SoftmaxInv'
      <4>1. host = "softmax" => Blocks(host) = Covered
        BY <1>7, OneBlockPerRow
      <4>2. host = "softmax" => \A r \in Covered : r # row => \A c \in Cols : Scored(r, c)
        BY <2>3 DEF SoftmaxInv
      <4> QED
        BY <1>1, <1>5, <2>1, <3>1, <4>1, <4>2, Parameters DEF SoftmaxInv
    <3>4. PvInv'
      <4>1. host = "pv" => \A x \in Nat : PvBlockOf(x) \in Blocks(host)
        BY <1>7, BlockOfElement
      <4>2. DOMAIN out \subseteq Nat
        BY DEF Types
      <4>3. host = "pv" => \A r \in Covered : RowFinal(r)
        BY <2>3 DEF PvInv
      <4> QED
        BY <1>1, <1>5, <3>1, <4>1, <4>2, <4>3, Parameters DEF PvInv
    <3> QED
      BY <1>2, <1>3, <1>4, <2>2, <3>2, <3>3, <3>4
  <2> QED
    BY <1>2, <1>9, <2>4, <2>5
<1> QED
  BY <1>8, <1>9

-----------------------------------------------------------------------------
\* The cells a block of naive_qk_scale_mask_kernel writes, and only those.
LEMMA QkCells ==
  ASSUME p \in Problems, NEW b, QkBlock(b), NEW r \in Rows, NEW c \in Cols
  PROVE  /\ QkBlockOf(r, c) = b => Scored(r, c)'
         /\ QkBlockOf(r, c) # b => scores'[r][c] = scores[r][c]
<1> DEFINE total == Cardinality(Rows) * p.seq_kv
           S == Strided(b, Cardinality(Rows) * p.seq_kv, Grid(Cardinality(Rows) * p.seq_kv, kMaxGrid))
<1>1. PICK class \in [S -> {"finite", "neginf", "posinf"}] :
        scores' = [i \in Rows |-> [j \in Cols |->
          LET x == i * p.seq_kv + j IN
          IF x \in DOMAIN class
            THEN [kind |-> "score", key |-> <<BatchOf(i), KvHeadOf(i), j>>,
                  class |-> IF Masked(i, j) THEN "masked" ELSE class[x]]
            ELSE scores[i][j]]]
  BY Zenon DEF QkBlock
<1>2. p' = p
  BY DEF QkBlock
<1>3. r * p.seq_kv + c \in S <=> QkBlockOf(r, c) = b
  <2>1. PICK n \in Nat, k \in Nat \ {0} : n = Cardinality(Rows) /\ k = p.seq_kv /\ Rows = 0 .. n - 1 /\ Cols = 0 .. k - 1
    BY Sizes DEF Cols
  <2>2. r * k + c \in 0 .. n * k - 1
    BY <2>1, RowMajor
  <2> QED
    BY <2>1, <2>2 DEF Strided, QkBlockOf
<1> HIDE DEF S
<1>4. DOMAIN class = S
  OBVIOUS
<1>5. PICK x : x = r * p.seq_kv + c
  OBVIOUS
<1>6. scores'[r][c] = IF x \in S
                        THEN [kind |-> "score", key |-> <<BatchOf(r), KvHeadOf(r), c>>,
                              class |-> IF Masked(r, c) THEN "masked" ELSE class[x]]
                        ELSE scores[r][c]
  BY <1>1, <1>4, <1>5
<1>7. ASSUME x \in S
      PROVE  Scored(r, c)'
  <2>1. class[x] # "masked"
    BY <1>7
  <2>2. /\ scores'[r][c].kind = "score" /\ scores'[r][c].key = Key(r, c)
        /\ scores'[r][c].class = IF Masked(r, c) THEN "masked" ELSE class[x]
    BY <1>6, <1>7 DEF Key
  <2> QED
    BY <1>2, <2>1, <2>2, Parameters DEF Scored
<1> QED
  BY <1>3, <1>5, <1>6, <1>7

\* A block of naive_qk_scale_mask_kernel runs.
LEMMA QkStep ==
  ASSUME IInv, NEW b, QkBlock(b)
  PROVE  IInv'
<1> USE DEF IInv
<1>1. /\ p' = p /\ host' = host /\ out' = out /\ lse' = lse /\ UNCHANGED block
      /\ stream # <<>> /\ stream[1].kind = "qk" /\ b \in stream[1].todo /\ BlockDone(b)
  BY DEF QkBlock, Running
<1>2. /\ stream' \in Seq(KernelType) /\ StreamInv'
      /\ stream[1].todo # {b} =>
           /\ stream' # <<>> /\ stream'[1].kind = "qk"
           /\ stream'[1].todo = stream[1].todo \ {b}
      /\ stream[1].todo = {b} =>
           \/ stream' = <<>> /\ host \in {After("qk"), "failed"}
           \/ /\ stream' # <<>> /\ stream'[1].kind = After("qk")
              /\ stream'[1].todo = Blocks(stream'[1].kind)
  BY <1>1, Advance
<1>3. p \in Problems
  BY DEF Types
<1>4. row = NoRow /\ row' = NoRow /\ pc' = pc
  BY <1>1 DEF RowInv, block
<1>5. BlockInv' /\ RowInv'
  BY <1>4, NoBlock DEF RowInv, NoRow
<1>6. Types'
  <2>1. DOMAIN scores' = Rows
    BY DEF QkBlock
  <2> QED
    BY <1>1, <1>2, <2>1, Parameters DEF Types, block, Warps, KernelType
<1>7. ASSUME NEW r \in Rows, NEW c \in Cols,
             QkBlockOf(r, c) = b \/ Through(QkBlockOf(r, c))
      PROVE  Scored(r, c)'
  <2>1. CASE QkBlockOf(r, c) = b
    BY <1>3, <2>1, QkCells
  <2>2. CASE QkBlockOf(r, c) # b
    <3>1. Scored(r, c)
      BY <1>1, <1>7, <2>2 DEF QkInv, Stage
    <3>2. scores'[r][c] = scores[r][c]
      BY <1>3, <2>2, QkCells
    <3> QED
      BY <1>1, <3>1, <3>2, Parameters DEF Scored
  <2> QED
    BY <2>1, <2>2
<1>8. CASE stream[1].todo # {b}
  <2>1. Stage' = "qk" /\ \A z : Through(z)' <=> z = b \/ Through(z)
    BY <1>1, <1>2, <1>8 DEF Stage, Through
  <2>2. QkInv'
    BY <1>1, <1>7, <2>1, Parameters DEF QkInv
  <2> QED
    BY <1>2, <1>5, <1>6, <2>1, <2>2 DEF SoftmaxInv, PvInv
<1>9. CASE stream[1].todo = {b}
  <2>1. After("qk") = "softmax"
    BY DEF After
  <2>2. \A z : z = b \/ Through(z)
    BY <1>1, <1>9 DEF Through
  <2>3. \A r \in Rows, c \in Cols : Scored(r, c)'
    BY <1>7, <2>2
  <2>4. /\ Stage' \in {"softmax", "failed"} /\ \A r \in Covered : ~Through(r)'
        /\ Covered \subseteq Rows
    BY <1>1, <1>2, <1>3, <1>9, <2>1, OneBlockPerRow DEF Stage, Through
  <2>5. SoftmaxInv'
    BY <1>1, <2>3, <2>4, Parameters DEF SoftmaxInv
  <2> QED
    BY <1>2, <1>5, <1>6, <2>4, <2>5 DEF QkInv, PvInv
<1> QED
  BY <1>8, <1>9

\* A block of naive_pv_kernel runs.
LEMMA PvStep ==
  ASSUME IInv, NEW b, PvBlock(b)
  PROVE  IInv'
<1> USE DEF IInv
<1>1. /\ p' = p /\ host' = host /\ scores' = scores /\ lse' = lse /\ UNCHANGED block
      /\ stream # <<>> /\ stream[1].kind = "pv" /\ b \in stream[1].todo /\ BlockDone(b)
  BY DEF PvBlock, Running
<1>2. /\ stream' \in Seq(KernelType) /\ StreamInv'
      /\ stream[1].todo # {b} =>
           /\ stream' # <<>> /\ stream'[1].kind = "pv"
           /\ stream'[1].todo = stream[1].todo \ {b}
      /\ stream[1].todo = {b} =>
           \/ stream' = <<>> /\ host \in {After("pv"), "failed"}
           \/ /\ stream' # <<>> /\ stream'[1].kind = After("pv")
              /\ stream'[1].todo = Blocks(stream'[1].kind)
  BY <1>1, Advance
<1>3. p \in Problems /\ DOMAIN out = 0 .. Cardinality(Rows) * p.head_dim - 1
  BY DEF Types
<1>4. row = NoRow /\ row' = NoRow /\ pc' = pc
  BY <1>1 DEF RowInv, block
<1>5. BlockInv' /\ RowInv'
  BY <1>4, NoBlock DEF RowInv, NoRow
<1> DEFINE S == Strided(b, Cardinality(Rows) * p.head_dim, Grid(Cardinality(Rows) * p.head_dim, kMaxGrid))
<1>6. out' = [x \in DOMAIN out |-> IF x \in S THEN [kind |-> "sum", terms |-> Terms(x)] ELSE out[x]]
  BY Zenon DEF PvBlock, Terms
<1>7. \A x \in DOMAIN out : x \in S <=> PvBlockOf(x) = b
  BY <1>3 DEF Strided, PvBlockOf
<1> HIDE DEF S
<1>8. DOMAIN out' = DOMAIN out
  BY <1>6
<1>9. Types'
  BY <1>1, <1>2, <1>8, Parameters DEF Types, block, Warps, KernelType
<1>10. \A x : Terms(x)' = Terms(x)
  BY <1>1 DEF Terms, BatchOf, KvHeadOf, HeadOf, Cols
<1>11. ASSUME NEW x \in DOMAIN out, PvBlockOf(x) = b \/ Through(PvBlockOf(x))
       PROVE  Summed(x)'
  <2>1. CASE PvBlockOf(x) = b
    <3>1. out'[x] = [kind |-> "sum", terms |-> Terms(x)]
      BY <1>6, <1>7, <2>1
    <3> QED
      BY <1>10, <3>1 DEF Summed
  <2>2. CASE PvBlockOf(x) # b
    <3>1. Summed(x)
      BY <1>1, <1>11, <2>2 DEF PvInv, Stage
    <3>2. out'[x] = out[x]
      BY <1>6, <1>7, <2>2
    <3> QED
      BY <1>10, <3>1, <3>2 DEF Summed
  <2> QED
    BY <2>1, <2>2
<1>12. \A r \in Covered : RowFinal(r)'
  <2>1. \A r \in Covered : RowFinal(r)
    BY <1>1 DEF PvInv, Stage
  <2> QED
    BY <1>1, <2>1, RowFrame
<1>13. CASE stream[1].todo # {b}
  <2>1. Stage' = "pv" /\ \A z : Through(z)' <=> z = b \/ Through(z)
    BY <1>1, <1>2, <1>13 DEF Stage, Through
  <2>2. PvInv'
    BY <1>1, <1>8, <1>11, <1>12, <2>1, Parameters DEF PvInv
  <2> QED
    BY <1>2, <1>5, <1>9, <2>1, <2>2 DEF SoftmaxInv, QkInv
<1>14. CASE stream[1].todo = {b}
  <2>1. After("pv") = "ok"
    BY DEF After
  <2>2. \A z : z = b \/ Through(z)
    BY <1>1, <1>14 DEF Through
  <2>3. \A x \in DOMAIN out : Summed(x)'
    BY <1>11, <2>2
  <2>4. Stage' \in {"ok", "failed"}
    BY <1>1, <1>2, <1>14, <2>1 DEF Stage
  <2>5. PvInv'
    BY <1>1, <1>8, <1>12, <2>3, <2>4, Parameters DEF PvInv
  <2> QED
    BY <1>2, <1>5, <1>9, <2>4, <2>5 DEF QkInv, SoftmaxInv
<1> QED
  BY <1>13, <1>14

-----------------------------------------------------------------------------
\* The row softmax.  A block becomes resident.
LEMMA StartRowStep ==
  ASSUME IInv, NEW r \in Rows, StartRow(r)
  PROVE  IInv'
<1> USE DEF IInv
<1>1. /\ p' = p /\ host' = host /\ stream' = stream /\ scores' = scores /\ out' = out /\ lse' = lse
      /\ m' = m /\ sum' = sum /\ row = NoRow /\ row' = r
      /\ pc' = [w \in Warps |-> "max"] /\ scratch' = [w \in Warps |-> Stale]
      /\ stream # <<>> /\ stream[1].kind = "softmax" /\ r \in stream[1].todo
  BY DEF StartRow, Running
<1>2. r # NoRow /\ r \in Covered
  <2>1. r \in Blocks("softmax") /\ p \in Problems
    BY <1>1 DEF StreamInv, Types
  <2> QED
    BY <2>1, OneBlockPerRow DEF Rows, NoRow
<1>3. Types'
  BY <1>1, Parameters DEF Types, Warps, KernelType
<1>4. StreamInv'
  <2>1. \A k : After(k)' = After(k)
    BY DEF After
  <2> QED
    BY <1>1, <2>1, Parameters DEF StreamInv
<1>5. RowInv'
  BY <1>1, <1>2, Parameters DEF RowInv
<1>6. Stage' = "softmax" /\ Stage = "softmax" /\ \A b : Through(b)' <=> Through(b)
  BY <1>1 DEF Stage, Through
<1>7. \A i : (RowFinal(i)' <=> RowFinal(i)) /\ \A c : Scored(i, c)' <=> Scored(i, c)
  BY <1>1, RowFrame
<1>8. \A i \in Covered : /\ Through(i) => RowFinal(i)
                         /\ ~Through(i) => \A c \in Cols : Scored(i, c)
  BY <1>1, <1>6 DEF SoftmaxInv, Covered, NoRow
<1>9. SoftmaxInv'
  BY <1>1, <1>6, <1>7, <1>8, Parameters DEF SoftmaxInv
<1>10. Maxima'
  <2>1. \A c \in Cols : Scored(r, c)'
    BY <1>1, <1>2, <1>7, <1>8 DEF Through
  <2>2. RowScored'
    BY <1>1, <2>1, Parameters DEF RowScored
  <2>3. In({"max", "max_written"})' /\ \A w \in Warps : pc'[w] # "max_written"
    BY <1>1 DEF In, Warps
  <2> QED
    BY <2>2, <2>3 DEF Maxima, Warps
<1>11. BlockInv'
  BY <1>1, <1>2, <1>10 DEF BlockInv, NoRow
<1> QED
  BY <1>3, <1>4, <1>5, <1>6, <1>9, <1>11 DEF QkInv, PvInv

\* The resident block ends.
LEMMA EndRowStep ==
  ASSUME IInv, EndRow
  PROVE  IInv'
<1> USE DEF IInv
<1>1. /\ p' = p /\ host' = host /\ scores' = scores /\ out' = out /\ lse' = lse
      /\ row # NoRow /\ row' = NoRow /\ BlockDone(row) /\ pc' = pc /\ scratch' = scratch
      /\ \A w \in Warps : pc[w] = "exit"
      /\ m' = [w \in Warps |-> Nothing] /\ sum' = [w \in Warps |-> {}]
  BY DEF EndRow
<1>2. stream # <<>> /\ stream[1].kind = "softmax" /\ row \in stream[1].todo /\ row \in Rows
  BY <1>1 DEF RowInv
<1>3. /\ stream' \in Seq(KernelType) /\ StreamInv'
      /\ stream[1].todo # {row} =>
           /\ stream' # <<>> /\ stream'[1].kind = "softmax"
           /\ stream'[1].todo = stream[1].todo \ {row}
      /\ stream[1].todo = {row} =>
           \/ stream' = <<>> /\ host \in {After("softmax"), "failed"}
           \/ /\ stream' # <<>> /\ stream'[1].kind = After("softmax")
              /\ stream'[1].todo = Blocks(stream'[1].kind)
  BY <1>1, <1>2, Advance
<1>4. p \in Problems /\ 0 \in Warps /\ DOMAIN out \subseteq Nat
  BY WarpsPartition DEF Types
<1>5. Types'
  BY <1>1, <1>3, Parameters DEF Types, Warps, KernelType
<1>6. BlockInv' /\ RowInv'
  BY <1>1 DEF BlockInv, RowInv, In, NoRow, Warps
<1>7. RowFinal(row)
  <2>1. Skipping \/ Scaling
    <3>1. pc[0] = "exit"
      BY <1>1, <1>4
    <3> QED
      BY <1>1, <1>4, <3>1 DEF BlockInv, In, Maxima, MaxCombination, MaxBroadcast, Exponentials,
                    SumCombination, SumBroadcast
  <2>2. CASE Skipping
    BY <1>1, <1>4, <2>2 DEF Skipping, RowFinal, LseRight
  <2>3. CASE Scaling
    <3>1. \A c \in Cols : Normalised(row, c)
      <4>1. \A w \in Warps : \A c \in Mine(w) : Normalised(row, c)
        BY <1>1, <2>3 DEF Scaling
      <4> QED
        BY <1>4, <4>1, WarpsPartition
    <3> QED
      BY <1>1, <1>4, <2>3, <3>1 DEF Scaling, RowFinal, LseRight
  <2> QED
    BY <2>1, <2>2, <2>3
<1>8. \A i : (RowFinal(i)' <=> RowFinal(i)) /\ \A c : Scored(i, c)' <=> Scored(i, c)
  BY <1>1, RowFrame
<1>9. \A i \in Covered : /\ i = row \/ Through(i) => RowFinal(i)
                         /\ ~(i = row \/ Through(i)) => \A c \in Cols : Scored(i, c)
  BY <1>2, <1>7 DEF SoftmaxInv, Stage
<1>10. CASE stream[1].todo # {row}
  <2>1. Stage' = "softmax" /\ \A z : Through(z)' <=> z = row \/ Through(z)
    BY <1>2, <1>3, <1>10 DEF Stage, Through
  <2>2. SoftmaxInv'
    BY <1>1, <1>8, <1>9, <2>1, Parameters DEF SoftmaxInv
  <2> QED
    BY <1>3, <1>5, <1>6, <2>1, <2>2 DEF QkInv, PvInv
<1>11. CASE stream[1].todo = {row}
  <2>1. After("softmax") = "pv"
    BY DEF After
  <2>2. \A z : z = row \/ Through(z)
    BY <1>2, <1>11 DEF Through
  <2>3. \A i \in Covered : RowFinal(i)'
    BY <1>8, <1>9, <2>2
  <2>4. Stage' \in {"pv", "failed"} /\ \A x \in DOMAIN out : ~Through(PvBlockOf(x))'
    <3>1. \A x \in DOMAIN out : PvBlockOf(x) \in Blocks("pv") /\ PvBlockOf(x)' = PvBlockOf(x)
      BY <1>1, <1>4, BlockOfElement, Parameters
    <3> QED
      BY <1>1, <1>2, <1>3, <1>11, <2>1, <3>1 DEF Stage, Through
  <2>5. PvInv'
    BY <1>1, <2>3, <2>4, Parameters DEF PvInv
  <2> QED
    BY <1>3, <1>5, <1>6, <2>4, <2>5 DEF QkInv, SoftmaxInv
<1> QED
  BY <1>10, <1>11

\* A step of the resident block that keeps to its own row disturbs nothing outside it.
LEMMA BlockStep ==
  ASSUME IInv, row # NoRow, UNCHANGED kernelState,
         DOMAIN scores' = Rows, DOMAIN lse' = Rows, DOMAIN pc' = Warps, DOMAIN scratch' = Warps,
         DOMAIN m' = Warps, DOMAIN sum' = Warps,
         \A r \in Rows : r # row => scores'[r] = scores[r] /\ lse'[r] = lse[r]
  PROVE  Types' /\ StreamInv' /\ RowInv' /\ QkInv' /\ SoftmaxInv' /\ PvInv'
<1> USE DEF IInv
<1>1. p' = p /\ host' = host /\ stream' = stream /\ out' = out /\ row' = row
  BY DEF kernelState
<1>2. Types'
  BY <1>1, Parameters DEF Types, Warps, KernelType
<1>3. StreamInv'
  <2>1. \A k : After(k)' = After(k)
    BY DEF After
  <2> QED
    BY <1>1, <2>1, Parameters DEF StreamInv
<1>4. RowInv'
  BY <1>1, Parameters DEF RowInv
<1>5. Stage' = "softmax" /\ Stage = "softmax" /\ ~Through(row) /\ \A b : Through(b)' <=> Through(b)
  BY <1>1 DEF Stage, Through, RowInv
<1>6. \A i \in Covered : i # row => (RowFinal(i)' <=> RowFinal(i)) /\ \A c : Scored(i, c)' <=> Scored(i, c)
  BY <1>1, RowFrame, OneBlockPerRow DEF Types
<1>7. SoftmaxInv'
  BY <1>1, <1>5, <1>6, Parameters DEF SoftmaxInv
<1> QED
  BY <1>2, <1>3, <1>4, <1>5, <1>7 DEF QkInv, PvInv

\* Which phase a warp's label belongs to.
LEMMA PhaseOf ==
  ASSUME BlockInv, row # NoRow, NEW w \in Warps
  PROVE  /\ pc[w] \in {"max", "max_written"} => Maxima
         /\ pc[w] \in {"max_combine", "max_combined"} => MaxCombination
         /\ pc[w] \in {"max_read", "max_done"} => MaxBroadcast
         /\ pc[w] = "sum_written" => Exponentials
         /\ pc[w] = "exp" => Exponentials \/ Skipping
         /\ pc[w] \in {"sum_combine", "sum_combined"} => SumCombination
         /\ pc[w] \in {"sum_read", "sum_done"} => SumBroadcast
         /\ pc[w] = "scale" => Skipping \/ Scaling
<1>1. \/ Maxima \/ MaxCombination \/ MaxBroadcast \/ Exponentials \/ Skipping
      \/ SumCombination \/ SumBroadcast \/ Scaling
  BY DEF BlockInv
<1>2. /\ Maxima => pc[w] \in {"max", "max_written"}
      /\ MaxCombination => pc[w] \in {"max_combine", "max_combined"}
      /\ MaxBroadcast => pc[w] \in {"max_read", "max_done"}
      /\ Exponentials => pc[w] \in {"exp", "sum_written"}
      /\ Skipping => pc[w] \in {"exp", "scale", "exit"}
      /\ SumCombination => pc[w] \in {"sum_combine", "sum_combined"}
      /\ SumBroadcast => pc[w] \in {"sum_read", "sum_done"}
      /\ Scaling => pc[w] \in {"scale", "exit"}
  BY DEF Maxima, MaxCombination, MaxBroadcast, Exponentials, Skipping, SumCombination,
         SumBroadcast, Scaling, In
<1> QED
  BY <1>1, <1>2

\* Cells of the resident row that do not change.
LEMMA CellFrame ==
  ASSUME p' = p, row' = row, NEW c, scores'[row][c] = scores[row][c]
  PROVE  /\ Scored(row, c)' <=> Scored(row, c)
         /\ Shifted(row, c)' <=> Shifted(row, c)
         /\ Normalised(row, c)' <=> Normalised(row, c)
  BY Parameters DEF Scored, Shifted, Normalised

\* A warp reduces its columns and stores the result in its cell of scratch[].
LEMMA WarpMaxStep ==
  ASSUME IInv, row # NoRow, NEW w \in Warps, WarpMax(w)
  PROVE  IInv'
<1> USE DEF IInv
<1> DEFINE good == {c \in Mine(w) : data[c].kind = "score"}
           cell == [kind |-> "max", cols |-> good, class |-> MaxClass({data[c].class : c \in good})]
<1>1. /\ UNCHANGED kernelState /\ p' = p /\ row' = row /\ pc[w] = "max"
      /\ pc' = [pc EXCEPT ![w] = "max_written"]
      /\ scratch' = [scratch EXCEPT ![w] = cell]
      /\ scores' = scores /\ lse' = lse /\ m' = m /\ sum' = sum
  BY DEF WarpMax, Goto, kernelState
<1>2. Maxima
  BY <1>1, PhaseOf
<1>3. good = Mine(w)
  <2>1. \A c \in Mine(w) : data[c].kind = "score"
    BY <1>2, WarpsPartition DEF Maxima, RowScored, Scored, data, Types
  <2> QED
    BY <2>1
<1>4. cell.kind = "max" /\ cell.cols = Mine(w)
  BY <1>3
<1> HIDE DEF cell
<1>5. DOMAIN pc = Warps /\ DOMAIN scratch = Warps
  BY DEF Types
<1>6. /\ DOMAIN pc' = Warps /\ DOMAIN scratch' = Warps
      /\ \A u \in Warps : /\ pc'[u] = IF u = w THEN "max_written" ELSE pc[u]
                          /\ scratch'[u] = IF u = w THEN cell ELSE scratch[u]
  BY <1>1, <1>5
<1>7. Types' /\ StreamInv' /\ RowInv' /\ QkInv' /\ SoftmaxInv' /\ PvInv'
  BY <1>1, <1>6, BlockStep DEF Types
<1>8. Maxima'
  <2>1. In({"max", "max_written"})'
    BY <1>2, <1>6 DEF Maxima, In, Warps
  <2>2. RowScored'
    BY <1>1, <1>2, CellFrame, Parameters DEF Maxima, RowScored
  <2>3. \A u \in Warps : pc'[u] = "max_written" => scratch'[u].kind = "max" /\ scratch'[u].cols = Mine(u)
    BY <1>2, <1>4, <1>6 DEF Maxima, HasMax
  <2> QED
    BY <1>1, <2>1, <2>2, <2>3, Parameters DEF Maxima, HasMax, Warps
<1> QED
  BY <1>1, <1>7, <1>8 DEF BlockInv, NoRow

\* Warp 0 combines the cells of all warps; the other warps leave them alone.
LEMMA CombineMaxStep ==
  ASSUME IInv, row # NoRow, NEW w \in Warps, CombineMax(w)
  PROVE  IInv'
<1> USE DEF IInv
<1> DEFINE cells == {scratch[u] : u \in Warps}
           good == {c \in cells : c.kind = "max"}
           all == UNION {c.cols : c \in good}
           cell == [kind |-> "max", cols |-> all, class |-> MaxClass({c.class : c \in good})]
<1>1. /\ UNCHANGED kernelState /\ p' = p /\ row' = row /\ pc[w] = "max_combine"
      /\ pc' = [pc EXCEPT ![w] = "max_combined"]
      /\ scratch' = IF w # 0 THEN scratch ELSE [scratch EXCEPT ![0] = cell]
      /\ scores' = scores /\ lse' = lse /\ m' = m /\ sum' = sum
  BY DEF CombineMax, Goto, kernelState
<1>2. MaxCombination
  BY <1>1, PhaseOf
<1>3. ASSUME w = 0
      PROVE  all = Cols
  <2>1. \A u \in Warps : scratch[u].kind = "max" /\ scratch[u].cols = Mine(u)
    BY <1>1, <1>2, <1>3 DEF MaxCombination, HasMax
  <2>2. good = cells
    BY <2>1
  <2>3. \A c \in good : c.cols \subseteq Cols
    BY <2>1, WarpsPartition DEF Types
  <2>4. ASSUME NEW c \in Cols PROVE c \in all
    <3>1. PICK u \in Warps : c \in Mine(u)
      BY WarpsPartition DEF Types
    <3>2. scratch[u] \in good /\ c \in scratch[u].cols
      BY <2>1, <2>2, <3>1
    <3> QED
      BY <3>2
  <2> QED
    BY <2>3, <2>4
<1>4. cell.kind = "max" /\ cell.cols = all
  OBVIOUS
<1> HIDE DEF cell, all
<1>5. DOMAIN pc = Warps /\ DOMAIN scratch = Warps
  BY DEF Types
<1>6. /\ DOMAIN pc' = Warps /\ DOMAIN scratch' = Warps
      /\ \A u \in Warps : /\ pc'[u] = IF u = w THEN "max_combined" ELSE pc[u]
                          /\ scratch'[u] = IF w = 0 /\ u = 0 THEN cell ELSE scratch[u]
  BY <1>1, <1>5
<1>7. Types' /\ StreamInv' /\ RowInv' /\ QkInv' /\ SoftmaxInv' /\ PvInv'
  BY <1>1, <1>6, BlockStep DEF Types
<1>8. MaxCombination'
  <2>1. In({"max_combine", "max_combined"})'
    BY <1>2, <1>6 DEF MaxCombination, In, Warps
  <2>2. RowScored'
    BY <1>1, <1>2, CellFrame, Parameters DEF MaxCombination, RowScored
  <2>3. 0 \in Warps
    BY WarpsPartition DEF Types
  <2>4. \A u \in Warps : u # 0 \/ pc'[u] = "max_combine" =>
                           scratch'[u].kind = "max" /\ scratch'[u].cols = Mine(u)
    BY <1>2, <1>6 DEF MaxCombination, HasMax
  <2>5. pc'[0] = "max_combined" => scratch'[0].kind = "max" /\ scratch'[0].cols = Cols
    BY <1>2, <1>3, <1>4, <1>6, <2>3 DEF MaxCombination, HasMax
  <2> QED
    BY <1>1, <2>1, <2>2, <2>4, <2>5, Parameters DEF MaxCombination, HasMax, Warps
<1> QED
  BY <1>1, <1>7, <1>8 DEF BlockInv, NoRow

\* A warp reads the maximum out of scratch[0].
LEMMA ReadMaxStep ==
  ASSUME IInv, row # NoRow, NEW w \in Warps, ReadMax(w)
  PROVE  IInv'
<1> USE DEF IInv
<1>1. /\ UNCHANGED kernelState /\ p' = p /\ row' = row /\ pc[w] = "max_read"
      /\ pc' = [pc EXCEPT ![w] = "max_done"]
      /\ m' = [m EXCEPT ![w] = IF scratch[0].kind = "max"
                                 THEN [cols |-> scratch[0].cols, class |-> scratch[0].class]
                                 ELSE Nothing]
      /\ scores' = scores /\ lse' = lse /\ scratch' = scratch /\ sum' = sum
  BY DEF ReadMax, Goto, kernelState
<1>2. MaxBroadcast
  BY <1>1, PhaseOf
<1>3. scratch[0].kind = "max" /\ scratch[0].cols = Cols
  BY <1>2 DEF MaxBroadcast, HasMax
<1>5. DOMAIN pc = Warps /\ DOMAIN m = Warps
  BY DEF Types
<1>6. /\ DOMAIN pc' = Warps /\ DOMAIN m' = Warps
      /\ \A u \in Warps : /\ pc'[u] = IF u = w THEN "max_done" ELSE pc[u]
                          /\ u # w => m'[u] = m[u]
      /\ m'[w].cols = Cols /\ m'[w].class = scratch[0].class
  BY <1>1, <1>3, <1>5
<1>7. Types' /\ StreamInv' /\ RowInv' /\ QkInv' /\ SoftmaxInv' /\ PvInv'
  BY <1>1, <1>6, BlockStep DEF Types
<1>8. MaxBroadcast'
  <2>1. In({"max_read", "max_done"})'
    BY <1>2, <1>6 DEF MaxBroadcast, In, Warps
  <2>2. RowScored'
    BY <1>1, <1>2, CellFrame, Parameters DEF MaxBroadcast, RowScored
  <2>3. \A u \in Warps : pc'[u] = "max_done" => m'[u].cols = Cols /\ m'[u].class = scratch[0].class
    BY <1>2, <1>6 DEF MaxBroadcast
  <2> QED
    BY <1>1, <1>3, <2>1, <2>2, <2>3, Parameters DEF MaxBroadcast, HasMax, Warps
<1> QED
  BY <1>1, <1>7, <1>8 DEF BlockInv, NoRow

\* A warp shifts its own columns, which no other warp reads, and reuses its cell.
LEMMA ExponentiateStep ==
  ASSUME IInv, row # NoRow, NEW w \in Warps, Exponentiate(w)
  PROVE  IInv'
<1> USE DEF IInv
<1> DEFINE new == [c \in Cols |->
             IF c \in Mine(w) /\ data[c].kind = "score"
               THEN [kind |-> "exp", key |-> data[c].key, class |-> data[c].class, max |-> m[w].cols]
               ELSE data[c]]
           cell == [kind |-> "sum", cols |-> Mine(w)]
<1>1. /\ UNCHANGED kernelState /\ p' = p /\ row' = row /\ pc[w] = "exp" /\ ~all_masked(w)
      /\ pc' = [pc EXCEPT ![w] = "sum_written"]
      /\ scores' = [scores EXCEPT ![row] = new]
      /\ scratch' = [scratch EXCEPT ![w] = cell]
      /\ lse' = lse /\ m' = m /\ sum' = sum
  BY DEF Exponentiate, Goto, kernelState
<1>2. Exponentials
  <2>1. 0 \in Warps
    BY WarpsPartition DEF Types
  <2>2. Exponentials \/ Skipping
    BY <1>1, PhaseOf
  <2>3. ~Skipping
    BY <1>1, <2>1 DEF Skipping, GotMax, all_masked
  <2> QED
    BY <2>2, <2>3
<1>3. cell.kind = "sum" /\ cell.cols = Mine(w)
  OBVIOUS
<1>4. /\ \A c \in Cols : c \notin Mine(w) => new[c] = scores[row][c]
      /\ \A c \in Mine(w) : /\ new[c].kind = "exp" /\ new[c].key = scores[row][c].key
                            /\ new[c].class = scores[row][c].class /\ new[c].max = Cols
  <2>1. \A c \in Mine(w) : data[c].kind = "score" /\ c \in Cols
    BY <1>1, <1>2, WarpsPartition DEF Exponentials, Scored, data, Types
  <2>2. m[w].cols = Cols
    BY <1>2 DEF Exponentials, GotMax
  <2> QED
    BY <2>1, <2>2 DEF data
<1> HIDE DEF cell, new
<1>5. DOMAIN pc = Warps /\ DOMAIN scratch = Warps /\ DOMAIN scores = Rows /\ row \in Rows
  BY DEF Types, RowInv
<1>6. /\ DOMAIN pc' = Warps /\ DOMAIN scratch' = Warps /\ DOMAIN scores' = Rows
      /\ \A u \in Warps : /\ pc'[u] = IF u = w THEN "sum_written" ELSE pc[u]
                          /\ scratch'[u] = IF u = w THEN cell ELSE scratch[u]
      /\ \A r \in Rows : r # row => scores'[r] = scores[r]
      /\ scores'[row] = new
  BY <1>1, <1>5
<1>7. Types' /\ StreamInv' /\ RowInv' /\ QkInv' /\ SoftmaxInv' /\ PvInv'
  BY <1>1, <1>6, BlockStep DEF Types
<1>8. \A u \in Warps : u # w => \A c \in Mine(u) :
        (Scored(row, c)' <=> Scored(row, c)) /\ (Shifted(row, c)' <=> Shifted(row, c))
  <2>1. \A u \in Warps : u # w => \A c \in Mine(u) : scores'[row][c] = scores[row][c]
    BY <1>4, <1>6, WarpsPartition DEF Types
  <2> QED
    BY <1>1, <2>1, CellFrame
<1>9. \A c \in Mine(w) : Shifted(row, c)'
  <2>1. \A c \in Mine(w) : Scored(row, c)
    BY <1>1, <1>2 DEF Exponentials
  <2>2. ASSUME NEW c \in Mine(w)
        PROVE  /\ scores'[row][c].kind = "exp" /\ scores'[row][c].key = Key(row, c)
               /\ scores'[row][c].max = Cols
               /\ scores'[row][c].class = "masked" <=> Masked(row, c)
    BY <1>4, <1>6, <2>1, <2>2 DEF Scored
  <2> QED
    BY <1>1, <2>2, Parameters DEF Shifted
<1>10. Exponentials'
  <2>1. In({"exp", "sum_written"})'
    BY <1>2, <1>6 DEF Exponentials, In, Warps
  <2>2. GotMax'
    BY <1>1, <1>2, Parameters DEF Exponentials, GotMax, Warps
  <2>3. ASSUME NEW u \in Warps
        PROVE  /\ pc'[u] = "exp" => \A c \in Mine(u) : Scored(row, c)'
               /\ pc'[u] = "sum_written" => /\ ~all_masked(u)'
                                            /\ scratch'[u].kind = "sum" /\ scratch'[u].cols = Mine(u)
                                            /\ \A c \in Mine(u) : Shifted(row, c)'
    <3>1. CASE u = w
      <4>1. ~all_masked(u)'
        BY <1>1, <3>1 DEF all_masked
      <4> QED
        BY <1>3, <1>6, <1>9, <3>1, <4>1
    <3>2. CASE u # w
      <4>1. all_masked(u)' <=> all_masked(u)
        BY <1>1 DEF all_masked
      <4> QED
        BY <1>2, <1>6, <1>8, <3>2, <4>1 DEF Exponentials, HasSum
    <3> QED
      BY <3>1, <3>2
  <2> QED
    BY <1>1, <2>1, <2>2, <2>3, Parameters DEF Exponentials, HasSum, Warps
<1> QED
  BY <1>1, <1>7, <1>10 DEF BlockInv, NoRow

\* A row without a finite maximum: all warps take this branch or none does.
LEMMA SkipSumStep ==
  ASSUME IInv, row # NoRow, NEW w \in Warps, SkipSum(w)
  PROVE  IInv'
<1> USE DEF IInv
<1>1. /\ UNCHANGED kernelState /\ p' = p /\ row' = row /\ pc[w] = "exp" /\ all_masked(w)
      /\ pc' = [pc EXCEPT ![w] = "scale"]
      /\ scores' = scores /\ lse' = lse /\ m' = m /\ sum' = sum /\ scratch' = scratch
  BY DEF SkipSum, Goto, kernelState
<1>2. 0 \in Warps
  BY WarpsPartition DEF Types
<1>3. /\ GotMax /\ all_masked(0) /\ (pc[0] = "exit" => lse[row].kind = "neginf")
      /\ \A u \in Warps : pc[u] \in {"exp", "scale", "exit"}
  <2>1. CASE Skipping
    BY <2>1 DEF Skipping, In
  <2>2. CASE Exponentials
    <3>1. \A u \in Warps : all_masked(u)
      BY <1>1, <1>2, <2>2 DEF Exponentials, GotMax, all_masked
    <3>2. \A u \in Warps : pc[u] = "exp"
      BY <2>2, <3>1 DEF Exponentials, In
    <3> QED
      BY <1>2, <2>2, <3>1, <3>2 DEF Exponentials
  <2> QED
    BY <1>1, <2>1, <2>2, PhaseOf
<1>5. DOMAIN pc = Warps
  BY DEF Types
<1>6. /\ DOMAIN pc' = Warps
      /\ \A u \in Warps : pc'[u] = IF u = w THEN "scale" ELSE pc[u]
  BY <1>1, <1>5
<1>7. Types' /\ StreamInv' /\ RowInv' /\ QkInv' /\ SoftmaxInv' /\ PvInv'
  BY <1>1, <1>6, BlockStep DEF Types
<1>8. Skipping'
  <2>1. In({"exp", "scale", "exit"})'
    BY <1>3, <1>6 DEF In, Warps
  <2>2. GotMax' /\ all_masked(0)'
    BY <1>1, <1>3, Parameters DEF GotMax, all_masked, Warps
  <2>3. pc'[0] = "exit" => lse'[row'].kind = "neginf"
    BY <1>1, <1>2, <1>3, <1>6
  <2> QED
    BY <2>1, <2>2, <2>3 DEF Skipping
<1> QED
  BY <1>1, <1>7, <1>8 DEF BlockInv, NoRow

\* The shifted row stays while the sums are reduced.
LEMMA RowShiftedFrame ==
  ASSUME RowShifted, p' = p, row' = row, scores' = scores, m' = m
  PROVE  RowShifted'
<1>1. GotMax' /\ ~all_masked(0)'
  BY Parameters DEF RowShifted, GotMax, all_masked, Warps
<1> QED
  BY <1>1, CellFrame, Parameters DEF RowShifted

\* Warp 0 combines the partial sums.
LEMMA CombineSumStep ==
  ASSUME IInv, row # NoRow, NEW w \in Warps, CombineSum(w)
  PROVE  IInv'
<1> USE DEF IInv
<1> DEFINE good == {scratch[u] : u \in {v \in Warps : scratch[v].kind = "sum"}}
           all == UNION {c.cols : c \in good}
           cell == [kind |-> "sum", cols |-> all]
<1>1. /\ UNCHANGED kernelState /\ p' = p /\ row' = row /\ pc[w] = "sum_combine"
      /\ pc' = [pc EXCEPT ![w] = "sum_combined"]
      /\ scratch' = IF w # 0 THEN scratch ELSE [scratch EXCEPT ![0] = cell]
      /\ scores' = scores /\ lse' = lse /\ m' = m /\ sum' = sum
  BY DEF CombineSum, Goto, kernelState
<1>2. SumCombination
  BY <1>1, PhaseOf
<1>3. ASSUME w = 0
      PROVE  all = Cols
  <2>1. \A u \in Warps : scratch[u].kind = "sum" /\ scratch[u].cols = Mine(u)
    BY <1>1, <1>2, <1>3 DEF SumCombination, HasSum
  <2>2. \A u \in Warps : scratch[u] \in good
    BY <2>1
  <2>3. \A c \in good : c.cols \subseteq Cols
    BY <2>1, WarpsPartition DEF Types
  <2>4. ASSUME NEW c \in Cols PROVE c \in all
    <3>1. PICK u \in Warps : c \in Mine(u)
      BY WarpsPartition DEF Types
    <3>2. scratch[u] \in good /\ c \in scratch[u].cols
      BY <2>1, <2>2, <3>1
    <3> QED
      BY <3>2
  <2> QED
    BY <2>3, <2>4
<1>4. cell.kind = "sum" /\ cell.cols = all
  OBVIOUS
<1> HIDE DEF cell, all
<1>5. DOMAIN pc = Warps /\ DOMAIN scratch = Warps
  BY DEF Types
<1>6. /\ DOMAIN pc' = Warps /\ DOMAIN scratch' = Warps
      /\ \A u \in Warps : /\ pc'[u] = IF u = w THEN "sum_combined" ELSE pc[u]
                          /\ scratch'[u] = IF w = 0 /\ u = 0 THEN cell ELSE scratch[u]
  BY <1>1, <1>5
<1>7. Types' /\ StreamInv' /\ RowInv' /\ QkInv' /\ SoftmaxInv' /\ PvInv'
  BY <1>1, <1>6, BlockStep DEF Types
<1>8. SumCombination'
  <2>1. In({"sum_combine", "sum_combined"})'
    BY <1>2, <1>6 DEF SumCombination, In, Warps
  <2>2. RowShifted'
    BY <1>1, <1>2, RowShiftedFrame DEF SumCombination
  <2>3. 0 \in Warps
    BY WarpsPartition DEF Types
  <2>4. \A u \in Warps : u # 0 \/ pc'[u] = "sum_combine" =>
                           scratch'[u].kind = "sum" /\ scratch'[u].cols = Mine(u)
    BY <1>2, <1>6 DEF SumCombination, HasSum
  <2>5. pc'[0] = "sum_combined" => scratch'[0].kind = "sum" /\ scratch'[0].cols = Cols
    BY <1>2, <1>3, <1>4, <1>6, <2>3 DEF SumCombination, HasSum
  <2> QED
    BY <1>1, <2>1, <2>2, <2>4, <2>5, Parameters DEF SumCombination, HasSum, Warps
<1> QED
  BY <1>1, <1>7, <1>8 DEF BlockInv, NoRow

\* A warp reads the sum out of scratch[0].
LEMMA ReadSumStep ==
  ASSUME IInv, row # NoRow, NEW w \in Warps, ReadSum(w)
  PROVE  IInv'
<1> USE DEF IInv
<1>1. /\ UNCHANGED kernelState /\ p' = p /\ row' = row /\ pc[w] = "sum_read"
      /\ pc' = [pc EXCEPT ![w] = "sum_done"]
      /\ sum' = [sum EXCEPT ![w] = IF scratch[0].kind = "sum" THEN scratch[0].cols ELSE {}]
      /\ scores' = scores /\ lse' = lse /\ scratch' = scratch /\ m' = m
  BY DEF ReadSum, Goto, kernelState
<1>2. SumBroadcast
  BY <1>1, PhaseOf
<1>3. scratch[0].kind = "sum" /\ scratch[0].cols = Cols
  BY <1>2 DEF SumBroadcast, HasSum
<1>5. DOMAIN pc = Warps /\ DOMAIN sum = Warps
  BY DEF Types
<1>6. /\ DOMAIN pc' = Warps /\ DOMAIN sum' = Warps
      /\ \A u \in Warps : /\ pc'[u] = IF u = w THEN "sum_done" ELSE pc[u]
                          /\ sum'[u] = IF u = w THEN Cols ELSE sum[u]
  BY <1>1, <1>3, <1>5
<1>7. Types' /\ StreamInv' /\ RowInv' /\ QkInv' /\ SoftmaxInv' /\ PvInv'
  BY <1>1, <1>6, BlockStep DEF Types
<1>8. SumBroadcast'
  <2>1. In({"sum_read", "sum_done"})'
    BY <1>2, <1>6 DEF SumBroadcast, In, Warps
  <2>2. RowShifted'
    BY <1>1, <1>2, RowShiftedFrame DEF SumBroadcast
  <2>3. \A u \in Warps : pc'[u] = "sum_done" => sum'[u] = Cols
    BY <1>2, <1>6 DEF SumBroadcast
  <2> QED
    BY <1>1, <1>3, <2>1, <2>2, <2>3, Parameters DEF SumBroadcast, HasSum, Warps
<1> QED
  BY <1>1, <1>7, <1>8 DEF BlockInv, NoRow

\* A warp normalises its columns, and warp 0 stores the log-sum-exp.
LEMMA ScaleStep ==
  ASSUME IInv, row # NoRow, NEW w \in Warps, Scale(w)
  PROVE  IInv'
<1> USE DEF IInv
<1> DEFINE new == [c \in Cols |-> IF c \in Mine(w) THEN Scaled(w, data[c]) ELSE data[c]]
           value == IF all_masked(w) THEN [kind |-> "neginf"]
                    ELSE [kind |-> "lse", max |-> m[w].cols, sum |-> sum[w]]
<1>1. /\ UNCHANGED kernelState /\ p' = p /\ row' = row /\ pc[w] = "scale"
      /\ pc' = [pc EXCEPT ![w] = "exit"]
      /\ scores' = [scores EXCEPT ![row] = new]
      /\ lse' = IF w # 0 THEN lse ELSE [lse EXCEPT ![row] = value]
      /\ scratch' = scratch /\ m' = m /\ sum' = sum
  BY DEF Scale, Goto, kernelState
<1>2. 0 \in Warps
  BY WarpsPartition DEF Types
<1>3. Skipping \/ Scaling
  BY <1>1, PhaseOf
<1>4. GotMax
  BY <1>3 DEF Skipping, Scaling
<1>5. /\ DOMAIN pc = Warps /\ DOMAIN scores = Rows /\ DOMAIN lse = Rows /\ row \in Rows
  BY DEF Types, RowInv
<1>6. \A c \in Cols : new[c] = IF c \in Mine(w) THEN Scaled(w, scores[row][c]) ELSE scores[row][c]
  BY DEF data
<1>7. /\ all_masked(w) => value.kind = "neginf"
      /\ ~all_masked(w) => value.kind = "lse" /\ value.max = m[w].cols /\ value.sum = sum[w]
  OBVIOUS
<1> HIDE DEF new, value
<1>8. /\ DOMAIN pc' = Warps /\ DOMAIN scores' = Rows /\ DOMAIN lse' = Rows
      /\ \A u \in Warps : pc'[u] = IF u = w THEN "exit" ELSE pc[u]
      /\ \A r \in Rows : r # row => scores'[r] = scores[r] /\ lse'[r] = lse[r]
      /\ scores'[row] = new
      /\ lse'[row] = IF w = 0 THEN value ELSE lse[row]
  BY <1>1, <1>5
<1>9. Types' /\ StreamInv' /\ RowInv' /\ QkInv' /\ SoftmaxInv' /\ PvInv'
  BY <1>1, <1>8, BlockStep DEF Types
<1>10. GotMax' /\ (all_masked(0)' <=> all_masked(0)) /\ (all_masked(w) <=> all_masked(0))
  BY <1>1, <1>2, <1>4, Parameters DEF GotMax, all_masked, Warps
<1>11. CASE Skipping
  <2>1. In({"exp", "scale", "exit"})'
    BY <1>8, <1>11 DEF Skipping, In, Warps
  <2>2. all_masked(0)
    BY <1>11 DEF Skipping
  <2>3. pc'[0] = "exit" => lse'[row'].kind = "neginf"
    BY <1>1, <1>2, <1>7, <1>8, <1>10, <1>11, <2>2 DEF Skipping
  <2>4. Skipping'
    BY <1>10, <2>1, <2>2, <2>3 DEF Skipping
  <2> QED
    BY <1>1, <1>9, <2>4 DEF BlockInv, NoRow
<1>12. CASE Scaling
  <2>1. In({"scale", "exit"})'
    BY <1>8, <1>12 DEF Scaling, In, Warps
  <2>2. ~all_masked(0) /\ ~all_masked(w) /\ sum[w] = Cols /\ m[w].cols = Cols
    BY <1>4, <1>10, <1>12 DEF Scaling, GotMax
  <2>3. \A u \in Warps : u # w => \A c \in Mine(u) :
          (Shifted(row, c)' <=> Shifted(row, c)) /\ (Normalised(row, c)' <=> Normalised(row, c))
    <3>1. \A u \in Warps : u # w => \A c \in Mine(u) : scores'[row][c] = scores[row][c]
      BY <1>6, <1>8, WarpsPartition DEF Types
    <3> QED
      BY <1>1, <3>1, CellFrame
  <2>4. ASSUME NEW c \in Mine(w)
        PROVE  Normalised(row, c)'
    <3>1. Shifted(row, c) /\ c \in Cols
      BY <1>1, <1>12, WarpsPartition DEF Scaling, Types
    <3>2. PICK old : old = scores[row][c]
      OBVIOUS
    <3>3. scores'[row][c] = Scaled(w, old)
      BY <1>6, <1>8, <3>1, <3>2
    <3>4. /\ old.kind = "exp" /\ old.key = Key(row, c) /\ old.max = Cols
          /\ old.class = "masked" <=> Masked(row, c)
      BY <3>1, <3>2 DEF Shifted
    <3>5. Scaled(w, old) = [kind |-> "prob", key |-> old.key, class |-> old.class, max |-> old.max,
                            sum |-> sum[w]]
      BY <2>2, <3>4 DEF Scaled
    <3>6. /\ scores'[row][c].kind = "prob" /\ scores'[row][c].key = Key(row, c)
          /\ scores'[row][c].max = Cols /\ scores'[row][c].sum = Cols
          /\ scores'[row][c].class = "masked" <=> Masked(row, c)
      BY <2>2, <3>3, <3>4, <3>5
    <3> QED
      BY <1>1, <3>6, Parameters DEF Normalised
  <2>5. ASSUME NEW u \in Warps
        PROVE  /\ sum'[u] = Cols
               /\ pc'[u] = "scale" => \A c \in Mine(u) : Shifted(row, c)'
               /\ pc'[u] = "exit" => \A c \in Mine(u) : Normalised(row, c)'
    BY <1>1, <1>8, <1>12, <2>3, <2>4 DEF Scaling
  <2>6. pc'[0] = "exit" => lse'[row].kind = "lse" /\ lse'[row].max = Cols /\ lse'[row].sum = Cols
    BY <1>2, <1>7, <1>8, <1>12, <2>2 DEF Scaling
  <2>7. Scaling'
    BY <1>1, <1>10, <2>1, <2>2, <2>5, <2>6, Parameters DEF Scaling, Warps
  <2> QED
    BY <1>1, <1>9, <2>7 DEF BlockInv, NoRow
<1> QED
  BY <1>3, <1>11, <1>12

\* A barrier takes the whole block from one phase to the next.
LEMMA BarrierStep ==
  ASSUME IInv, SyncThreads
  PROVE  IInv'
<1> USE DEF IInv
<1>1. /\ row # NoRow /\ UNCHANGED kernelState /\ p' = p /\ row' = row
      /\ scores' = scores /\ lse' = lse /\ scratch' = scratch /\ m' = m /\ sum' = sum
      /\ DOMAIN pc' = Warps
  BY DEF SyncThreads, LastMaxBarrier, Barrier, kernelState
<1>2. 0 \in Warps
  BY WarpsPartition DEF Types
<1>3. Types' /\ StreamInv' /\ RowInv' /\ QkInv' /\ SoftmaxInv' /\ PvInv'
  BY <1>1, BlockStep DEF Types
<1>4. /\ \A c : /\ Scored(row, c)' <=> Scored(row, c)
                /\ Shifted(row, c)' <=> Shifted(row, c)
                /\ Normalised(row, c)' <=> Normalised(row, c)
      /\ Warps' = Warps /\ Cols' = Cols /\ \A w : Mine(w)' = Mine(w)
  BY <1>1, CellFrame, Parameters DEF Warps
<1>5. /\ RowScored' <=> RowScored
      /\ \A w, cols : (HasMax(w, cols)' <=> HasMax(w, cols)) /\ (HasSum(w, cols)' <=> HasSum(w, cols))
  BY <1>1, <1>4 DEF RowScored, HasMax, HasSum
<1>6. (GotMax' <=> GotMax) /\ (\A w : all_masked(w)' <=> all_masked(w)) /\ (RowShifted' <=> RowShifted)
  <2>1. (GotMax' <=> GotMax) /\ (\A w : all_masked(w)' <=> all_masked(w))
    BY <1>1, <1>4 DEF GotMax, all_masked
  <2> QED
    BY <1>1, <1>4, <2>1 DEF RowShifted
<1>7. SUFFICES ASSUME NEW from, NEW to, Barrier(from, to),
                      \/ from = "max_written" /\ to = "max_combine"
                      \/ from = "max_combined" /\ to = "max_read"
                      \/ from = "max_done" /\ to = "exp"
                      \/ from = "sum_written" /\ to = "sum_combine"
                      \/ from = "sum_combined" /\ to = "sum_read"
                      \/ from = "sum_done" /\ to = "scale"
               PROVE  \/ Maxima' \/ MaxCombination' \/ MaxBroadcast' \/ Exponentials' \/ Skipping'
                      \/ SumCombination' \/ SumBroadcast' \/ Scaling'
  BY <1>1, <1>3 DEF BlockInv, NoRow, SyncThreads, LastMaxBarrier
<1>8. \A w \in Warps : pc[w] = from /\ pc'[w] = to
  BY <1>7 DEF Barrier
<1>9. \A L : to \in L => In(L)'
  BY <1>4, <1>8 DEF In
<1>10. \A w \in Warps : Mine(w) \subseteq Cols
  BY WarpsPartition DEF Types
<1>11. CASE from = "max_written" /\ to = "max_combine"
  <2>1. Maxima
    BY <1>1, <1>2, <1>8, <1>11, PhaseOf
  <2> QED
    BY <1>2, <1>4, <1>5, <1>8, <1>9, <1>11, <2>1 DEF Maxima, MaxCombination
<1>12. CASE from = "max_combined" /\ to = "max_read"
  <2>1. MaxCombination
    BY <1>1, <1>2, <1>8, <1>12, PhaseOf
  <2> QED
    BY <1>2, <1>4, <1>5, <1>8, <1>9, <1>12, <2>1 DEF MaxBroadcast, MaxCombination
<1>13. CASE from = "max_done" /\ to = "exp"
  <2>1. MaxBroadcast
    BY <1>1, <1>2, <1>8, <1>13, PhaseOf
  <2>2. GotMax
    BY <1>2, <1>8, <1>13, <2>1 DEF MaxBroadcast, GotMax
  <2>3. \A w \in Warps : \A c \in Mine(w) : Scored(row, c)
    BY <1>10, <2>1 DEF MaxBroadcast, RowScored
  <2> QED
    BY <1>1, <1>4, <1>6, <1>8, <1>9, <1>13, <2>2, <2>3 DEF Exponentials
<1>14. CASE from = "sum_written" /\ to = "sum_combine"
  <2>1. Exponentials
    BY <1>1, <1>2, <1>8, <1>14, PhaseOf
  <2>2. \A c \in Cols : Shifted(row, c)
    <3>1. \A w \in Warps : \A c \in Mine(w) : Shifted(row, c)
      BY <1>8, <1>14, <2>1 DEF Exponentials
    <3> QED
      BY <3>1, WarpsPartition DEF Types
  <2>3. RowShifted
    BY <1>2, <1>8, <1>14, <2>1, <2>2 DEF Exponentials, RowShifted
  <2> QED
    BY <1>2, <1>4, <1>5, <1>6, <1>8, <1>9, <1>14, <2>1, <2>3 DEF Exponentials, SumCombination
<1>15. CASE from = "sum_combined" /\ to = "sum_read"
  <2>1. SumCombination
    BY <1>1, <1>2, <1>8, <1>15, PhaseOf
  <2> QED
    BY <1>2, <1>4, <1>5, <1>6, <1>8, <1>9, <1>15, <2>1 DEF SumBroadcast, SumCombination
<1>16. CASE from = "sum_done" /\ to = "scale"
  <2>1. SumBroadcast
    BY <1>1, <1>2, <1>8, <1>16, PhaseOf
  <2>2. GotMax /\ ~all_masked(0) /\ \A c \in Cols : Shifted(row, c)
    BY <2>1 DEF SumBroadcast, RowShifted
  <2>3. \A w \in Warps : sum[w] = Cols
    BY <1>8, <1>16, <2>1 DEF SumBroadcast
  <2> QED
    BY <1>1, <1>2, <1>4, <1>6, <1>8, <1>9, <1>10, <1>16, <2>2, <2>3 DEF Scaling
<1> QED
  BY <1>7, <1>11, <1>12, <1>13, <1>14, <1>15, <1>16

-----------------------------------------------------------------------------
\* No kernel has been launched.
LEMMA Initially ==
  ASSUME Init
  PROVE  IInv
<1>1. p \in Problems
  BY DEF Init
<1>2. Types
  <2>1. stream \in Seq(KernelType)
    BY DEF Init
  <2> QED
    BY <2>1 DEF Init, Types
<1>3. StreamInv /\ RowInv
  BY DEF Init, StreamInv, RowInv
<1>4. Stage = "qk" /\ \A b : ~Through(b)
  BY DEF Init, Stage, Through
<1>5. QkInv /\ SoftmaxInv /\ PvInv
  BY <1>4 DEF QkInv, SoftmaxInv, PvInv
<1>6. BlockInv
  BY DEF Init, BlockInv, In
<1> QED
  BY <1>2, <1>3, <1>5, <1>6 DEF IInv

\* A step that changes nothing.
LEMMA Stutter ==
  ASSUME IInv, UNCHANGED vars
  PROVE  IInv'
<1> USE DEF IInv
<1>1. /\ p' = p /\ host' = host /\ stream' = stream /\ scores' = scores /\ out' = out /\ lse' = lse
      /\ UNCHANGED block
  BY DEF vars
<1>2. Types'
  BY <1>1, Parameters DEF Types, block, Warps, KernelType
<1>3. StreamInv' /\ RowInv'
  <2>1. \A k : After(k)' = After(k)
    BY DEF After
  <2> QED
    BY <1>1, <2>1, Parameters DEF StreamInv, RowInv, block, NoRow
<1>4. Stage' = Stage /\ \A b : Through(b)' <=> Through(b)
  BY <1>1 DEF Stage, Through
<1>5. \A i : (RowFinal(i)' <=> RowFinal(i)) /\ \A c : Scored(i, c)' <=> Scored(i, c)
  BY <1>1, RowFrame
<1>6. \A x : Summed(x)' <=> Summed(x)
  BY <1>1 DEF Summed, Terms, BatchOf, KvHeadOf, HeadOf, Cols
<1>7. QkInv'
  BY <1>1, <1>4, <1>5, Parameters DEF QkInv
<1>8. SoftmaxInv'
  BY <1>1, <1>4, <1>5, Parameters DEF SoftmaxInv, block
<1>9. PvInv'
  BY <1>1, <1>4, <1>5, <1>6, Parameters DEF PvInv
<1>10. BlockInv'
  BY <1>1, BlockFrame
<1> QED
  BY <1>2, <1>3, <1>7, <1>8, <1>9, <1>10

\* IInv is an inductive invariant of the naive attention call.
THEOREM Invariance == Spec => []IInv
<1>1. Init => IInv
  BY Initially
<1>2. IInv /\ [Next]_vars => IInv'
  <2> SUFFICES ASSUME IInv, [Next]_vars PROVE IInv'
    OBVIOUS
  <2>1. CASE LaunchKernel \/ LaunchFails
    BY <2>1, LaunchStep
  <2>2. CASE \E b \in 0 .. kMaxGrid - 1 : QkBlock(b) \/ PvBlock(b)
    BY <2>2, QkStep, PvStep
  <2>3. CASE \E r \in Rows : StartRow(r)
    BY <2>3, StartRowStep
  <2>4. CASE EndRow
    BY <2>4, EndRowStep
  <2>5. ASSUME NEW w \in Warps, WarpStep(w) PROVE IInv'
    BY <2>5, WarpMaxStep, CombineMaxStep, ReadMaxStep, ExponentiateStep, SkipSumStep,
       CombineSumStep, ReadSumStep, ScaleStep DEF WarpStep
  <2>6. CASE SyncThreads
    BY <2>6, BarrierStep
  <2>7. CASE UNCHANGED vars
    BY <2>7, Stutter
  <2> QED
    BY <2>1, <2>2, <2>3, <2>4, <2>5, <2>6, <2>7 DEF Next
<1> QED
  BY <1>1, <1>2, PTL DEF Spec

\* What a warp takes out of BlockReduceMax or BlockReduceSum covers every column of the
\* row, for every number of warps and lanes and every length of the row.
THEOREM ReductionsCompleteHolds == Spec => []ReductionsComplete
<1>1. IInv => ReductionsComplete
  <2> SUFFICES ASSUME IInv, NEW w \in Warps
               PROVE  /\ pc[w] \in {"max_done", "exp", "sum_written", "sum_combine", "sum_combined",
                                    "sum_read", "sum_done", "scale"} => m[w].cols = Cols
                      /\ pc[w] \in {"sum_done", "scale"} /\ ~all_masked(w) => sum[w] = Cols
    BY DEF ReductionsComplete
  <2>1. BlockInv /\ 0 \in Warps
    BY WarpsPartition DEF IInv, Types
  <2>2. CASE row = NoRow
    BY <2>1, <2>2 DEF BlockInv, In
  <2>3. CASE row # NoRow
    <3>1. GotMax => m[w].cols = Cols /\ (all_masked(w) <=> all_masked(0))
      BY <2>1 DEF GotMax, all_masked
    <3>2. /\ pc[w] = "max_done" => MaxBroadcast
          /\ pc[w] \in {"exp", "sum_written"} => Exponentials \/ Skipping
          /\ pc[w] \in {"sum_combine", "sum_combined"} => SumCombination
          /\ pc[w] \in {"sum_read", "sum_done"} => SumBroadcast
          /\ pc[w] = "scale" => Skipping \/ Scaling
      BY <2>1, <2>3, PhaseOf
    <3> QED
      BY <3>1, <3>2 DEF MaxBroadcast, Exponentials, Skipping, SumCombination, SumBroadcast, Scaling,
                        RowShifted
  <2> QED
    BY <2>2, <2>3
<1> QED
  BY <1>1, Invariance, PTL

\* A call that reported success has taken every row its softmax grid covers through the
\* softmax, and leaves in every output element of such a row with a finite maximum
\* exactly the keys the query sees, of its batch and K/V head, with weights normalised
\* over the whole row.  Rows behind the cap of the grid are not covered.
THEOREM OutputExactHolds == Spec => []OutputExact
<1>1. IInv => OutputExact
  <2> SUFFICES ASSUME IInv, Finished, NEW x \in DOMAIN out, NEW r, r = x \div p.head_dim, r \in Covered
               PROVE  /\ lse[r].kind \in {"lse", "neginf"}
                      /\ HasFiniteMax(r) =>
                           /\ lse[r].max = Cols /\ lse[r].sum = Cols
                           /\ out[x].kind = "sum"
                           /\ \A t \in out[x].terms :
                                /\ t.p.kind = "prob" /\ t.p.key = t.v
                                /\ t.p.max = Cols /\ t.p.sum = Cols
                                /\ t.p.class = "masked" <=>
                                     p.causal /\ t.v[3] > (r % p.seq_q) + p.seq_kv - p.seq_q
    BY DEF OutputExact
  <2>1. Stage = "ok"
    BY DEF Finished, Stage
  <2>2. (\A i \in Covered : RowFinal(i)) /\ Summed(x)
    BY <2>1 DEF IInv, PvInv
  <2>3. p \in Problems
    BY DEF IInv, Types
  <2>4. r \in Rows
    BY <2>3, OneBlockPerRow
  <2>5. RowFinal(r) /\ lse[r].kind \in {"lse", "neginf"}
    BY <2>2 DEF RowFinal, LseRight
  <2> SUFFICES ASSUME HasFiniteMax(r)
               PROVE  /\ lse[r].max = Cols /\ lse[r].sum = Cols
                      /\ out[x].kind = "sum"
                      /\ \A t \in out[x].terms :
                           /\ t.p.kind = "prob" /\ t.p.key = t.v
                           /\ t.p.max = Cols /\ t.p.sum = Cols
                           /\ t.p.class = "masked" <=>
                                p.causal /\ t.v[3] > (r % p.seq_q) + p.seq_kv - p.seq_q
    BY <2>5
  <2>6. /\ lse[r].max = Cols /\ lse[r].sum = Cols
        /\ \A c \in Cols : Normalised(r, c)
    BY <2>5 DEF RowFinal, LseRight, HasFiniteMax
  <2>7. out[x].kind = "sum" /\ out[x].terms = Terms(x)
    BY <2>2 DEF Summed
  <2>8. Terms(x) = {[p |-> scores[r][c], v |-> Key(r, c)] : c \in Cols}
    BY DEF Terms, Key
  <2>9. ASSUME NEW t \in out[x].terms
        PROVE  /\ t.p.kind = "prob" /\ t.p.key = t.v
               /\ t.p.max = Cols /\ t.p.sum = Cols
               /\ t.p.class = "masked" <=>
                    p.causal /\ t.v[3] > (r % p.seq_q) + p.seq_kv - p.seq_q
    <3>1. PICK c \in Cols : t = [p |-> scores[r][c], v |-> Key(r, c)]
      BY <2>7, <2>8
    <3>2. t.p = scores[r][c] /\ t.v = Key(r, c) /\ t.v[3] = c
      BY <3>1 DEF Key
    <3>3. Normalised(r, c)
      BY <2>6
    <3>4. Masked(r, c) <=> p.causal /\ c > (r % p.seq_q) + p.seq_kv - p.seq_q
      <4>1. p.seq_q \in Nat \ {0} /\ p.seq_kv \in Nat \ {0} /\ r \in Int /\ c \in Int
        BY <2>3, <2>4, Sizes DEF Rows, Cols
      <4>2. r % p.seq_q \in Int
        BY <4>1
      <4> QED
        BY <4>1, <4>2 DEF Masked, QueryOf, diagonal
    <3> QED
      BY <3>2, <3>3, <3>4 DEF Normalised
  <2> QED
    BY <2>6, <2>7, <2>9
<1> QED
  BY <1>1, Invariance, PTL
=============================================================================
