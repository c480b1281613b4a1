------------------------------ MODULE NaiveKernels ----------------------------
(***************************************************************************)
(* The three kernels of one naive (reference) attention call               *)
(* (src/backends/naive/attention_naive.cu) and the block-wide reductions   *)
(* they use (src/cuda_common/numerics.cuh).                                *)
(*                                                                         *)
(* LaunchTyped queues the kernels on one stream without waiting; a launch  *)
(* may be reported as failed while the kernels queued before it still run. *)
(* The kernels communicate through the scores buffer, which is pooled and  *)
(* holds another call's numbers to begin with.  The blocks of a kernel     *)
(* touch disjoint cells, so they run here one after the other in any       *)
(* order; the warps of a row-softmax block share scratch[] and are         *)
(* interleaved.  Shuffles keep the lanes of a warp together.               *)
(*                                                                         *)
(* A number is its class (finite, -inf, +inf, NaN) and the set of columns  *)
(* that went into it.                                                      *)
(***************************************************************************)
EXTENDS Integers, Sequences, FiniteSets

CONSTANTS
  Problems,       \* calls a caller may make
  kWarps, kLanes, \* a block has kWarps * kLanes threads (8 and 32 in the code)
  kMaxGrid,       \* most blocks of an elementwise kernel (2^20 in the code)
  kMaxRowBlocks   \* most blocks of the row softmax (2^24 in the code)

\* A call that Validate has let through.
ProblemType ==
  [batch : Nat \ {0}, num_heads : Nat \ {0}, num_kv_heads : Nat \ {0}, seq_q : Nat \ {0},
   seq_kv : Nat \ {0}, head_dim : Nat \ {0}, causal : BOOLEAN]

\* One lane of warp 0 per warp in the second stage of a reduction.
ASSUME NaiveAssumption ==
  /\ kWarps \in Nat \ {0} /\ kLanes \in Nat \ {0} /\ kWarps <= kLanes
  /\ kMaxGrid \in Nat \ {0} /\ kMaxRowBlocks \in Nat \ {0}
  /\ Problems \subseteq ProblemType

VARIABLES
  p,              \* the call's parameters
  host,           \* next kernel to launch, or how LaunchTyped returned
  stream,         \* queued kernels: [kind, todo], todo the blocks that have not run
  scores,         \* scores[row][col], one buffer for S, exp(S - m) and P
  out, lse,
  row,            \* the row whose softmax block is resident, NoRow if none is
  pc,             \* pc[w]: where warp w of that block is
  scratch,        \* the block's shared memory, one cell per warp
  m, sum          \* m[w], sum[w]: what warp w got from the reductions

block == <<row, pc, scratch, m, sum>>
vars == <<p, host, stream, scores, out, lse, block>>

kThreads == kWarps * kLanes
Warps == 0 .. kWarps - 1
Rows == 0 .. p.batch * p.num_heads * p.seq_q - 1
Cols == 0 .. p.seq_kv - 1
NoRow == -1
Stale == [kind |-> "stale"]
Nothing == [cols |-> {}, class |-> "neginf"]     \* a maximum over no column
diagonal == IF p.causal THEN p.seq_kv - p.seq_q ELSE 0

Least(a, b) == IF a < b THEN a ELSE b
Grid(total, cap) == Least(IF total > kThreads THEN (total + kThreads - 1) \div kThreads ELSE 1, cap)

\* One softmax block per row, up to the cap; a block has no loop over rows, so the rows
\* behind the cap get none, and nothing refuses a call that has such rows.
RowGrid == Least(Cardinality(Rows), kMaxRowBlocks)
Covered == 0 .. RowGrid - 1

Init ==
  /\ p \in Problems
  /\ host = "qk"
  /\ stream = <<>>
  /\ scores = [r \in Rows |-> [c \in Cols |-> Stale]]
  /\ out = [x \in 0 .. Cardinality(Rows) * p.head_dim - 1 |-> Stale]
  /\ lse = [r \in Rows |-> Stale]
  /\ row = NoRow
  /\ pc = [w \in Warps |-> "exit"]
  /\ scratch = [w \in Warps |-> Stale]
  /\ m = [w \in Warps |-> Nothing]
  /\ sum = [w \in Warps |-> {}]

-----------------------------------------------------------------------------
\* LaunchTyped.
Blocks(kind) ==
  0 .. (CASE kind = "qk" -> Grid(Cardinality(Rows) * p.seq_kv, kMaxGrid)
          [] kind = "softmax" -> RowGrid
          [] kind = "pv" -> Grid(Cardinality(Rows) * p.head_dim, kMaxGrid)) - 1
After(kind) == CASE kind = "qk" -> "softmax" [] kind = "softmax" -> "pv" [] kind = "pv" -> "ok"
Queue(kind) == stream' = Append(stream, [kind |-> kind, todo |-> Blocks(kind)])

LaunchKernel ==
  /\ host \in {"qk", "softmax", "pv"}
  /\ Queue(host)
  /\ host' = After(host)
  /\ UNCHANGED <<p, scores, out, lse, block>>

\* LaunchRaw reports an error; the kernel was queued all the same if the error was left
\* behind by somebody else.
LaunchFails ==
  /\ host \in {"qk", "softmax", "pv"}
  /\ Queue(host) \/ UNCHANGED stream
  /\ host' = "failed"
  /\ UNCHANGED <<p, scores, out, lse, block>>

\* Block b of the kernel at the head of the stream is through.
BlockDone(b) ==
  stream' = IF stream[1].todo = {b} THEN Tail(stream) ELSE [stream EXCEPT ![1].todo = @ \ {b}]
Running(kind) == stream # <<>> /\ stream[1].kind = kind

-----------------------------------------------------------------------------
\* The indices an elementwise kernel derives from its flat index.
QueryOf(r) == r % p.seq_q
HeadOf(r) == (r \div p.seq_q) % p.num_heads
BatchOf(r) == r \div (p.seq_q * p.num_heads)
KvHeadOf(r) == HeadOf(r) \div (p.num_heads \div p.num_kv_heads)

\* The flat indices of block b: a grid-stride loop over all of them.
Strided(b, total, blocks) == {x \in 0 .. total - 1 : (x \div kThreads) % blocks = b}

\* Mutation of Masked: a query sees one key more.
MaskedLate(r, c) == p.causal /\ c > QueryOf(r) + diagonal + 1

Masked(r, c) == p.causal /\ c > QueryOf(r) + diagonal

\* naive_qk_scale_mask_kernel: a dot product is finite or overflows to either side; a
\* masked score is -inf too, and named apart only for the properties.
QkBlock(b) ==
  /\ Running("qk") /\ b \in stream[1].todo
  /\ BlockDone(b)
  /\ \E class \in [Strided(b, Cardinality(Rows) * p.seq_kv, Grid(Cardinality(Rows) * p.seq_kv, kMaxGrid))
                     -> {"finite", "neginf", "posinf"}] :
       scores' = [r \in Rows |-> [c \in Cols |->
         LET x == r * p.seq_kv + c IN
         IF x \in DOMAIN class
           THEN [kind |-> "score", key |-> <<BatchOf(r), KvHeadOf(r), c>>,
                 class |-> IF Masked(r, c) THEN "masked" ELSE class[x]]
           ELSE scores[r][c]]]
  /\ UNCHANGED <<p, host, out, lse, block>>

-----------------------------------------------------------------------------
\* naive_row_softmax_kernel, one block per row.
StartRow(r) ==
  /\ Running("softmax") /\ r \in stream[1].todo
  /\ row = NoRow
  /\ row' = r
  /\ pc' = [w \in Warps |-> "max"]
  /\ scratch' = [w \in Warps |-> Stale]
  /\ UNCHANGED <<p, host, stream, scores, out, lse, m, sum>>

EndRow ==
  /\ row # NoRow
  /\ \A w \in Warps : pc[w] = "exit"
  /\ BlockDone(row)
  /\ row' = NoRow
  /\ m' = [w \in Warps |-> Nothing]
  /\ sum' = [w \in Warps |-> {}]
  /\ UNCHANGED <<p, host, scores, out, lse, pc, scratch>>

\* Columns of the threads of warp w.
Mine(w) == {c \in Cols : (c % kThreads) \div kLanes = w}
data == scores[row]
Goto(w, label) == pc' = [pc EXCEPT ![w] = label]
kernelState == <<p, host, stream, out, row>>

MaxClass(classes) ==
  IF "posinf" \in classes THEN "posinf" ELSE IF "finite" \in classes THEN "finite" ELSE "neginf"

\* First half of BlockReduceMax, after the thread-local maxima.  A cell that holds no
\* score counts as garbage: no columns.
WarpMax(w) ==
  LET good == {c \in Mine(w) : data[c].kind = "score"} IN
  /\ pc[w] = "max"
  /\ Goto(w, "max_written")
  /\ scratch' = [scratch EXCEPT ![w] =
       [kind |-> "max", cols |-> good, class |-> MaxClass({data[c].class : c \in good})]]
  /\ UNCHANGED <<kernelState, scores, lse, m, sum>>

\* The second stage: warp 0 combines the cells and broadcasts through scratch[0].
CombineMax(w) ==
  LET cells == {scratch[u] : u \in Warps}
      good == {c \in cells : c.kind = "max"}
  IN
  /\ pc[w] = "max_combine"
  /\ Goto(w, "max_combined")
  /\ scratch' = IF w # 0 THEN scratch ELSE [scratch EXCEPT ![0] =
       [kind |-> "max", cols |-> UNION {c.cols : c \in good},
        class |-> MaxClass({c.class : c \in good})]]
  /\ UNCHANGED <<kernelState, scores, lse, m, sum>>

\* Mutation of ReadMax: other warps are left with their partial value.
ReadMaxPartial(w) ==
  /\ pc[w] = "max_read"
  /\ Goto(w, "max_done")
  /\ m' = [m EXCEPT ![w] = [cols |-> scratch[w].cols, class |-> scratch[w].class]]
  /\ UNCHANGED <<kernelState, scores, lse, scratch, sum>>

ReadMax(w) ==
  /\ pc[w] = "max_read"
  /\ Goto(w, "max_done")
  /\ m' = [m EXCEPT ![w] = IF scratch[0].kind = "max"
                             THEN [cols |-> scratch[0].cols, class |-> scratch[0].class]
                             ELSE Nothing]
  /\ UNCHANGED <<kernelState, scores, lse, scratch, sum>>

all_masked(w) == m[w].class # "finite"

\* exp(S - m) in place, the thread-local sums and the first half of BlockReduceSum.
Exponentiate(w) ==
  /\ pc[w] = "exp"
  /\ ~all_masked(w)
  /\ Goto(w, "sum_written")
  /\ scores' = [scores EXCEPT ![row] = [c \in Cols |->
       IF c \in Mine(w) /\ data[c].kind = "score"
         THEN [kind |-> "exp", key |-> data[c].key, class |-> data[c].class, max |-> m[w].cols]
         ELSE data[c]]]
  /\ scratch' = [scratch EXCEPT ![w] = [kind |-> "sum", cols |-> Mine(w)]]
  /\ UNCHANGED <<kernelState, lse, m, sum>>

\* The branch for rows without a finite maximum takes no part in BlockReduceSum.
SkipSum(w) ==
  /\ pc[w] = "exp"
  /\ all_masked(w)
  /\ Goto(w, "scale")
  /\ UNCHANGED <<kernelState, scores, lse, scratch, m, sum>>

CombineSum(w) ==
  LET good == {scratch[u] : u \in {v \in Warps : scratch[v].kind = "sum"}} IN
  /\ pc[w] = "sum_combine"
  /\ Goto(w, "sum_combined")
  /\ scratch' = IF w # 0 THEN scratch
                ELSE [scratch EXCEPT ![0] = [kind |-> "sum", cols |-> UNION {c.cols : c \in good}]]
  /\ UNCHANGED <<kernelState, scores, lse, m, sum>>

ReadSum(w) ==
  /\ pc[w] = "sum_read"
  /\ Goto(w, "sum_done")
  /\ sum' = [sum EXCEPT ![w] = IF scratch[0].kind = "sum" THEN scratch[0].cols ELSE {}]
  /\ UNCHANGED <<kernelState, scores, lse, scratch, m>>

\* The last loop multiplies by 1/sum, or by 0: 0 times an infinite score is NaN.
Scaled(w, cell) ==
  IF ~all_masked(w)
    THEN IF cell.kind = "exp"
           THEN [kind |-> "prob", key |-> cell.key, class |-> cell.class, max |-> cell.max,
                 sum |-> sum[w]]
           ELSE Stale
    ELSE [kind |-> IF cell.class = "finite" THEN "zero" ELSE "nan", class |-> cell.class]

Scale(w) ==
  /\ pc[w] = "scale"
  /\ Goto(w, "exit")
  /\ scores' = [scores EXCEPT ![row] =
                  [c \in Cols |-> IF c \in Mine(w) THEN Scaled(w, data[c]) ELSE data[c]]]
  /\ lse' = IF w # 0 THEN lse
            ELSE [lse EXCEPT ![row] =
                    IF all_masked(w) THEN [kind |-> "neginf"]
                    ELSE [kind |-> "lse", max |-> m[w].cols, sum |-> sum[w]]]
  /\ UNCHANGED <<kernelState, scratch, m, sum>>

\* __syncthreads: every warp of the block has arrived.
Barrier(from, to) ==
  /\ row # NoRow
  /\ \A w \in Warps : pc[w] = from
  /\ pc' = [w \in Warps |-> to]
  /\ UNCHANGED <<kernelState, scores, lse, scratch, m, sum>>

\* Mutation of LastMaxBarrier: a warp that has the maximum goes on at once.
NoLastMaxBarrier ==
  /\ row # NoRow
  /\ \E w \in Warps : pc[w] = "max_done" /\ Goto(w, "exp")
  /\ UNCHANGED <<kernelState, scores, lse, scratch, m, sum>>

LastMaxBarrier == Barrier("max_done", "exp")

SyncThreads ==
  \/ Barrier("max_written", "max_combine")
  \/ Barrier("max_combined", "max_read")
  \/ LastMaxBarrier
  \/ Barrier("sum_written", "sum_combine")
  \/ Barrier("sum_combined", "sum_read")
  \/ Barrier("sum_done", "scale")

WarpStep(w) ==
  /\ row # NoRow
  /\ \/ WarpMax(w)
     \/ CombineMax(w)
     \/ ReadMax(w)
     \/ Exponentiate(w)
     \/ SkipSum(w)
     \/ CombineSum(w)
     \/ ReadSum(w)
     \/ Scale(w)

-----------------------------------------------------------------------------
\* naive_pv_kernel: output element x is the sum over the row of P times V.
PvBlock(b) ==
  LET total == Cardinality(Rows) * p.head_dim
      mine == Strided(b, total, Grid(total, kMaxGrid))
      r(x) == x \div p.head_dim
      terms(x) == {[p |-> scores[r(x)][c], v |-> <<BatchOf(r(x)), KvHeadOf(r(x)), c>>] : c \in Cols}
  IN
  /\ Running("pv") /\ b \in stream[1].todo
  /\ BlockDone(b)
  /\ out' = [x \in DOMAIN out |-> IF x \in mine THEN [kind |-> "sum", terms |-> terms(x)] ELSE out[x]]
  /\ UNCHANGED <<p, host, scores, lse, block>>

Next ==
  \/ LaunchKernel
  \/ LaunchFails
  \/ \E b \in 0 .. kMaxGrid - 1 : QkBlock(b) \/ PvBlock(b)
  \/ \E r \in Rows : StartRow(r)
  \/ EndRow
  \/ \E w \in Warps : WarpStep(w)
  \/ SyncThreads

Spec == Init /\ [][Next]_vars

\* The host goes on, and the device runs the head of its stream: every warp of a resident
\* block makes progress and a barrier all warps have reached opens.
FairSpec ==
  /\ Spec
  /\ WF_vars(LaunchKernel)
  /\ WF_vars(\E b \in 0 .. kMaxGrid - 1 : QkBlock(b) \/ PvBlock(b))
  /\ WF_vars(\E r \in Rows : StartRow(r))
  /\ WF_vars(EndRow)
  /\ \A w \in Warps : WF_vars(WarpStep(w))
  /\ WF_vars(SyncThreads)

-----------------------------------------------------------------------------
\* numerics.cuh: "every thread needs the block-wide value".  What a warp takes out of a
\* reduction covers all columns of the row, although scratch[] is reused at once for
\* the next reduction and scratch[0] is both an input cell and the result.
ReductionsComplete ==
  \A w \in Warps :
    /\ pc[w] \in {"max_done", "exp", "sum_written", "sum_combine", "sum_combined", "sum_read",
                  "sum_done", "scale"} => m[w].cols = Cols
    /\ pc[w] \in {"sum_done", "scale"} /\ ~all_masked(w) => sum[w] = Cols

Finished == host = "ok" /\ stream = <<>>
HasFiniteMax(r) == lse[r].kind = "lse"

\* A call that reported success has taken every row the softmax grid covers through the
\* softmax, and gives every output element of such a row, if its maximum is finite, the
\* sum over exactly the keys the query sees, of the right batch and K/V head, with
\* weights shifted by the maximum and divided by the sum over the whole row, and the
\* row's log-sum-exp over the same columns.  Of a row behind the grid's cap it says
\* nothing: its output is a sum over raw scores, and the call reports success too.
OutputExact ==
  Finished => \A x \in DOMAIN out :
    LET r == x \div p.head_dim IN
    r \in Covered =>
      /\ lse[r].kind \in {"lse", "neginf"}
      /\ HasFiniteMax(r) =>
           /\ lse[r].max = Cols /\ lse[r].sum = Cols
           /\ out[x].kind = "sum"
           /\ \A t \in out[x].terms :
                /\ t.p.kind = "prob" /\ t.p.key = t.v
                /\ t.p.max = Cols /\ t.p.sum = Cols
                /\ t.p.class = "masked" <=>
                     p.causal /\ t.v[3] > (r % p.seq_q) + p.seq_kv - p.seq_q

\* The call comes back, and every kernel it queued runs to its end.
CallCompletes == <>[](host \in {"ok", "failed"} /\ stream = <<>>)

-----------------------------------------------------------------------------
\* docs/attention_math.md: a row with m == -inf gives zeros, not NaN.
MaskedRowsZero ==
  Finished => \A x \in DOMAIN out :
    (\A t \in out[x].terms : t.p.class \in {"masked", "neginf"}) =>
      \A t \in out[x].terms : t.p.kind # "nan"
=============================================================================
