----------------------------- MODULE SplitKDecode -----------------------------
(***************************************************************************)
(* Decode and paged attention calls: the host adapters                     *)
(* (src/backends/decode/decode_backend.cpp, paged/paged_backend.cpp), the  *)
(* process-wide scratch buffer they share (src/runtime/scratch_pool.cpp)   *)
(* and the two kernels of a call (src/backends/decode/decode_splitk.cu).   *)
(*                                                                         *)
(* The host issues calls one after the other to one stream and does not    *)
(* wait for them, so kernels of several calls may be pending on the same   *)
(* scratch buffer.  The stream runs kernels in order; the warps of a       *)
(* kernel run in any order.  Freeing device memory waits for the stream.   *)
(*                                                                         *)
(* Numbers are abstracted: a partial sum is the set of tokens that went    *)
(* into it, each with the K/V row it was read from, tagged with the place  *)
(* it was written for.                                                     *)
(***************************************************************************)
EXTENDS SplitK, Sequences

CONSTANTS
  Requests,         \* calls a caller may make
  sm_count,
  kWarpsPerBlock,   \* 4 in the code
  kSlack,           \* extra elements of a grown buffer (1024 in the code)
  MaxCalls          \* bound: calls in a behaviour

\* A call past the checks of its arguments: shape, the caller's num_splits (positive if he
\* wants a certain number), seq_lens and page_table with a row per sequence (<<>>: null).
RequestType ==
  [batch : Nat \ {0}, num_heads : Nat \ {0}, num_kv_heads : Nat \ {0}, head_dim : Nat \ {0},
   num_splits : Int, seq_kv : Nat, seq_lens : Seq(Nat), page_table : Seq(Seq(Int)),
   block_size : Nat \ {0}, num_kv_blocks : Nat]

ASSUME DecodeAssumption ==
  /\ sm_count \in Int /\ kWarpsPerBlock \in Nat \ {0} /\ kSlack \in Nat /\ MaxCalls \in Nat
  /\ Requests \subseteq RequestType
  /\ \A r \in Requests : /\ Len(r.seq_lens) \in {0, r.batch}
                        /\ Len(r.page_table) \in {0, r.batch}

VARIABLES
  host,       \* [pc, call, then]: what the calling thread is doing
  calls,      \* the calls made so far, with their status
  pool,       \* the pool entry: [buf, elements], buf 0 when there is none
  mem,        \* mem[b]: contents of scratch buffer b
  doomed,     \* buffers the host is waiting to free
  stream,     \* queued kernels: [kind, call, todo]
  out,        \* out[c][flat]: what the reduce kernel of call c wrote
  fault,      \* a kernel touched memory outside its buffer
  wild        \* a kernel has read at a K/V head that the call's K and V do not have

vars == <<host, calls, pool, mem, doomed, stream, out, fault, wild>>

\* A cell of the scratch buffer: what was written there, for which array and column.
Partial(array, c, d, rows) == [array |-> array, call |-> c, column |-> d, rows |-> rows]
Unwritten == Partial("none", 0, 0, {})
GarbageTerm == [split |-> -1, token |-> -1, read |-> <<>>]
NoOutput(r) == [den |-> {GarbageTerm}, num |-> [d \in 1 .. r.head_dim |-> {GarbageTerm}]]

Req(c) == calls[c].req
Splits(r) == ResolveSplits(r.num_splits, r.seq_kv, sm_count)
Heads(r) == r.batch * r.num_heads
Base(r) == Heads(r) * Splits(r)
Elements(r) == PartialElements(r.batch, r.num_heads, Splits(r), r.head_dim)

Init ==
  /\ host = [pc |-> "idle", call |-> 0, then |-> "idle"]
  /\ calls = <<>>
  /\ pool = [buf |-> 0, elements |-> 0]
  /\ mem = <<>>
  /\ doomed = {}
  /\ stream = <<>>
  /\ out = <<>>
  /\ fault = FALSE
  /\ wild = FALSE

-----------------------------------------------------------------------------
\* Kernels.
SeqLen(r, b) == IF r.seq_lens = <<>> THEN r.seq_kv ELSE r.seq_lens[b + 1]

\* The K/V row of token j, <<>> when its page is not mapped.
KvRow(r, b, h_kv, j) ==
  IF r.page_table = <<>> THEN <<b, h_kv, j>>
  ELSE LET row == PageTableRow(r.page_table[b + 1], j, r.block_size,
                               Len(r.page_table[b + 1]), r.num_kv_blocks)
       IN IF row < 0 THEN <<>> ELSE <<"pool", h_kv, row>>

\* The K/V head that query head h reads.  The paged call compares the heads of q with the
\* cache's nowhere; with fewer of them the group is 0 and the quotient is undefined: any
\* head, or one that K and V do not have.
Group(r) == r.num_heads \div r.num_kv_heads
KvHeads(r, h) == IF Group(r) = 0 THEN 0 .. r.num_kv_heads ELSE {h \div Group(r)}

\* What a warp folds up from the tokens of its split; an unmapped token is skipped.
FoldRows(r, b, h_kv, split) ==
  LET mapped == {j \in SplitTokens(split, SeqLen(r, b), Splits(r)) : KvRow(r, b, h_kv, j) # <<>>}
  IN {[token |-> j, read |-> KvRow(r, b, h_kv, j)] : j \in mapped}

PartialCoords(r, flat) ==
  [split |-> flat % Splits(r),
   head |-> (flat \div Splits(r)) % r.num_heads,
   batch |-> flat \div (Splits(r) * r.num_heads)]

\* Where the three arrays of partials lie in the buffer.
PartialM(i) == i
PartialL(r, i) == Base(r) + i
PartialO(r, i, d) == (2 * Base(r)) + (i * r.head_dim) + d

Run(k) == /\ stream # <<>>
          /\ stream' = IF stream[1].todo = {k} THEN Tail(stream)
                       ELSE [stream EXCEPT ![1].todo = @ \ {k}]
          /\ UNCHANGED <<host, calls, pool, doomed>>

\* decode_partial_kernel, one warp.
PartialWarp(flat) ==
  LET c == stream[1].call
      r == Req(c)
      b == calls[c].buf
      at == PartialCoords(r, flat)
      columns == {PartialO(r, flat, d) : d \in 0 .. r.head_dim - 1}
      writes == {PartialM(flat), PartialL(r, flat)} \union columns
  IN
  /\ stream # <<>> /\ stream[1].kind = "partial" /\ flat \in stream[1].todo
  /\ Run(flat)
  /\ IF flat >= Base(r) THEN UNCHANGED <<mem, fault, wild>>
     ELSE \E h_kv \in KvHeads(r, at.head) :
          LET rows == FoldRows(r, at.batch, h_kv, at.split) IN
          /\ fault' = (fault \/ ~(writes \subseteq DOMAIN mem[b]))
          /\ wild' = (wild \/ (h_kv >= r.num_kv_heads /\ rows # {}))
          /\ mem' = [mem EXCEPT ![b] = [a \in DOMAIN @ |->
                       IF a = PartialM(flat) THEN Partial("m", c, 0, rows)
                       ELSE IF a = PartialL(r, flat) THEN Partial("l", c, 0, rows)
                       ELSE IF a \in columns
                         THEN Partial("o", c, (a - 2 * Base(r)) % r.head_dim, rows)
                       ELSE @[a]]]
  /\ UNCHANGED out

\* A partial read back; a cell of another call, array or column is garbage.
ReadRows(cell, array, c, d) ==
  IF cell.array = array /\ cell.call = c /\ cell.column = d THEN cell.rows ELSE {GarbageTerm}

AddedBy(split, rows) == {[split |-> split, token |-> x.token, read |-> x.read] : x \in rows}

\* decode_reduce_kernel, one warp: splits whose m is -inf are skipped.
ReduceWarp(flat) ==
  LET c == stream[1].call
      r == Req(c)
      b == calls[c].buf
      base == flat * Splits(r)
      splits == 0 .. Splits(r) - 1
      reads(s, d) == {PartialM(base + s), PartialL(r, base + s), PartialO(r, base + s, d)}
      inside == \A s \in splits, d \in 0 .. r.head_dim - 1 : reads(s, d) \subseteq DOMAIN mem[b]
      cell(a) == IF a \in DOMAIN mem[b] THEN mem[b][a] ELSE Unwritten
      m(s) == ReadRows(cell(PartialM(base + s)), "m", c, 0)
      l(s) == ReadRows(cell(PartialL(r, base + s)), "l", c, 0)
      o(s, d) == ReadRows(cell(PartialO(r, base + s, d)), "o", c, d)
      added == {s \in splits : m(s) # {}}
      l_all == UNION {AddedBy(s, l(s)) : s \in added}
      total(d) == UNION {AddedBy(s, o(s, d)) : s \in added}
  IN
  /\ stream # <<>> /\ stream[1].kind = "reduce" /\ flat \in stream[1].todo
  /\ Run(flat)
  /\ IF flat >= Heads(r) THEN UNCHANGED <<out, fault>>
     ELSE /\ out' = [out EXCEPT ![c][flat + 1] =
                       [den |-> l_all, num |-> [d \in 1 .. r.head_dim |-> total(d - 1)]]]
          /\ fault' = (fault \/ ~inside)
  /\ UNCHANGED <<mem, wild>>

-----------------------------------------------------------------------------
\* Host.
Warps(n) == 0 .. (((n + kWarpsPerBlock - 1) \div kWarpsPerBlock) * kWarpsPerBlock) - 1
Kernel(kind, c) ==
  [kind |-> kind, call |-> c, todo |-> Warps(IF kind = "partial" THEN Base(Req(c)) ELSE Heads(Req(c)))]

Finish(status) == calls' = [calls EXCEPT ![host.call].status = status]

\* Forward / RunPaged after the checks of its arguments.
Begin(r) ==
  /\ host.pc = "idle"
  /\ Len(calls) < MaxCalls
  /\ calls' = Append(calls, [req |-> r, buf |-> 0, status |-> "running"])
  /\ out' = Append(out, [i \in 1 .. r.batch * r.num_heads |-> NoOutput(r)])
  /\ host' = [host EXCEPT !.pc = "acquire", !.call = Len(calls) + 1]
  /\ UNCHANGED <<pool, mem, doomed, stream, fault, wild>>

Grown(n) == n + (n \div 4) + kSlack
HasRoom(n) == pool.buf # 0 /\ pool.elements >= n

\* Mutation of AcquireReuse: the size of the cached buffer is not compared.
AcquireReuseAny ==
  /\ host.pc = "acquire"
  /\ pool.buf # 0
  /\ calls' = [calls EXCEPT ![host.call].buf = pool.buf]
  /\ host' = [host EXCEPT !.pc = "output"]
  /\ UNCHANGED <<pool, mem, doomed, stream, out, fault, wild>>

\* AcquireScratchFp32: the cached buffer is large enough.
AcquireReuse ==
  /\ host.pc = "acquire"
  /\ HasRoom(Elements(Req(host.call)))
  /\ calls' = [calls EXCEPT ![host.call].buf = pool.buf]
  /\ host' = [host EXCEPT !.pc = "output"]
  /\ UNCHANGED <<pool, mem, doomed, stream, out, fault, wild>>

\* AcquireScratchFp32: a larger buffer replaces the cached one, which is freed.
AcquireGrow ==
  LET b == Len(mem) + 1
      n == Grown(Elements(Req(host.call)))
  IN
  /\ host.pc = "acquire"
  /\ ~HasRoom(Elements(Req(host.call)))
  /\ mem' = Append(mem, [a \in 0 .. n - 1 |-> Unwritten])
  /\ pool' = [buf |-> b, elements |-> n]
  /\ doomed' = {pool.buf} \ {0}
  /\ calls' = [calls EXCEPT ![host.call].buf = b]
  /\ host' = [host EXCEPT !.pc = "free", !.then = "output"]
  /\ UNCHANGED <<stream, out, fault, wild>>

\* AcquireScratchFp32: the allocation fails; the cached buffer is gone as well.
AcquireFails ==
  /\ host.pc = "acquire"
  /\ ~HasRoom(Elements(Req(host.call)))
  /\ pool' = [buf |-> 0, elements |-> 0]
  /\ doomed' = {pool.buf} \ {0}
  /\ Finish("error")
  /\ host' = [host EXCEPT !.pc = "free", !.then = "idle"]
  /\ UNCHANGED <<mem, stream, out, fault, wild>>

\* cudaFree returns: everything queued before it has run.
FreeDone ==
  /\ host.pc = "free"
  /\ doomed # {} => stream = <<>>
  /\ mem' = [b \in DOMAIN mem |-> IF b \in doomed THEN <<>> ELSE mem[b]]
  /\ doomed' = {}
  /\ host' = [host EXCEPT !.pc = host.then]
  /\ UNCHANGED <<calls, pool, stream, out, fault, wild>>

OutputFails ==
  /\ host.pc = "output"
  /\ Finish("error")
  /\ host' = [host EXCEPT !.pc = "idle"]
  /\ UNCHANGED <<pool, mem, doomed, stream, out, fault, wild>>

OutputAllocated ==
  /\ host.pc = "output"
  /\ host' = [host EXCEPT !.pc = "partial"]
  /\ UNCHANGED <<calls, pool, mem, doomed, stream, out, fault, wild>>

\* LaunchForDim: the partial kernel, then the reduce kernel.
Launch(kind) ==
  /\ host.pc = kind
  /\ stream' = Append(stream, Kernel(kind, host.call))
  /\ host' = [host EXCEPT !.pc = IF kind = "partial" THEN "reduce" ELSE "idle"]
  /\ IF kind = "reduce" THEN Finish("ok") ELSE UNCHANGED calls
  /\ UNCHANGED <<pool, mem, doomed, out, fault, wild>>

\* LaunchRaw reports an error, of this launch or one left behind by an earlier call;
\* the output tensor is destroyed, which waits for what was queued.
LaunchFails(kind, queued) ==
  /\ host.pc = kind
  /\ stream' = IF queued THEN Append(stream, Kernel(kind, host.call)) ELSE stream
  /\ Finish("error")
  /\ host' = [host EXCEPT !.pc = "drain"]
  /\ UNCHANGED <<pool, mem, doomed, out, fault, wild>>

Drained ==
  /\ host.pc = "drain"
  /\ stream = <<>>
  /\ host' = [host EXCEPT !.pc = "idle"]
  /\ UNCHANGED <<calls, pool, mem, doomed, stream, out, fault, wild>>

ReleaseScratch ==
  /\ host.pc = "idle"
  /\ pool.buf # 0
  /\ doomed' = {pool.buf}
  /\ pool' = [buf |-> 0, elements |-> 0]
  /\ host' = [host EXCEPT !.pc = "free", !.then = "idle"]
  /\ UNCHANGED <<calls, mem, stream, out, fault, wild>>

HostStep ==
  \/ \E r \in Requests : Begin(r)
  \/ AcquireReuse
  \/ AcquireGrow
  \/ AcquireFails
  \/ FreeDone
  \/ OutputFails
  \/ OutputAllocated
  \/ \E kind \in {"partial", "reduce"} : Launch(kind)
  \/ \E kind \in {"partial", "reduce"}, queued \in BOOLEAN : LaunchFails(kind, queued)
  \/ Drained
  \/ ReleaseScratch

WarpStep ==
  /\ stream # <<>>
  /\ \E flat \in stream[1].todo : PartialWarp(flat) \/ ReduceWarp(flat)

Next == HostStep \/ WarpStep

Spec == Init /\ [][Next]_vars

-----------------------------------------------------------------------------
\* Every element of the partials that a kernel reads or writes lies inside a scratch
\* buffer that is still allocated, although buffers are replaced and released while
\* kernels of earlier calls are queued on them.
NoFault == ~fault

\* The heads of q share the K/V heads evenly; Validate sees to it for Forward, nothing for
\* RunPaged.
WholeGroups(r) == r.num_heads % r.num_kv_heads = 0

\* The row of every token that head h of sequence b attends to: token j is at row j of
\* a contiguous K/V, and at row j % block_size of its physical block otherwise.
AttendedRows(r, b, h) ==
  LET group == r.num_heads \div r.num_kv_heads
      len == IF r.seq_lens = <<>> THEN r.seq_kv ELSE r.seq_lens[b + 1]
      page(j) == (j \div r.block_size) + 1
      present(j) == \/ r.page_table = <<>>
                    \/ /\ page(j) \in DOMAIN r.page_table[b + 1]
                       /\ r.page_table[b + 1][page(j)] \in 0 .. r.num_kv_blocks - 1
      row(j) == IF r.page_table = <<>> THEN <<b, h \div group, j>>
                ELSE <<"pool", h \div group,
                       (r.page_table[b + 1][page(j)] * r.block_size) + (j % r.block_size)>>
  IN [j \in {i \in 0 .. len - 1 : present(i)} |-> row(j)]

\* When the kernels of a successful call have left the stream, each of its outputs is
\* the softmax over exactly the tokens of its sequence: every mapped row once, in both
\* the normaliser and every column of the numerator, whatever the number of splits, the
\* order the warps ran in and the calls that used the scratch buffer before or after.
\* A call whose heads do not divide evenly succeeds too but promises nothing, and neither
\* does any call once such a one has read past the K/V heads.
OutputExact ==
  ~wild =>
    \A c \in DOMAIN calls :
      (/\ calls[c].status = "ok" /\ WholeGroups(Req(c))
       /\ ~\E i \in DOMAIN stream : stream[i].call = c) =>
         \A flat \in 0 .. Heads(Req(c)) - 1 :
           LET rows == AttendedRows(Req(c), flat \div Req(c).num_heads, flat % Req(c).num_heads)
               got == out[c][flat + 1]
           IN EachOnce(got.den, rows) /\ \A d \in DOMAIN got.num : EachOnce(got.num[d], rows)
=============================================================================
