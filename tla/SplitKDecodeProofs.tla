--------------------------- MODULE SplitKDecodeProofs -------------------------
(***************************************************************************)
(* Proofs about SplitKDecode: the kernels never leave the scratch buffer,  *)
(* and every completed call has the exact softmax in its output.           *)
(*                                                                         *)
(* The inductive invariant follows a call from the host to its last warp:  *)
(* its partials have a place (HostInv, Live), its two kernels are next to  *)
(* each other in the stream (StreamInv), so no other call writes to the    *)
(* buffer between them, the partials are there when the reduce kernel      *)
(* starts (PartialsInv), and what it made of them stays (OutputInv).       *)
(***************************************************************************)
EXTENDS SplitKDecode, ProofLemmas

CallType == [req : Requests, buf : Nat, status : {"running", "ok", "error"}]
KernelType == [kind : {"partial", "reduce"}, call : Nat, todo : SUBSET Nat]
HostType ==
  [pc : {"idle", "acquire", "free", "output", "partial", "reduce", "drain"}, call : Nat,
   then : {"idle", "output"}]

\* A function on 1 .. n, as sequences of arbitrary values are.
IsList(f, n) == f = [i \in 1 .. n |-> f[i]]

Types ==
  /\ host \in HostType /\ calls \in Seq(CallType) /\ stream \in Seq(KernelType)
  /\ pool \in [buf : Nat, elements : Nat]
  /\ \E n \in Nat : IsList(mem, n)
  /\ IsList(out, Len(calls))
  /\ \A c \in DOMAIN calls : DOMAIN out[c] = 1 .. Heads(Req(c))

\* The partials of call c have a place in a buffer that is allocated.
Live(c) ==
  /\ c \in DOMAIN calls
  /\ calls[c].buf \in DOMAIN mem
  /\ 0 .. Elements(Req(c)) - 1 \subseteq DOMAIN mem[calls[c].buf]

\* The cached buffer has the size the pool believes in, and is not being freed.
PoolInv ==
  /\ pool.buf # 0 => /\ pool.buf \in DOMAIN mem /\ pool.buf \notin doomed
                     /\ DOMAIN mem[pool.buf] = 0 .. pool.elements - 1
  /\ doomed # {} => host.pc = "free"

HasBuffer ==
  \/ host.pc \in {"output", "partial", "reduce"}
  \/ host.pc = "free" /\ host.then = "output"

\* The call the host is at has not returned; it has queued nothing before it has a buffer,
\* and then it keeps that buffer.
HostInv ==
  /\ host.pc = "acquire" \/ HasBuffer =>
       host.call \in DOMAIN calls /\ calls[host.call].status = "running"
  /\ host.pc = "acquire" => \A i \in DOMAIN stream : stream[i].call # host.call
  /\ HasBuffer => Live(host.call) /\ calls[host.call].buf \notin doomed

\* The warps of a kernel.
Work(kind, r) == Warps(IF kind = "partial" THEN Base(r) ELSE Heads(r))

\* The stream is made of pairs, the partial and the reduce kernel of a call, with nothing
\* in between; only the first pair may have begun, and only the last may lack its reduce
\* kernel, while the host is about to launch it or waits for the stream after an error.
StreamInv ==
  \A i \in DOMAIN stream :
    /\ Live(stream[i].call)
    /\ i > 1 => stream[i].todo = Work(stream[i].kind, Req(stream[i].call))
    /\ stream[i].kind = "partial" /\ i < Len(stream) =>
         stream[i + 1].kind = "reduce" /\ stream[i + 1].call = stream[i].call
    /\ stream[i].kind = "partial" /\ i = Len(stream) =>
         host.pc = "drain" \/ (host.pc = "reduce" /\ host.call = stream[i].call)
    /\ stream[i].kind = "reduce" /\ i > 1 => stream[i - 1].kind = "partial"
    /\ host.pc = "reduce" /\ i = Len(stream) =>
         stream[i].kind = "partial" /\ stream[i].call = host.call

\* What the warp of partial index i folds up, and that it lies where reduce looks for it,
\* if the heads of the call divide evenly.
HeadRows(r, b, h, split) == FoldRows(r, b, h \div Group(r), split)

RowsOf(r, i) ==
  HeadRows(r, PartialCoords(r, i).batch, PartialCoords(r, i).head, PartialCoords(r, i).split)

Written(c, i) ==
  LET buffer == mem[calls[c].buf]
      r == Req(c)
  IN
  WholeGroups(r) =>
  /\ buffer[PartialM(i)] = Partial("m", c, 0, RowsOf(r, i))
  /\ buffer[PartialL(r, i)] = Partial("l", c, 0, RowsOf(r, i))
  /\ \A d \in 0 .. r.head_dim - 1 : buffer[PartialO(r, i, d)] = Partial("o", c, d, RowsOf(r, i))

AllWritten(c) == \A i \in 0 .. Base(Req(c)) - 1 : Written(c, i)

\* An output of a call is what OutputExact asks for.
OutDone(c, flat) ==
  LET r == Req(c)
      rows == AttendedRows(r, flat \div r.num_heads, flat % r.num_heads)
      got == out[c][flat + 1]
  IN WholeGroups(r) => /\ EachOnce(got.den, rows)
                       /\ \A d \in DOMAIN got.num : EachOnce(got.num[d], rows)

\* The reduce kernel finds the partials of its own call, however many calls use the
\* buffer; this holds in the gap between the two kernels too.
PartialsInv ==
  /\ stream # <<>> /\ stream[1].kind = "partial" =>
       \A i \in 0 .. Base(Req(stream[1].call)) - 1 :
         i \notin stream[1].todo => Written(stream[1].call, i)
  /\ stream # <<>> /\ stream[1].kind = "reduce" => AllWritten(stream[1].call)
  /\ stream = <<>> /\ host.pc = "reduce" => AllWritten(host.call)

InStream(c) == \E i \in DOMAIN stream : stream[i].call = c /\ stream[i].kind = "reduce"

OutputInv ==
  /\ stream # <<>> /\ stream[1].kind = "reduce" =>
       \A flat \in 0 .. Heads(Req(stream[1].call)) - 1 :
         flat \notin stream[1].todo => OutDone(stream[1].call, flat)
  /\ \A c \in DOMAIN calls : calls[c].status = "ok" =>
       InStream(c) \/ \A flat \in 0 .. Heads(Req(c)) - 1 : OutDone(c, flat)

IInv == Types /\ PoolInv /\ HostInv /\ StreamInv /\ PartialsInv /\ OutputInv /\ NoFault
-----------------------------------------------------------------------------
\* The geometry of a call.
LEMMA RequestFacts ==
  ASSUME NEW r \in Requests
  PROVE  /\ r.batch \in Nat \ {0} /\ r.num_heads \in Nat \ {0} /\ r.num_kv_heads \in Nat \ {0}
         /\ r.head_dim \in Nat \ {0} /\ r.num_splits \in Int /\ r.seq_kv \in Nat
         /\ r.seq_lens \in Seq(Nat) /\ r.page_table \in Seq(Seq(Int))
         /\ r.block_size \in Nat \ {0} /\ r.num_kv_blocks \in Nat
         /\ Len(r.seq_lens) \in {0, r.batch} /\ Len(r.page_table) \in {0, r.batch}
<1>1. r \in RequestType
  BY DecodeAssumption
<1>2. Len(r.seq_lens) \in {0, r.batch} /\ Len(r.page_table) \in {0, r.batch}
  BY DecodeAssumption
<1> QED
  BY <1>1, <1>2 DEF RequestType

\* A call gets at least one split.
LEMMA SplitsPositive ==
  ASSUME NEW r \in Requests
  PROVE  Splits(r) \in Nat \ {0}
<1>1. /\ kTokensPerSplit \in Nat \ {0} /\ kMaxSplits \in Nat \ {0} /\ sm_count \in Int
      /\ r.num_splits \in Int /\ r.seq_kv \in Nat
  BY RequestFacts, SplitAssumption, DecodeAssumption
<1>2. PICK n \in Nat : n = r.seq_kv
  BY <1>1
<1>3. ASSUME n > 0
      PROVE  (n + kTokensPerSplit - 1) \div kTokensPerSplit \in Nat \ {0}
  <2>1. PICK x \in Nat : x = n + kTokensPerSplit - 1
    BY <1>1, <1>3
  <2>2. /\ x \div kTokensPerSplit \in Nat /\ x % kTokensPerSplit \in 0 .. kTokensPerSplit - 1
        /\ x = kTokensPerSplit * (x \div kTokensPerSplit) + (x % kTokensPerSplit)
    BY <1>1, DivMod
  <2>3. x \div kTokensPerSplit # 0
    BY <1>1, <1>3, <2>1, <2>2
  <2> QED
    BY <2>1, <2>2, <2>3
<1>4. SplitsFor(n, sm_count) \in Nat \ {0}
  <2>1. CASE n = 0
    BY <2>1 DEF SplitsFor
  <2>2. CASE n > 0
    <3>1. PICK c \in Nat \ {0} : c = (n + kTokensPerSplit - 1) \div kTokensPerSplit
      BY <2>2, <1>3
    <3>2. SplitsFor(n, sm_count)
            = Least(Least(c, IF sm_count > 0 THEN sm_count * 2 ELSE kMaxSplits), kMaxSplits)
      BY <2>2, <3>1 DEF SplitsFor
    <3> QED
      BY <1>1, <3>2 DEF Least
  <2> QED
    BY <2>1, <2>2
<1> QED
  BY <1>1, <1>2, <1>4 DEF Splits, ResolveSplits, Least

\* How many warps have work, and how large the partials are.
LEMMA Sizes ==
  ASSUME NEW r \in Requests
  PROVE  /\ Heads(r) \in Nat \ {0} /\ Base(r) \in Nat \ {0}
         /\ Elements(r) = 2 * Base(r) + Base(r) * r.head_dim
         /\ Elements(r) \in Nat
<1>1. r.batch \in Nat \ {0} /\ r.num_heads \in Nat \ {0} /\ r.head_dim \in Nat \ {0}
  BY RequestFacts
<1>2. Heads(r) \in Nat \ {0}
  BY <1>1 DEF Heads
<1>3. PICK h \in Nat \ {0}, s \in Nat \ {0} : h = Heads(r) /\ s = Splits(r)
  BY <1>2, SplitsPositive
<1>4. Base(r) \in Nat \ {0}
  BY <1>3 DEF Base
<1>5. PICK b \in Nat \ {0}, D \in Nat \ {0} : b = Base(r) /\ D = r.head_dim
  BY <1>4, <1>1
<1>6. Elements(r) = Base(r) * (2 + r.head_dim)
  BY DEF Elements, PartialElements, Base, Heads
<1>7. b * (2 + D) = 2 * b + b * D /\ b * (2 + D) \in Nat
  OBVIOUS
<1> QED
  BY <1>2, <1>4, <1>5, <1>6, <1>7

\* The three arrays of partials lie side by side in the buffer, and a cell of the third
\* determines the warp and the column it belongs to.
LEMMA Layout ==
  ASSUME NEW r \in Requests, NEW i \in 0 .. Base(r) - 1, NEW d \in 0 .. r.head_dim - 1
  PROVE  /\ PartialM(i) \in 0 .. Elements(r) - 1 /\ PartialM(i) < Base(r)
         /\ PartialL(r, i) \in 0 .. Elements(r) - 1
         /\ PartialL(r, i) >= Base(r) /\ PartialL(r, i) < 2 * Base(r)
         /\ PartialO(r, i, d) \in 0 .. Elements(r) - 1 /\ PartialO(r, i, d) >= 2 * Base(r)
         /\ (PartialO(r, i, d) - 2 * Base(r)) % r.head_dim = d
         /\ (PartialO(r, i, d) - 2 * Base(r)) \div r.head_dim = i
<1>1. PICK b \in Nat \ {0}, D \in Nat \ {0} : b = Base(r) /\ D = r.head_dim
  BY Sizes, RequestFacts
<1>2. Elements(r) = 2 * b + b * D /\ b * D \in Nat
  BY <1>1, Sizes
<1>3. PICK x \in 0 .. b * D - 1 : x = i * D + d /\ x \div D = i /\ x % D = d
  <2>1. b \in Nat /\ D \in Nat \ {0} /\ i \in 0 .. b - 1 /\ d \in 0 .. D - 1
    BY <1>1
  <2>2. i * D + d \in 0 .. b * D - 1 /\ (i * D + d) \div D = i /\ (i * D + d) % D = d
    BY <2>1, RowMajor
  <2> QED
    BY <2>2
<1>4. i \in 0 .. b - 1 /\ i * D \in Int
  BY <1>1
<1>5. PartialO(r, i, d) = 2 * b + x /\ PartialM(i) = i /\ PartialL(r, i) = b + i
  BY <1>1, <1>3, <1>4 DEF PartialO, PartialM, PartialL
<1>6. PICK p \in Nat : p = b * D
  BY <1>2
<1>7. x \in Nat /\ x < p /\ 2 * b + x - 2 * b = x
  BY <1>3, <1>6
<1>8. 2 * b + x \in 0 .. 2 * b + p - 1 /\ i \in 0 .. 2 * b + p - 1 /\ b + i \in 0 .. 2 * b + p - 1
  BY <1>4, <1>7, <1>6
<1>9. 2 * b + x >= 2 * b /\ i < b /\ b + i >= b /\ b + i < 2 * b
  BY <1>4, <1>7
<1>10. PartialO(r, i, d) - 2 * b = x
  BY <1>5, <1>7
<1>11. Elements(r) = 2 * b + p
  BY <1>2, <1>6
<1>12. /\ (PartialO(r, i, d) - 2 * b) % D = d /\ (PartialO(r, i, d) - 2 * b) \div D = i
  BY <1>3, <1>10
<1>13. /\ PartialO(r, i, d) \in 0 .. Elements(r) - 1 /\ PartialO(r, i, d) >= 2 * b
       /\ PartialM(i) \in 0 .. Elements(r) - 1 /\ PartialM(i) < b
       /\ PartialL(r, i) \in 0 .. Elements(r) - 1 /\ PartialL(r, i) >= b /\ PartialL(r, i) < 2 * b
  BY <1>5, <1>8, <1>9, <1>11
<1> QED
  BY <1>1, <1>12, <1>13

\* The warp with partial index flat * Splits + s works on split s of output flat.
LEMMA CoordsOf ==
  ASSUME NEW r \in Requests, NEW flat \in 0 .. Heads(r) - 1, NEW s \in 0 .. Splits(r) - 1
  PROVE  /\ flat * Splits(r) + s \in 0 .. Base(r) - 1
         /\ PartialCoords(r, flat * Splits(r) + s)
              = [split |-> s, head |-> flat % r.num_heads, batch |-> flat \div r.num_heads]
<1>1. PICK h \in Nat \ {0}, S \in Nat \ {0}, H \in Nat \ {0} :
        h = Heads(r) /\ S = Splits(r) /\ H = r.num_heads
  BY Sizes, SplitsPositive, RequestFacts
<1>2. /\ flat * S + s \in 0 .. h * S - 1
      /\ (flat * S + s) \div S = flat /\ (flat * S + s) % S = s
  <2>1. h \in Nat /\ S \in Nat \ {0} /\ flat \in 0 .. h - 1 /\ s \in 0 .. S - 1
    BY <1>1
  <2> QED
    BY <2>1, RowMajor
<1>3. flat \in Nat /\ s \in 0 .. S - 1
  BY <1>1
<1>4. flat \div H \in Nat /\ flat % H \in 0 .. H - 1 /\ flat = H * (flat \div H) + (flat % H)
  BY <1>3, DivMod
<1>5. PICK q \in Nat, m \in 0 .. H - 1 : q = flat \div H /\ m = flat % H /\ flat = H * q + m
  BY <1>4
<1>6. m * S + s \in 0 .. H * S - 1
  BY <1>3, RowMajor
<1>7. PICK B \in Nat \ {0}, y \in Nat : B = S * H /\ y = m * S + s /\ y \in 0 .. B - 1
  <2>1. S * H \in Nat \ {0} /\ S * H = H * S
    OBVIOUS
  <2> QED
    BY <1>6, <2>1
<1>8. PICK x \in Nat : x = flat * S + s
  BY <1>2
<1>9. x = B * q + y
  <2>1. flat * S = (H * q) * S + m * S
    BY <1>5
  <2>2. (H * q) * S = (S * H) * q
    OBVIOUS
  <2>3. m * S \in Int /\ (S * H) * q \in Int
    OBVIOUS
  <2> QED
    BY <1>3, <1>7, <1>8, <2>1, <2>2, <2>3
<1>10. x \div B = q
  <2>1. B \in Nat \ {0}
    OBVIOUS
  <2> QED
    BY <1>7, <1>9, <2>1, DivUnique
<1>11. PartialCoords(r, x) = [split |-> x % S, head |-> (x \div S) % H, batch |-> x \div B]
  BY <1>1, <1>7 DEF PartialCoords
<1> QED
  BY <1>1, <1>2, <1>5, <1>8, <1>10, <1>11 DEF Base

\* The splits partition the tokens.
LEMMA SplitsPartition ==
  ASSUME NEW n \in Nat, NEW m \in Nat \ {0}
  PROVE  /\ \A j \in 0 .. n - 1 : \E k \in 0 .. m - 1 : j \in SplitTokens(k, n, m)
         /\ \A k \in 0 .. m - 1 : SplitTokens(k, n, m) \subseteq 0 .. n - 1
         /\ \A k, i \in 0 .. m - 1 : \A j \in SplitTokens(k, n, m) :
              j \in SplitTokens(i, n, m) => k = i
<1>1. (n + m - 1) \div m \in Nat
  BY DivMod
<1>2. PICK c \in Nat : c = (n + m - 1) \div m
  BY <1>1
<1>3. Chunk(n, m) = c
  BY <1>2 DEF Chunk
<1>4. ASSUME NEW k \in 0 .. m - 1, NEW j
      PROVE  j \in SplitTokens(k, n, m) <=>
               j \in Int /\ k * c <= j /\ j < k * c + c /\ j < n
  <2>1. PICK a \in Nat : a = k * c
    OBVIOUS
  <2> QED
    BY <1>3, <2>1 DEF SplitTokens, Least
<1>5. ASSUME NEW j \in 0 .. n - 1
      PROVE  \E k \in 0 .. m - 1 : j \in SplitTokens(k, n, m)
  <2>1. PICK k \in 0 .. m - 1 : k * c <= j /\ j < k * c + c
    BY <1>2, ChunksCover
  <2> QED
    BY <2>1, <1>4
<1>6. ASSUME NEW k \in 0 .. m - 1, NEW j \in SplitTokens(k, n, m)
      PROVE  j \in 0 .. n - 1
  <2>1. j \in Int /\ k * c <= j /\ j < n
    BY <1>4
  <2>2. k * c \in Nat
    OBVIOUS
  <2> QED
    BY <2>1, <2>2
<1>7. ASSUME NEW k \in 0 .. m - 1, NEW i \in 0 .. m - 1, NEW j \in SplitTokens(k, n, m),
             j \in SplitTokens(i, n, m)
      PROVE  k = i
  <2>1. j \in Int /\ k * c <= j /\ j < k * c + c /\ i * c <= j /\ j < i * c + c
    BY <1>4, <1>7
  <2> QED
    BY <2>1, OneChunk
<1> QED
  BY <1>5, <1>6, <1>7

\* The softmax sum that merging the splits of head h of sequence b gives.
Merged(r, b, h) ==
  UNION {AddedBy(s, HeadRows(r, b, h, s)) :
           s \in {k \in 0 .. Splits(r) - 1 : HeadRows(r, b, h, k) # {}}}

\* The kernel finds the row of a token exactly when the sequence has that token mapped.
LEMMA RowsAttended ==
  ASSUME NEW r \in Requests, NEW b \in 0 .. r.batch - 1, NEW h, NEW h_kv,
         h_kv = h \div Group(r)
  PROVE  /\ SeqLen(r, b) \in Nat
         /\ \A j : j \in DOMAIN AttendedRows(r, b, h) <=>
                     j \in 0 .. SeqLen(r, b) - 1 /\ KvRow(r, b, h_kv, j) # <<>>
         /\ \A j \in DOMAIN AttendedRows(r, b, h) : AttendedRows(r, b, h)[j] = KvRow(r, b, h_kv, j)
<1>1. /\ r.batch \in Nat \ {0} /\ r.seq_kv \in Nat /\ r.seq_lens \in Seq(Nat)
      /\ r.page_table \in Seq(Seq(Int)) /\ r.block_size \in Nat \ {0} /\ r.num_kv_blocks \in Nat
      /\ Len(r.seq_lens) \in {0, r.batch} /\ Len(r.page_table) \in {0, r.batch}
  BY RequestFacts
<1>2. b \in Nat /\ b + 1 \in 1 .. r.batch
  BY <1>1
<1>3. SeqLen(r, b) \in Nat
  BY <1>1, <1>2, SMTT(40) DEF SeqLen
<1>4. CASE r.page_table = <<>>
  <2>1. AttendedRows(r, b, h) = [j \in 0 .. SeqLen(r, b) - 1 |-> <<b, h_kv, j>>]
    BY <1>4 DEF AttendedRows, SeqLen, Group
  <2>2. \A j : KvRow(r, b, h_kv, j) = <<b, h_kv, j>> /\ <<b, h_kv, j>> # <<>>
    BY <1>4 DEF KvRow
  <2> QED
    BY <1>3, <2>1, <2>2
<1>5. CASE r.page_table # <<>>
  <2> DEFINE row == r.page_table[b + 1]
             page(j) == (j \div r.block_size) + 1
             present(j) == page(j) \in DOMAIN row /\ row[page(j)] \in 0 .. r.num_kv_blocks - 1
             at(j) == <<"pool", h_kv, (row[page(j)] * r.block_size) + (j % r.block_size)>>
  <2>1. row \in Seq(Int) /\ Len(row) \in Nat /\ DOMAIN row = 1 .. Len(row)
    BY <1>1, <1>2, <1>5
  <2>2. AttendedRows(r, b, h) = [j \in {i \in 0 .. SeqLen(r, b) - 1 : present(i)} |-> at(j)]
    BY <1>5 DEF AttendedRows, SeqLen, Group
  <2>3. ASSUME NEW j \in 0 .. SeqLen(r, b) - 1
        PROVE  /\ KvRow(r, b, h_kv, j) # <<>> <=> present(j)
               /\ present(j) => KvRow(r, b, h_kv, j) = at(j)
    <3>1. j \in Nat
      BY <1>3
    <3>2. PICK q \in Nat, m \in Nat : q = j \div r.block_size /\ m = j % r.block_size
      <4>1. j \div r.block_size \in Nat /\ j % r.block_size \in 0 .. r.block_size - 1
        BY <1>1, <3>1, DivMod
      <4> QED
        BY <1>1, <4>1
    <3>3. PICK x : x = PageTableRow(row, j, r.block_size, Len(row), r.num_kv_blocks)
      OBVIOUS
    <3>4. KvRow(r, b, h_kv, j) = IF x < 0 THEN <<>> ELSE <<"pool", h_kv, x>>
      BY <1>5, <3>3 DEF KvRow
    <3>5. <<"pool", h_kv, x>> # <<>>
      OBVIOUS
    <3>6. ASSUME present(j)
          PROVE  x \in Nat /\ x = (row[page(j)] * r.block_size) + (j % r.block_size)
      <4>1. PICK y \in 0 .. r.num_kv_blocks - 1 : y = row[q + 1] /\ q + 1 \in 1 .. Len(row)
        BY <2>1, <3>2, <3>6
      <4>2. PageTableLookup(row, j, r.block_size, Len(row)) = y
        BY <2>1, <3>2, <4>1 DEF PageTableLookup
      <4>3. ~(y < 0 \/ y >= r.num_kv_blocks)
        BY <1>1
      <4>4. x = y * r.block_size + (j % r.block_size)
        BY <3>3, <4>2, <4>3 DEF PageTableRow
      <4>5. y * r.block_size \in Nat
        BY <1>1
      <4>6. x \in Nat
        BY <3>2, <4>4, <4>5
      <4>7. y = row[page(j)]
        BY <3>2, <4>1
      <4> QED
        BY <4>4, <4>6, <4>7
    <3>7. ASSUME ~present(j)
          PROVE  x = -1
      <4>1. CASE q >= Len(row)
        <5>1. PageTableLookup(row, j, r.block_size, Len(row)) = -1
          BY <3>2, <4>1 DEF PageTableLookup
        <5> QED
          BY <3>3, <5>1 DEF PageTableRow
      <4>2. CASE q < Len(row)
        <5>1. q + 1 \in DOMAIN row /\ row[q + 1] \in Int
          BY <2>1, <4>2
        <5>2. PICK y \in Int : y = row[q + 1]
          BY <5>1
        <5>3. PageTableLookup(row, j, r.block_size, Len(row)) = y
          BY <2>1, <3>2, <4>2, <5>2 DEF PageTableLookup
        <5>4. y < 0 \/ y >= r.num_kv_blocks
          BY <1>1, <3>2, <3>7, <5>1, <5>2, SMTT(40)
        <5> QED
          BY <3>3, <5>3, <5>4 DEF PageTableRow
      <4> QED
        BY <2>1, <3>2, <4>1, <4>2
    <3> HIDE DEF present
    <3>8. present(j) => KvRow(r, b, h_kv, j) = at(j)
      <4>1. ASSUME present(j)
            PROVE  KvRow(r, b, h_kv, j) = at(j)
        <5>1. ~(x < 0) /\ x = (row[page(j)] * r.block_size) + (j % r.block_size)
          BY <3>6, <4>1
        <5> QED
          BY <3>4, <5>1
      <4> QED
        BY <4>1
    <3>9. KvRow(r, b, h_kv, j) # <<>> <=> present(j)
      <4>1. CASE present(j)
        <5>1. ~(x < 0)
          BY <3>6, <4>1
        <5> QED
          BY <3>4, <3>5, <4>1, <5>1
      <4>2. CASE ~present(j)
        BY <3>4, <3>7, <4>2
      <4> QED
        BY <4>1, <4>2
    <3> QED
      BY <3>8, <3>9
  <2> HIDE DEF present, at
  <2>4. \A j : j \in DOMAIN AttendedRows(r, b, h) <=> j \in 0 .. SeqLen(r, b) - 1 /\ present(j)
    BY <2>2
  <2>5. \A j \in DOMAIN AttendedRows(r, b, h) : AttendedRows(r, b, h)[j] = at(j)
    BY <2>2
  <2> QED
    BY <1>3, <2>3, <2>4, <2>5
<1> QED
  BY <1>4, <1>5

\* Merging the splits of an output gives every token its sequence has, once.
LEMMA MergedExact ==
  ASSUME NEW r \in Requests, NEW b \in 0 .. r.batch - 1, NEW h
  PROVE  EachOnce(Merged(r, b, h), AttendedRows(r, b, h))
<1>1. PICK h_kv : h_kv = h \div Group(r)
  OBVIOUS
<1>2. PICK n \in Nat, m \in Nat \ {0} : n = SeqLen(r, b) /\ m = Splits(r)
  BY <1>1, RowsAttended, SplitsPositive
<1> DEFINE A == AttendedRows(r, b, h)
           K(j) == KvRow(r, b, h_kv, j)
<1>3. /\ \A j : j \in DOMAIN A <=> j \in 0 .. n - 1 /\ K(j) # <<>>
      /\ \A j \in DOMAIN A : A[j] = K(j)
  BY <1>1, <1>2, RowsAttended
<1>4. ASSUME NEW s, NEW x
      PROVE  x \in AddedBy(s, HeadRows(r, b, h, s)) <=>
               \E j \in SplitTokens(s, n, m) :
                 K(j) # <<>> /\ x = [split |-> s, token |-> j, read |-> K(j)]
  <2>1. HeadRows(r, b, h, s)
          = {[token |-> j, read |-> K(j)] : j \in {i \in SplitTokens(s, n, m) : K(i) # <<>>}}
    BY <1>1, <1>2 DEF HeadRows, FoldRows, Group
  <2> HIDE DEF K
  <2>2. ASSUME NEW j \in SplitTokens(s, n, m), K(j) # <<>>,
               x = [split |-> s, token |-> j, read |-> K(j)]
        PROVE  x \in AddedBy(s, HeadRows(r, b, h, s))
    <3> DEFINE y == [token |-> j, read |-> K(j)]
    <3>1. y \in HeadRows(r, b, h, s)
      BY <2>1, <2>2
    <3>2. y.token = j /\ y.read = K(j)
      OBVIOUS
    <3>3. x = [split |-> s, token |-> y.token, read |-> y.read]
      BY <2>2, <3>2
    <3> QED
      BY <3>1, <3>3 DEF AddedBy
  <2>3. ASSUME x \in AddedBy(s, HeadRows(r, b, h, s))
        PROVE  \E j \in SplitTokens(s, n, m) :
                 K(j) # <<>> /\ x = [split |-> s, token |-> j, read |-> K(j)]
    <3>1. PICK y \in HeadRows(r, b, h, s) :
            x = [split |-> s, token |-> y.token, read |-> y.read]
      BY <2>3 DEF AddedBy
    <3>2. PICK j \in SplitTokens(s, n, m) : K(j) # <<>> /\ y = [token |-> j, read |-> K(j)]
      BY <2>1
    <3> QED
      BY <3>1, <3>2
  <2> QED
    BY <2>2, <2>3
<1> HIDE DEF A, K
<1>5. ASSUME NEW x
      PROVE  x \in Merged(r, b, h) <=>
               \E s \in 0 .. m - 1 : \E j \in SplitTokens(s, n, m) :
                 K(j) # <<>> /\ x = [split |-> s, token |-> j, read |-> K(j)]
  <2>1. x \in Merged(r, b, h) <=> \E s \in 0 .. m - 1 : x \in AddedBy(s, HeadRows(r, b, h, s))
    BY <1>2 DEF Merged, AddedBy
  <2> QED
    BY <2>1, <1>4
<1>6. \A j \in DOMAIN A : \E x \in Merged(r, b, h) : x.token = j
  <2> SUFFICES ASSUME NEW j \in DOMAIN A
               PROVE  \E x \in Merged(r, b, h) : x.token = j
    OBVIOUS
  <2>1. j \in 0 .. n - 1 /\ K(j) # <<>>
    BY <1>3
  <2>2. PICK s \in 0 .. m - 1 : j \in SplitTokens(s, n, m)
    BY <2>1, SplitsPartition
  <2> DEFINE x == [split |-> s, token |-> j, read |-> K(j)]
  <2>3. x \in Merged(r, b, h) /\ x.token = j
    BY <1>5, <2>1, <2>2
  <2> QED
    BY <2>3
<1>7. ASSUME NEW x \in Merged(r, b, h)
      PROVE  \E s \in 0 .. m - 1 : \E j \in DOMAIN A :
               j \in SplitTokens(s, n, m) /\ x = [split |-> s, token |-> j, read |-> A[j]]
  <2>1. PICK s \in 0 .. m - 1 : \E j \in SplitTokens(s, n, m) :
          K(j) # <<>> /\ x = [split |-> s, token |-> j, read |-> K(j)]
    BY <1>5
  <2>2. PICK j \in SplitTokens(s, n, m) :
          K(j) # <<>> /\ x = [split |-> s, token |-> j, read |-> K(j)]
    BY <2>1
  <2>3. j \in 0 .. n - 1
    BY SplitsPartition
  <2>4. j \in DOMAIN A /\ A[j] = K(j)
    BY <1>3, <2>2, <2>3
  <2> QED
    BY <2>2, <2>4
<1>8. \A x \in Merged(r, b, h) : x.token \in DOMAIN A /\ x.read = A[x.token]
  <2> SUFFICES ASSUME NEW x \in Merged(r, b, h)
               PROVE  x.token \in DOMAIN A /\ x.read = A[x.token]
    OBVIOUS
  <2>1. PICK s \in 0 .. m - 1, j \in DOMAIN A : x = [split |-> s, token |-> j, read |-> A[j]]
    BY <1>7
  <2> QED
    BY <2>1
<1>9. \A x, y \in Merged(r, b, h) : x.token = y.token => x = y
  <2> SUFFICES ASSUME NEW x \in Merged(r, b, h), NEW y \in Merged(r, b, h), x.token = y.token
               PROVE  x = y
    OBVIOUS
  <2>1. PICK s \in 0 .. m - 1, j \in DOMAIN A :
          j \in SplitTokens(s, n, m) /\ x = [split |-> s, token |-> j, read |-> A[j]]
    BY <1>7
  <2>2. PICK t \in 0 .. m - 1, i \in DOMAIN A :
          i \in SplitTokens(t, n, m) /\ y = [split |-> t, token |-> i, read |-> A[i]]
    BY <1>7
  <2>3. i = j
    BY <2>1, <2>2
  <2>4. s = t
    BY <2>1, <2>2, <2>3, SplitsPartition
  <2> QED
    BY <2>1, <2>2, <2>3, <2>4
<1> QED
  BY <1>6, <1>8, <1>9 DEF EachOnce, A

-----------------------------------------------------------------------------
\* Every index that has work is a warp of the kernel.
LEMMA WorkCovers ==
  ASSUME NEW kind \in {"partial", "reduce"}, NEW r \in Requests
  PROVE  /\ Work(kind, r) \subseteq Nat
         /\ kind = "partial" => 0 .. Base(r) - 1 \subseteq Work(kind, r)
         /\ kind = "reduce" => 0 .. Heads(r) - 1 \subseteq Work(kind, r)
<1>1. PICK n \in Nat : n = IF kind = "partial" THEN Base(r) ELSE Heads(r)
  BY Sizes
<1>2. PICK w \in Nat : w = ((n + kWarpsPerBlock - 1) \div kWarpsPerBlock) * kWarpsPerBlock /\ n <= w
  BY RoundUp, DecodeAssumption
<1>3. Work(kind, r) = 0 .. w - 1
  BY <1>1, <1>2 DEF Work, Warps
<1>4. 0 .. n - 1 \subseteq 0 .. w - 1
  BY <1>2
<1> QED
  BY <1>1, <1>3, <1>4

\* A call whose record and buffer a step leaves alone stays as it was.
LEMMA CallStable ==
  ASSUME NEW c, c \in DOMAIN calls', calls'[c].req = calls[c].req, calls'[c].buf = calls[c].buf,
         calls[c].buf \in DOMAIN mem', mem'[calls[c].buf] = mem[calls[c].buf]
  PROVE  /\ Live(c) => Live(c)'
         /\ \A i : Written(c, i) => Written(c, i)'
         /\ AllWritten(c) => AllWritten(c)'
<1>1. Req(c)' = Req(c)
  BY DEF Req
<1>2. Live(c) => Live(c)'
  BY <1>1 DEF Live
<1>3. \A i : Written(c, i) => Written(c, i)'
  BY <1>1 DEF Written
<1> QED
  BY <1>1, <1>2, <1>3 DEF AllWritten

\* An output a step does not write stays as it was.
LEMMA OutStable ==
  ASSUME NEW c, calls'[c].req = calls[c].req, out'[c] = out[c]
  PROVE  \A flat : OutDone(c, flat) => OutDone(c, flat)'
<1>1. Req(c)' = Req(c)
  BY DEF Req
<1> QED
  BY <1>1 DEF OutDone

\* A host step that queues nothing: it keeps every call's request and output, and the
\* buffer of every call that has a kernel in the stream.
HostKeeps ==
  /\ stream' = stream /\ fault' = fault
  /\ host'.pc # "reduce"
  /\ stream # <<>> /\ host.pc \in {"drain", "reduce"} => host'.pc = "drain"
  /\ \A c \in DOMAIN calls : /\ c \in DOMAIN calls' /\ calls'[c].req = calls[c].req
                             /\ out'[c] = out[c]
  /\ \A c \in DOMAIN calls' :
       calls'[c].status = "ok" => c \in DOMAIN calls /\ calls[c].status = "ok"
  /\ \A i \in DOMAIN stream :
       LET c == stream[i].call IN
       /\ calls'[c].buf = calls[c].buf
       /\ calls[c].buf \in DOMAIN mem' /\ mem'[calls[c].buf] = mem[calls[c].buf]

\* What the kernels have done and will find is not disturbed by such a step.
LEMMA HostKeepsStream ==
  ASSUME IInv, HostKeeps
  PROVE  StreamInv' /\ PartialsInv' /\ OutputInv' /\ NoFault'
<1>1. ASSUME NEW i \in DOMAIN stream
      PROVE  /\ stream[i].call \in DOMAIN calls /\ Live(stream[i].call)'
             /\ Req(stream[i].call)' = Req(stream[i].call)
             /\ \A k : Written(stream[i].call, k) => Written(stream[i].call, k)'
             /\ AllWritten(stream[i].call) => AllWritten(stream[i].call)'
  <2>1. Live(stream[i].call)
    BY DEF IInv, StreamInv
  <2>2. stream[i].call \in DOMAIN calls
    BY <2>1 DEF Live
  <2>3. PICK c : c = stream[i].call
    OBVIOUS
  <2>4. /\ c \in DOMAIN calls' /\ calls'[c].req = calls[c].req /\ calls'[c].buf = calls[c].buf
        /\ calls[c].buf \in DOMAIN mem' /\ mem'[calls[c].buf] = mem[calls[c].buf]
    BY <2>2, <2>3 DEF HostKeeps
  <2>5. /\ Live(c) => Live(c)'
        /\ \A k : Written(c, k) => Written(c, k)'
        /\ AllWritten(c) => AllWritten(c)'
    BY <2>4, CallStable
  <2> QED
    BY <2>1, <2>2, <2>3, <2>4, <2>5 DEF Req, HostKeeps
<1>2. stream' = stream /\ fault' = fault
  BY DEF HostKeeps
<1>3. stream # <<>> => 1 \in DOMAIN stream
  BY DEF IInv, Types
<1>4. StreamInv'
  <2> SUFFICES ASSUME NEW i \in DOMAIN stream
               PROVE  (/\ Live(stream[i].call)
                       /\ i > 1 => stream[i].todo = Work(stream[i].kind, Req(stream[i].call))
                       /\ stream[i].kind = "partial" /\ i < Len(stream) =>
                            stream[i + 1].kind = "reduce" /\ stream[i + 1].call = stream[i].call
                       /\ stream[i].kind = "partial" /\ i = Len(stream) =>
                            host.pc = "drain" \/ (host.pc = "reduce" /\ host.call = stream[i].call)
                       /\ stream[i].kind = "reduce" /\ i > 1 => stream[i - 1].kind = "partial"
                       /\ host.pc = "reduce" /\ i = Len(stream) =>
                            stream[i].kind = "partial" /\ stream[i].call = host.call)'
    BY <1>2 DEF StreamInv
  <2>1. /\ Live(stream[i].call)' /\ Req(stream[i].call)' = Req(stream[i].call)
    BY <1>1
  <2>2. /\ i > 1 => stream[i].todo = Work(stream[i].kind, Req(stream[i].call))
        /\ stream[i].kind = "partial" /\ i < Len(stream) =>
             stream[i + 1].kind = "reduce" /\ stream[i + 1].call = stream[i].call
        /\ stream[i].kind = "partial" /\ i = Len(stream) => host.pc \in {"drain", "reduce"}
        /\ stream[i].kind = "reduce" /\ i > 1 => stream[i - 1].kind = "partial"
    BY DEF IInv, StreamInv
  <2>3. stream # <<>>
    OBVIOUS
  <2>4. /\ host'.pc # "reduce"
        /\ host.pc \in {"drain", "reduce"} => host'.pc = "drain"
    BY <2>3 DEF HostKeeps
  <2> QED
    BY <1>2, <2>1, <2>2, <2>4 DEF Work
<1>5. PartialsInv'
  <2>1. ASSUME stream # <<>>, stream[1].kind = "partial",
               NEW i \in 0 .. Base(Req(stream[1].call)) - 1, i \notin stream[1].todo
        PROVE  Written(stream[1].call, i)'
    BY <2>1, <1>1, <1>3 DEF IInv, PartialsInv
  <2>2. ASSUME stream # <<>>, stream[1].kind = "reduce"
        PROVE  AllWritten(stream[1].call)'
    BY <2>2, <1>1, <1>3 DEF IInv, PartialsInv
  <2>3. stream # <<>> => Req(stream[1].call)' = Req(stream[1].call)
    BY <1>1, <1>3
  <2>4. host'.pc # "reduce"
    BY DEF HostKeeps
  <2> QED
    BY <1>2, <2>1, <2>2, <2>3, <2>4 DEF PartialsInv
<1>6. OutputInv'
  <2>1. ASSUME NEW c \in DOMAIN calls
        PROVE  Req(c)' = Req(c) /\ \A flat : OutDone(c, flat) => OutDone(c, flat)'
    <3>1. calls'[c].req = calls[c].req /\ out'[c] = out[c]
      BY DEF HostKeeps
    <3> QED
      BY <3>1, OutStable DEF Req
  <2>2. ASSUME stream # <<>>, stream[1].kind = "reduce",
               NEW flat \in 0 .. Heads(Req(stream[1].call)) - 1, flat \notin stream[1].todo
        PROVE  OutDone(stream[1].call, flat)'
    <3>1. PICK c \in DOMAIN calls : c = stream[1].call /\ c = stream'[1].call
      BY <2>2, <1>1, <1>2, <1>3
    <3>2. OutDone(c, flat)
      BY <2>2, <3>1 DEF IInv, OutputInv
    <3> QED
      BY <2>1, <3>1, <3>2
  <2>3. stream # <<>> => Req(stream[1].call)' = Req(stream[1].call)
    BY <1>1, <1>3
  <2>4. ASSUME NEW c \in DOMAIN calls', calls'[c].status = "ok"
        PROVE  InStream(c)' \/ \A flat \in 0 .. Heads(Req(c)') - 1 : OutDone(c, flat)'
    <3>1. c \in DOMAIN calls /\ calls[c].status = "ok"
      BY <2>4 DEF HostKeeps
    <3>2. InStream(c) \/ \A flat \in 0 .. Heads(Req(c)) - 1 : OutDone(c, flat)
      BY <3>1 DEF IInv, OutputInv
    <3>3. InStream(c) => InStream(c)'
      BY <1>2 DEF InStream
    <3> QED
      BY <2>1, <3>1, <3>2, <3>3
  <2> QED
    BY <1>2, <2>2, <2>3, <2>4 DEF OutputInv, Heads
<1> QED
  BY <1>2, <1>4, <1>5, <1>6 DEF IInv, NoFault

-----------------------------------------------------------------------------
\* What the host's updates of its own call leave alone.
LEMMA FinishFacts ==
  ASSUME Types, NEW status \in {"running", "ok", "error"}, Finish(status)
  PROVE  /\ calls' \in Seq(CallType) /\ Len(calls') = Len(calls) /\ DOMAIN calls' = DOMAIN calls
         /\ \A c \in DOMAIN calls :
              /\ calls'[c].req = calls[c].req /\ calls'[c].buf = calls[c].buf
              /\ calls'[c].status = IF c = host.call THEN status ELSE calls[c].status
<1>1. calls \in Seq(CallType) /\ calls' = [calls EXCEPT ![host.call].status = status]
  BY DEF Types, Finish
<1> DEFINE new(c) == IF c = host.call THEN [calls[c] EXCEPT !.status = status] ELSE calls[c]
<1>2. PICK n \in Nat : n = Len(calls) /\ DOMAIN calls = 1 .. n
  BY <1>1
<1>3. calls' = [c \in 1 .. n |-> new(c)]
  BY <1>1, <1>2
<1>4. ASSUME NEW c \in 1 .. n
      PROVE  /\ new(c) \in CallType /\ new(c).req = calls[c].req /\ new(c).buf = calls[c].buf
             /\ new(c).status = IF c = host.call THEN status ELSE calls[c].status
  <2>1. calls[c] \in CallType
    BY <1>1, <1>2
  <2> QED
    BY <2>1 DEF CallType
<1> HIDE DEF new
<1>5. calls' \in [1 .. n -> CallType]
  BY <1>3, <1>4
<1>6. calls' \in Seq(CallType) /\ Len(calls') = n /\ DOMAIN calls' = 1 .. n
  BY <1>5, FcnIsSeq
<1> QED
  BY <1>2, <1>3, <1>4, <1>6

\* AcquireScratchFp32 hands the buffer to its own call only.
LEMMA SetBufferFacts ==
  ASSUME Types, NEW b \in Nat, calls' = [calls EXCEPT ![host.call].buf = b]
  PROVE  /\ calls' \in Seq(CallType) /\ Len(calls') = Len(calls) /\ DOMAIN calls' = DOMAIN calls
         /\ \A c \in DOMAIN calls :
              /\ calls'[c].req = calls[c].req /\ calls'[c].status = calls[c].status
              /\ calls'[c].buf = IF c = host.call THEN b ELSE calls[c].buf
<1>1. calls \in Seq(CallType)
  BY DEF Types
<1> DEFINE new(c) == IF c = host.call THEN [calls[c] EXCEPT !.buf = b] ELSE calls[c]
<1>2. PICK n \in Nat : n = Len(calls) /\ DOMAIN calls = 1 .. n
  BY <1>1
<1>3. calls' = [c \in 1 .. n |-> new(c)]
  BY <1>1, <1>2
<1>4. ASSUME NEW c \in 1 .. n
      PROVE  /\ new(c) \in CallType /\ new(c).req = calls[c].req
             /\ new(c).status = calls[c].status
             /\ new(c).buf = IF c = host.call THEN b ELSE calls[c].buf
  <2>1. calls[c] \in CallType
    BY <1>1, <1>2
  <2> QED
    BY <2>1 DEF CallType
<1> HIDE DEF new
<1>5. calls' \in [1 .. n -> CallType]
  BY <1>3, <1>4, ZenonT(40)
<1>6. calls' \in Seq(CallType) /\ Len(calls') = n /\ DOMAIN calls' = 1 .. n
  BY <1>5, FcnIsSeq
<1> QED
  BY <1>2, <1>3, <1>4, <1>6

\* A step that keeps the outputs and the requests of all calls.
LEMMA OutTypes ==
  ASSUME Types, out' = out, Len(calls') = Len(calls), DOMAIN calls' = DOMAIN calls,
         \A c \in DOMAIN calls : calls'[c].req = calls[c].req
  PROVE  /\ IsList(out, Len(calls))'
         /\ \A c \in DOMAIN calls' : DOMAIN out'[c] = 1 .. Heads(Req(c)')
<1>1. \A c \in DOMAIN calls : Req(c)' = Req(c)
  BY DEF Req
<1> QED
  BY <1>1 DEF Types, IsList

\* The buffers are numbered from 1.
LEMMA Buffers ==
  ASSUME Types
  PROVE  /\ Len(mem) \in Nat /\ DOMAIN mem = 1 .. Len(mem) /\ mem = [b \in DOMAIN mem |-> mem[b]]
         /\ \A x : /\ Len(Append(mem, x)) = Len(mem) + 1
                   /\ Append(mem, x) = [b \in 1 .. Len(mem) + 1 |-> IF b <= Len(mem) THEN mem[b] ELSE x]
<1>1. PICK n \in Nat : mem = [i \in 1 .. n |-> mem[i]]
  BY DEF Types, IsList
<1>2. /\ Len(mem) = n /\ DOMAIN mem = 1 .. n
      /\ \A x : Append(mem, x) = [i \in 1 .. n + 1 |-> IF i <= n THEN mem[i] ELSE x]
  BY <1>1, AppendIsFcn
<1>3. ASSUME NEW x
      PROVE  Len(Append(mem, x)) = n + 1
  <2>1. PICK g : g = Append(mem, x)
    OBVIOUS
  <2>2. g = [i \in 1 .. n + 1 |-> IF i <= n THEN mem[i] ELSE x]
    BY <1>2, <2>1
  <2>3. g = [i \in 1 .. n + 1 |-> g[i]]
    BY <2>2
  <2>4. Len(g) = n + 1
    BY <2>3, AppendIsFcn, n + 1 \in Nat
  <2> QED
    BY <2>1, <2>4
<1> QED
  BY <1>1, <1>2, <1>3

\* A new call owns no buffer and has no kernel in the stream.
LEMMA BeginSteps ==
  ASSUME IInv, NEW r \in Requests, Begin(r)
  PROVE  Types' /\ PoolInv' /\ HostInv' /\ HostKeeps
<1> DEFINE N == Len(calls)
           call == [req |-> r, buf |-> 0, status |-> "running"]
           fresh == [i \in 1 .. r.batch * r.num_heads |-> NoOutput(r)]
<1>1. /\ host.pc = "idle" /\ host' = [host EXCEPT !.pc = "acquire", !.call = N + 1]
      /\ calls' = Append(calls, call) /\ out' = Append(out, fresh)
      /\ UNCHANGED <<pool, mem, doomed, stream, fault>>
  BY DEF Begin
<1>2. /\ host \in HostType /\ calls \in Seq(CallType) /\ N \in Nat /\ DOMAIN calls = 1 .. N
      /\ IsList(out, N) /\ call \in CallType
  BY DEF IInv, Types, CallType
<1>3. /\ calls' \in Seq(CallType) /\ Len(calls') = N + 1 /\ DOMAIN calls' = 1 .. N + 1
      /\ \A c \in 1 .. N : calls'[c] = calls[c]
      /\ calls'[N + 1] = call
  BY <1>1, <1>2
<1>4. out' = [i \in 1 .. N + 1 |-> IF i <= N THEN out[i] ELSE fresh]
  BY <1>1, <1>2, AppendIsFcn DEF IsList
<1>5. host' \in HostType /\ host'.pc = "acquire" /\ host'.call = N + 1
  <2>1. PICK k \in Nat : k = N + 1
    BY <1>2
  <2>2. host' = [host EXCEPT !.pc = "acquire", !.call = k]
    BY <1>1, <2>1
  <2> HIDE DEF N
  <2>3. host \in HostType
    BY <1>2
  <2> QED
    BY <2>1, <2>2, <2>3 DEF HostType
<1>6. Types'
  <2>1. IsList(out, Len(calls))'
    BY <1>2, <1>3, <1>4 DEF IsList
  <2>2. ASSUME NEW c \in DOMAIN calls'
        PROVE  DOMAIN out'[c] = 1 .. Heads(Req(c)')
    <3>1. CASE c \in 1 .. N
      <4>1. out'[c] = out[c] /\ Req(c)' = Req(c)
        BY <1>2, <1>3, <1>4, <3>1 DEF Req
      <4> QED
        BY <3>1, <4>1, <1>2 DEF IInv, Types
    <3>2. CASE c = N + 1
      <4>1. out'[c] = fresh /\ Req(c)' = r
        BY <1>2, <1>3, <1>4, <3>2 DEF Req
      <4> QED
        BY <4>1 DEF Heads
    <3> QED
      BY <1>2, <1>3, <3>1, <3>2
  <2> QED
    BY <1>1, <1>3, <1>5, <2>1, <2>2 DEF IInv, Types, IsList, Heads
<1>7. PoolInv'
  BY <1>1, <1>5 DEF IInv, PoolInv
<1>8. HostInv'
  <2>1. \A i \in DOMAIN stream : stream[i].call \in 1 .. N
    BY <1>2 DEF IInv, StreamInv, Live
  <2>2. \A i \in DOMAIN stream : stream[i].call # N + 1
    BY <1>2, <2>1
  <2>3. N + 1 \in DOMAIN calls' /\ calls'[N + 1].status = "running"
    BY <1>2, <1>3
  <2> QED
    BY <1>1, <1>5, <2>2, <2>3 DEF HostInv, HasBuffer
<1>9. HostKeeps
  <2>1. \A c \in DOMAIN calls : c \in DOMAIN calls' /\ calls'[c] = calls[c] /\ out'[c] = out[c]
    BY <1>2, <1>3, <1>4
  <2>2. \A c \in DOMAIN calls' : calls'[c].status = "ok" => c \in DOMAIN calls /\ calls[c].status = "ok"
    BY <1>2, <1>3
  <2>3. \A i \in DOMAIN stream : /\ stream[i].call \in DOMAIN calls
                                 /\ calls[stream[i].call].buf \in DOMAIN mem
    BY DEF IInv, StreamInv, Live
  <2> QED
    BY <1>1, <1>5, <2>1, <2>2, <2>3 DEF HostKeeps
<1> QED
  BY <1>6, <1>7, <1>8, <1>9

\* The cached buffer is large enough for the partials of the call.
LEMMA AcquireReuseSteps ==
  ASSUME IInv, AcquireReuse
  PROVE  Types' /\ PoolInv' /\ HostInv' /\ HostKeeps
<1>1. /\ host.pc = "acquire" /\ host' = [host EXCEPT !.pc = "output"]
      /\ pool.buf # 0 /\ pool.elements >= Elements(Req(host.call))
      /\ calls' = [calls EXCEPT ![host.call].buf = pool.buf]
      /\ UNCHANGED <<pool, mem, doomed, stream, out, fault>>
  BY DEF AcquireReuse, HasRoom
<1>2. /\ Types /\ host \in HostType /\ pool \in [buf : Nat, elements : Nat]
      /\ host.call \in DOMAIN calls /\ calls[host.call].status = "running"
      /\ calls[host.call].req \in Requests
      /\ \A i \in DOMAIN stream : stream[i].call # host.call
  <2>1. /\ Types /\ host \in HostType /\ pool \in [buf : Nat, elements : Nat]
        /\ calls \in Seq(CallType)
    BY DEF IInv, Types
  <2>2. /\ host.call \in DOMAIN calls /\ calls[host.call].status = "running"
        /\ \A i \in DOMAIN stream : stream[i].call # host.call
    BY <1>1 DEF IInv, HostInv
  <2>3. calls[host.call] \in CallType
    BY <2>1, <2>2
  <2> QED
    BY <2>1, <2>2, <2>3 DEF CallType
<1>3. host' \in HostType /\ host'.pc = "output" /\ host'.call = host.call
  BY <1>1, <1>2 DEF HostType
<1>4. /\ calls' \in Seq(CallType) /\ Len(calls') = Len(calls) /\ DOMAIN calls' = DOMAIN calls
      /\ \A c \in DOMAIN calls :
           /\ calls'[c].req = calls[c].req /\ calls'[c].status = calls[c].status
           /\ calls'[c].buf = IF c = host.call THEN pool.buf ELSE calls[c].buf
  BY <1>1, <1>2, SetBufferFacts
<1>5. Types'
  BY <1>1, <1>2, <1>3, <1>4, OutTypes DEF Types, IsList
<1>6. PoolInv'
  BY <1>1, <1>3 DEF IInv, PoolInv
<1>7. HostInv'
  <2>1. /\ pool.buf \in DOMAIN mem /\ pool.buf \notin doomed
        /\ DOMAIN mem[pool.buf] = 0 .. pool.elements - 1
    BY <1>1 DEF IInv, PoolInv
  <2>2. Elements(Req(host.call)) \in Nat
    BY <1>2, Sizes DEF Req
  <2>3. 0 .. Elements(Req(host.call)) - 1 \subseteq DOMAIN mem[pool.buf]
    BY <1>1, <1>2, <2>1, <2>2
  <2>4. PICK c \in DOMAIN calls : c = host.call /\ c = host'.call
    BY <1>2, <1>3
  <2>5. /\ Req(c)' = Req(c) /\ c \in DOMAIN calls'
        /\ calls'[c].buf = pool.buf /\ calls'[c].status = "running"
    BY <1>2, <1>4, <2>4 DEF Req
  <2>6. Live(c)'
    BY <1>1, <2>1, <2>3, <2>4, <2>5 DEF Live
  <2> QED
    BY <1>1, <1>3, <2>1, <2>4, <2>5, <2>6 DEF HostInv, HasBuffer
<1>8. HostKeeps
  <2>1. \A i \in DOMAIN stream : /\ stream[i].call \in DOMAIN calls
                                 /\ calls[stream[i].call].buf \in DOMAIN mem
    BY DEF IInv, StreamInv, Live
  <2> QED
    BY <1>1, <1>2, <1>3, <1>4, <2>1 DEF HostKeeps
<1> QED
  BY <1>5, <1>6, <1>7, <1>8

\* The new buffer is large enough, and is not the one that is being freed.
LEMMA AcquireGrowSteps ==
  ASSUME IInv, AcquireGrow
  PROVE  Types' /\ PoolInv' /\ HostInv' /\ HostKeeps
<1>1. PICK b, n : b = Len(mem) + 1 /\ n = Grown(Elements(Req(host.call)))
  OBVIOUS
<1> DEFINE blank == [a \in 0 .. n - 1 |-> Unwritten]
<1>2. /\ host.pc = "acquire" /\ host' = [host EXCEPT !.pc = "free", !.then = "output"]
      /\ mem' = Append(mem, blank) /\ pool' = [buf |-> b, elements |-> n]
      /\ doomed' = {pool.buf} \ {0}
      /\ calls' = [calls EXCEPT ![host.call].buf = b]
      /\ UNCHANGED <<stream, out, fault>>
  BY <1>1 DEF AcquireGrow
<1>3. /\ Types /\ host \in HostType /\ pool \in [buf : Nat, elements : Nat]
      /\ host.call \in DOMAIN calls /\ calls[host.call].status = "running"
      /\ calls[host.call].req \in Requests
      /\ \A i \in DOMAIN stream : stream[i].call # host.call
  <2>1. /\ Types /\ host \in HostType /\ pool \in [buf : Nat, elements : Nat]
        /\ calls \in Seq(CallType)
    BY DEF IInv, Types
  <2>2. /\ host.call \in DOMAIN calls /\ calls[host.call].status = "running"
        /\ \A i \in DOMAIN stream : stream[i].call # host.call
    BY <1>2 DEF IInv, HostInv
  <2>3. calls[host.call] \in CallType
    BY <2>1, <2>2
  <2> QED
    BY <2>1, <2>2, <2>3 DEF CallType
<1>4. host' \in HostType /\ host'.pc = "free" /\ host'.then = "output" /\ host'.call = host.call
  BY <1>2, <1>3 DEF HostType
<1>5. /\ Len(mem) \in Nat /\ DOMAIN mem = 1 .. Len(mem)
      /\ mem' = [i \in 1 .. Len(mem) + 1 |-> IF i <= Len(mem) THEN mem[i] ELSE blank]
  BY <1>2, <1>3, Buffers
<1>6. b \in Nat /\ b \notin DOMAIN mem /\ b # 0 /\ DOMAIN mem' = 1 .. b /\ mem'[b] = blank
  BY <1>1, <1>5
<1>7. \A x \in DOMAIN mem : x \in DOMAIN mem' /\ mem'[x] = mem[x]
  BY <1>5
<1>8. n \in Nat /\ Elements(Req(host.call)) \in Nat /\ Elements(Req(host.call)) <= n
  <2>1. PICK e \in Nat : e = Elements(Req(host.call))
    BY <1>3, Sizes DEF Req
  <2>2. e \div 4 \in Nat
    BY DivMod
  <2> QED
    BY <1>1, <2>1, <2>2, DecodeAssumption DEF Grown
<1>9. /\ calls' \in Seq(CallType) /\ Len(calls') = Len(calls) /\ DOMAIN calls' = DOMAIN calls
      /\ \A c \in DOMAIN calls :
           /\ calls'[c].req = calls[c].req /\ calls'[c].status = calls[c].status
           /\ calls'[c].buf = IF c = host.call THEN b ELSE calls[c].buf
  BY <1>2, <1>3, <1>6, SetBufferFacts
<1>10. b \notin doomed'
  <2>1. pool.buf # 0 => pool.buf \in DOMAIN mem
    BY DEF IInv, PoolInv
  <2> QED
    BY <1>2, <1>6, <2>1
<1>11. Types'
  <2>1. \E k \in Nat : IsList(mem, k)'
    <3>1. mem' = [i \in 1 .. b |-> mem'[i]]
      BY <1>1, <1>5
    <3> QED
      BY <1>6, <3>1 DEF IsList
  <2>2. pool' \in [buf : Nat, elements : Nat] /\ stream' \in Seq(KernelType)
    BY <1>2, <1>3, <1>6, <1>8 DEF Types
  <2>3. /\ IsList(out, Len(calls))'
        /\ \A c \in DOMAIN calls' : DOMAIN out'[c] = 1 .. Heads(Req(c)')
    BY <1>2, <1>3, <1>9, OutTypes
  <2> QED
    BY <1>4, <1>9, <2>1, <2>2, <2>3 DEF Types, Heads
<1>12. PoolInv'
  <2>1. pool'.buf = b /\ pool'.elements = n /\ DOMAIN mem'[b] = 0 .. n - 1 /\ b \in DOMAIN mem'
    BY <1>2, <1>6
  <2> QED
    BY <1>4, <1>10, <2>1 DEF PoolInv
<1>13. HostInv'
  <2>1. PICK c \in DOMAIN calls : c = host.call /\ c = host'.call
    BY <1>3, <1>4
  <2>2. /\ Req(c)' = Req(c) /\ c \in DOMAIN calls'
        /\ calls'[c].buf = b /\ calls'[c].status = "running"
    BY <1>3, <1>9, <2>1 DEF Req
  <2>3. 0 .. Elements(Req(c)) - 1 \subseteq DOMAIN mem'[b] /\ b \in DOMAIN mem'
    BY <1>6, <1>8, <2>1
  <2>4. Live(c)'
    BY <2>2, <2>3 DEF Live
  <2> QED
    BY <1>4, <1>10, <2>1, <2>2, <2>4 DEF HostInv, HasBuffer
<1>14. HostKeeps
  <2>1. \A i \in DOMAIN stream : /\ stream[i].call \in DOMAIN calls
                                 /\ calls[stream[i].call].buf \in DOMAIN mem
    BY DEF IInv, StreamInv, Live
  <2> QED
    BY <1>2, <1>3, <1>4, <1>7, <1>9, <2>1 DEF HostKeeps
<1> QED
  BY <1>11, <1>12, <1>13, <1>14

\* A host step that leaves memory, pool and stream alone and at most closes its call.
LEMMA QuietSteps ==
  ASSUME IInv, Finish("error") \/ UNCHANGED calls,
         host' \in HostType, host'.call = host.call,
         host'.pc \in {"idle", "drain"} \/ (host.pc = "output" /\ host'.pc = "partial" /\ calls' = calls),
         stream # <<>> /\ host.pc \in {"drain", "reduce"} => host'.pc = "drain",
         host.pc # "free", UNCHANGED <<pool, mem, doomed, stream, out, fault>>
  PROVE  Types' /\ PoolInv' /\ HostInv' /\ HostKeeps
<1>1. Types /\ calls \in Seq(CallType)
  BY DEF IInv, Types
<1>2. /\ calls' \in Seq(CallType) /\ Len(calls') = Len(calls) /\ DOMAIN calls' = DOMAIN calls
      /\ \A c \in DOMAIN calls : calls'[c].req = calls[c].req /\ calls'[c].buf = calls[c].buf
      /\ \A c \in DOMAIN calls : calls'[c].status = "ok" => calls[c].status = "ok"
  <2>1. CASE Finish("error")
    BY <1>1, <2>1, FinishFacts
  <2>2. CASE UNCHANGED calls
    BY <1>1, <2>2
  <2> QED
    BY <2>1, <2>2
<1>3. Types'
  <2>1. /\ IsList(out, Len(calls))'
        /\ \A c \in DOMAIN calls' : DOMAIN out'[c] = 1 .. Heads(Req(c)')
    BY <1>1, <1>2, OutTypes
  <2> QED
    BY <1>1, <1>2, <2>1 DEF Types, IsList, Heads
<1>4. PoolInv'
  BY DEF IInv, PoolInv
<1>5. HostInv'
  <2>1. CASE host'.pc \in {"idle", "drain"}
    BY <2>1 DEF HostInv, HasBuffer
  <2>2. CASE host.pc = "output" /\ host'.pc = "partial" /\ calls' = calls
    <3>1. PICK c : c = host.call /\ c = host'.call
      OBVIOUS
    <3>2. c \in DOMAIN calls /\ calls[c].status = "running" /\ Live(c) /\ calls[c].buf \notin doomed
      BY <2>2, <3>1 DEF IInv, HostInv, HasBuffer
    <3>3. Live(c)'
      BY <2>2, <3>2 DEF Live, Req
    <3> QED
      BY <2>2, <3>1, <3>2, <3>3 DEF HostInv, HasBuffer
  <2> QED
    BY <2>1, <2>2
<1>6. HostKeeps
  <2>1. \A i \in DOMAIN stream : /\ stream[i].call \in DOMAIN calls
                                 /\ calls[stream[i].call].buf \in DOMAIN mem
    BY DEF IInv, StreamInv, Live
  <2>2. host'.pc # "reduce"
    OBVIOUS
  <2> QED
    BY <1>2, <2>1, <2>2 DEF HostKeeps
<1> QED
  BY <1>3, <1>4, <1>5, <1>6

\* The output tensor cannot be had: the call ends with an error.
LEMMA OutputFailsSteps ==
  ASSUME IInv, OutputFails
  PROVE  Types' /\ PoolInv' /\ HostInv' /\ HostKeeps
<1>1. /\ host.pc = "output" /\ host' = [host EXCEPT !.pc = "idle"] /\ Finish("error")
      /\ UNCHANGED <<pool, mem, doomed, stream, out, fault>>
  BY DEF OutputFails
<1>2. host' \in HostType /\ host'.pc = "idle" /\ host'.call = host.call
  BY <1>1 DEF IInv, Types, HostType
<1> QED
  BY <1>1, <1>2, QuietSteps

\* The output tensor is there; the launches follow.
LEMMA OutputAllocatedSteps ==
  ASSUME IInv, OutputAllocated
  PROVE  Types' /\ PoolInv' /\ HostInv' /\ HostKeeps
<1>1. /\ host.pc = "output" /\ host' = [host EXCEPT !.pc = "partial"]
      /\ UNCHANGED <<calls, pool, mem, doomed, stream, out, fault>>
  BY DEF OutputAllocated
<1>2. host' \in HostType /\ host'.pc = "partial" /\ host'.call = host.call
  BY <1>1 DEF IInv, Types, HostType
<1> QED
  BY <1>1, <1>2, QuietSteps

\* A launch that reports an error and queues nothing.
LEMMA LaunchLostSteps ==
  ASSUME IInv, NEW kind \in {"partial", "reduce"}, LaunchFails(kind, FALSE)
  PROVE  Types' /\ PoolInv' /\ HostInv' /\ HostKeeps
<1>1. /\ host.pc = kind /\ host' = [host EXCEPT !.pc = "drain"] /\ Finish("error")
      /\ UNCHANGED <<pool, mem, doomed, stream, out, fault>>
  BY DEF LaunchFails
<1>2. host' \in HostType /\ host'.pc = "drain" /\ host'.call = host.call
  BY <1>1 DEF IInv, Types, HostType
<1> QED
  BY <1>1, <1>2, QuietSteps

\* The output of the failed call is destroyed once the stream is empty.
LEMMA DrainedSteps ==
  ASSUME IInv, Drained
  PROVE  Types' /\ PoolInv' /\ HostInv' /\ HostKeeps
<1>1. /\ host.pc = "drain" /\ stream = <<>> /\ host' = [host EXCEPT !.pc = "idle"]
      /\ UNCHANGED <<calls, pool, mem, doomed, stream, out, fault>>
  BY DEF Drained
<1>2. host' \in HostType /\ host'.pc = "idle" /\ host'.call = host.call
  BY <1>1 DEF IInv, Types, HostType
<1> QED
  BY <1>1, <1>2, QuietSteps

\* The cached buffer is given up, because a larger one cannot be had or by ReleaseScratch.
LEMMA GiveUpSteps ==
  ASSUME IInv, AcquireFails \/ ReleaseScratch
  PROVE  Types' /\ PoolInv' /\ HostInv' /\ HostKeeps
<1>1. /\ host.pc \in {"acquire", "idle"} /\ host' = [host EXCEPT !.pc = "free", !.then = "idle"]
      /\ pool' = [buf |-> 0, elements |-> 0]
      /\ Finish("error") \/ UNCHANGED calls
      /\ UNCHANGED <<mem, stream, out, fault>>
  BY DEF AcquireFails, ReleaseScratch
<1>2. Types /\ calls \in Seq(CallType)
  BY DEF IInv, Types
<1>3. host' \in HostType /\ host'.pc = "free" /\ host'.then = "idle"
  BY <1>1, <1>2 DEF Types, HostType
<1>4. /\ calls' \in Seq(CallType) /\ Len(calls') = Len(calls) /\ DOMAIN calls' = DOMAIN calls
      /\ \A c \in DOMAIN calls : calls'[c].req = calls[c].req /\ calls'[c].buf = calls[c].buf
      /\ \A c \in DOMAIN calls : calls'[c].status = "ok" => calls[c].status = "ok"
  <2>1. CASE Finish("error")
    BY <1>2, <2>1, FinishFacts
  <2>2. CASE UNCHANGED calls
    BY <1>2, <2>2
  <2> QED
    BY <1>1, <2>1, <2>2
<1>5. Types'
  <2>1. /\ IsList(out, Len(calls))'
        /\ \A c \in DOMAIN calls' : DOMAIN out'[c] = 1 .. Heads(Req(c)')
    BY <1>1, <1>2, <1>4, OutTypes
  <2> QED
    BY <1>1, <1>2, <1>3, <1>4, <2>1 DEF Types, IsList, Heads
<1>6. PoolInv'
  BY <1>1, <1>3 DEF PoolInv
<1>7. HostInv'
  BY <1>3 DEF HostInv, HasBuffer
<1>8. HostKeeps
  <2>1. \A i \in DOMAIN stream : /\ stream[i].call \in DOMAIN calls
                                 /\ calls[stream[i].call].buf \in DOMAIN mem
    BY DEF IInv, StreamInv, Live
  <2> QED
    BY <1>1, <1>3, <1>4, <2>1 DEF HostKeeps
<1> QED
  BY <1>5, <1>6, <1>7, <1>8

\* A buffer is freed only when the stream has run out of kernels that could use it.
LEMMA FreeDoneSteps ==
  ASSUME IInv, FreeDone
  PROVE  Types' /\ PoolInv' /\ HostInv' /\ HostKeeps
<1>1. /\ host.pc = "free" /\ host' = [host EXCEPT !.pc = host.then]
      /\ doomed # {} => stream = <<>>
      /\ mem' = [b \in DOMAIN mem |-> IF b \in doomed THEN <<>> ELSE mem[b]]
      /\ doomed' = {}
      /\ UNCHANGED <<calls, pool, stream, out, fault>>
  BY DEF FreeDone
<1>2. Types /\ host \in HostType
  BY DEF IInv, Types
<1>3. /\ host' \in HostType /\ host'.pc = host.then /\ host'.call = host.call
      /\ host'.pc \in {"idle", "output"}
  BY <1>1, <1>2 DEF HostType
<1>4. DOMAIN mem' = DOMAIN mem /\ \A b \in DOMAIN mem : b \notin doomed => mem'[b] = mem[b]
  BY <1>1
<1>5. Types'
  <2>1. /\ IsList(out, Len(calls))'
        /\ \A c \in DOMAIN calls' : DOMAIN out'[c] = 1 .. Heads(Req(c)')
    BY <1>1, <1>2, OutTypes
  <2>2. PICK n \in Nat : DOMAIN mem = 1 .. n
    BY <1>2, Buffers
  <2>3. IsList(mem, n)'
    BY <1>1, <2>2 DEF IsList
  <2> QED
    BY <1>1, <1>2, <1>3, <2>1, <2>3 DEF Types, Heads
<1>6. PoolInv'
  BY <1>1, <1>4 DEF IInv, PoolInv
<1>7. HostInv'
  <2>1. CASE host'.pc = "idle"
    BY <2>1 DEF HostInv, HasBuffer
  <2>2. CASE host'.pc = "output"
    <3>1. PICK c : c = host.call /\ c = host'.call
      BY <1>3
    <3>2. c \in DOMAIN calls /\ calls[c].status = "running" /\ Live(c) /\ calls[c].buf \notin doomed
      BY <1>1, <1>3, <2>2, <3>1 DEF IInv, HostInv, HasBuffer
    <3>3. Live(c)'
      BY <1>1, <1>4, <3>2 DEF Live, Req
    <3> QED
      BY <1>1, <2>2, <3>1, <3>2, <3>3 DEF HostInv, HasBuffer
  <2> QED
    BY <1>3, <2>1, <2>2
<1>8. HostKeeps
  <2>1. ASSUME NEW i \in DOMAIN stream
        PROVE  /\ calls[stream[i].call].buf \in DOMAIN mem'
               /\ mem'[calls[stream[i].call].buf] = mem[calls[stream[i].call].buf]
    <3>1. doomed = {}
      BY <1>1
    <3>2. calls[stream[i].call].buf \in DOMAIN mem
      BY DEF IInv, StreamInv, Live
    <3> QED
      BY <1>4, <3>1, <3>2
  <2> QED
    BY <1>1, <1>3, <2>1 DEF HostKeeps
<1> QED
  BY <1>5, <1>6, <1>7, <1>8

-----------------------------------------------------------------------------
\* A kernel of the host's call is queued; the host may all the same be told of an error.
LEMMA QueueSteps ==
  ASSUME IInv, NEW kind \in {"partial", "reduce"}, Launch(kind) \/ LaunchFails(kind, TRUE)
  PROVE  Types' /\ PoolInv' /\ HostInv' /\ StreamInv' /\ PartialsInv' /\ OutputInv' /\ NoFault'
<1>1. PICK c : c = host.call
  OBVIOUS
<1> DEFINE new == [kind |-> kind, call |-> c, todo |-> Work(kind, Req(c))]
<1>2. /\ host.pc = kind /\ stream' = Append(stream, new)
      /\ UNCHANGED <<pool, mem, doomed, out, fault>>
  BY <1>1 DEF Launch, LaunchFails, Kernel, Work
<1>3. Types /\ host \in HostType /\ calls \in Seq(CallType) /\ stream \in Seq(KernelType)
  BY DEF IInv, Types
<1>4. /\ host' \in HostType /\ host'.call = c
      /\ \/ kind = "partial" /\ host'.pc = "reduce" /\ UNCHANGED calls
         \/ kind = "reduce" /\ host'.pc = "idle" /\ Finish("ok")
         \/ host'.pc = "drain" /\ Finish("error")
  <2>1. \/ kind = "partial" /\ host' = [host EXCEPT !.pc = "reduce"] /\ UNCHANGED calls
        \/ kind = "reduce" /\ host' = [host EXCEPT !.pc = "idle"] /\ Finish("ok")
        \/ host' = [host EXCEPT !.pc = "drain"] /\ Finish("error")
    BY DEF Launch, LaunchFails
  <2> QED
    BY <1>1, <1>3, <2>1 DEF HostType
<1>5. /\ calls' \in Seq(CallType) /\ Len(calls') = Len(calls) /\ DOMAIN calls' = DOMAIN calls
      /\ \A x \in DOMAIN calls : calls'[x].req = calls[x].req /\ calls'[x].buf = calls[x].buf
      /\ \A x \in DOMAIN calls : calls'[x].status = "ok" =>
           calls[x].status = "ok" \/ (x = c /\ kind = "reduce")
      /\ host'.pc = "reduce" => calls' = calls
  <2>1. CASE Finish("ok") /\ kind = "reduce" /\ host'.pc = "idle"
    BY <1>1, <1>3, <2>1, FinishFacts
  <2>2. CASE Finish("error") /\ host'.pc = "drain"
    BY <1>1, <1>3, <2>2, FinishFacts
  <2>3. CASE UNCHANGED calls
    BY <1>3, <2>3
  <2> QED
    BY <1>4, <2>1, <2>2, <2>3
<1>6. /\ c \in DOMAIN calls /\ calls[c].status = "running" /\ Live(c) /\ calls[c].buf \notin doomed
      /\ calls[c].req \in Requests
  <2>1. c \in DOMAIN calls /\ calls[c].status = "running" /\ Live(c) /\ calls[c].buf \notin doomed
    BY <1>1, <1>2 DEF IInv, HostInv, HasBuffer
  <2>2. calls[c] \in CallType
    BY <1>3, <2>1
  <2> QED
    BY <2>1, <2>2 DEF CallType
<1>7. c \in Nat /\ Work(kind, Req(c)) \subseteq Nat /\ new \in KernelType
  <2>1. c \in Nat /\ Work(kind, Req(c)) \subseteq Nat
    BY <1>3, <1>6, WorkCovers DEF Req
  <2> QED
    BY <2>1 DEF KernelType
<1> HIDE DEF new
<1>8. /\ new.kind = kind /\ new.call = c /\ new.todo = Work(kind, Req(c))
  BY DEF new
<1>9. PICK n \in Nat : n = Len(stream) /\ DOMAIN stream = 1 .. n
  BY <1>3
<1>10. /\ stream' \in Seq(KernelType) /\ Len(stream') = n + 1 /\ DOMAIN stream' = 1 .. n + 1
       /\ \A i \in 1 .. n : stream'[i] = stream[i]
       /\ stream'[n + 1] = new
  BY <1>2, <1>3, <1>7, <1>9
<1>11. ASSUME NEW x \in DOMAIN calls
       PROVE  /\ Req(x)' = Req(x)
              /\ Live(x) => Live(x)'
              /\ \A i : Live(x) /\ Written(x, i) => Written(x, i)'
              /\ Live(x) /\ AllWritten(x) => AllWritten(x)'
              /\ \A flat : OutDone(x, flat) => OutDone(x, flat)'
  <2>1. /\ x \in DOMAIN calls' /\ calls'[x].req = calls[x].req /\ calls'[x].buf = calls[x].buf
        /\ mem' = mem /\ out' = out
    BY <1>2, <1>5
  <2>2. ASSUME Live(x)
        PROVE  /\ Live(x)' /\ \A i : Written(x, i) => Written(x, i)'
               /\ AllWritten(x) => AllWritten(x)'
    <3>1. calls[x].buf \in DOMAIN mem'
      BY <2>1, <2>2 DEF Live
    <3> QED
      BY <2>1, <2>2, <3>1, CallStable
  <2>3. \A flat : OutDone(x, flat) => OutDone(x, flat)'
    BY <2>1, OutStable
  <2> QED
    BY <2>1, <2>2, <2>3 DEF Req
<1>12. \A i \in 1 .. n : stream[i].call \in DOMAIN calls /\ Live(stream[i].call)
  BY <1>9 DEF IInv, StreamInv, Live
<1>13. Types'
  <2>1. /\ IsList(out, Len(calls))'
        /\ \A x \in DOMAIN calls' : DOMAIN out'[x] = 1 .. Heads(Req(x)')
    BY <1>2, <1>3, <1>5, OutTypes
  <2> QED
    BY <1>2, <1>3, <1>4, <1>5, <1>10, <2>1 DEF Types, IsList, Heads
<1>14. PoolInv'
  BY <1>2 DEF IInv, PoolInv
<1>15. HostInv'
  <2>1. CASE host'.pc \in {"idle", "drain"}
    BY <2>1 DEF HostInv, HasBuffer
  <2>2. CASE host'.pc = "reduce"
    <3>1. Live(c)' /\ c \in DOMAIN calls' /\ calls'[c] = calls[c]
      BY <1>5, <1>6, <1>11, <2>2
    <3> QED
      BY <1>2, <1>4, <1>6, <2>2, <3>1 DEF HostInv, HasBuffer
  <2> QED
    BY <1>4, <2>1, <2>2
\* The last kernel before this one.
<1>16. n > 0 => /\ kind = "partial" => stream[n].kind = "reduce"
                /\ kind = "reduce" => stream[n].kind = "partial" /\ stream[n].call = c
  <2>1. ASSUME n > 0
        PROVE  /\ stream[n].kind \in {"partial", "reduce"}
               /\ stream[n].kind = "partial" => host.pc \in {"drain", "reduce"}
               /\ host.pc = "reduce" => stream[n].kind = "partial" /\ stream[n].call = host.call
    <3>1. n \in DOMAIN stream /\ stream[n] \in KernelType
      BY <1>3, <1>9, <2>1
    <3> QED
      BY <1>9, <3>1 DEF IInv, StreamInv, KernelType
  <2> QED
    BY <1>1, <1>2, <2>1
<1>17. StreamInv'
  <2> SUFFICES ASSUME NEW i \in 1 .. n + 1
               PROVE  (/\ Live(stream[i].call)
                       /\ i > 1 => stream[i].todo = Work(stream[i].kind, Req(stream[i].call))
                       /\ stream[i].kind = "partial" /\ i < Len(stream) =>
                            stream[i + 1].kind = "reduce" /\ stream[i + 1].call = stream[i].call
                       /\ stream[i].kind = "partial" /\ i = Len(stream) =>
                            host.pc = "drain" \/ (host.pc = "reduce" /\ host.call = stream[i].call)
                       /\ stream[i].kind = "reduce" /\ i > 1 => stream[i - 1].kind = "partial"
                       /\ host.pc = "reduce" /\ i = Len(stream) =>
                            stream[i].kind = "partial" /\ stream[i].call = host.call)'
    BY <1>10 DEF StreamInv
  <2>1. CASE i \in 1 .. n
    <3>1. stream'[i] = stream[i] /\ i # Len(stream')
      BY <1>9, <1>10, <2>1
    <3>2. PICK x \in DOMAIN calls : x = stream[i].call /\ x = stream'[i].call /\ Live(x)
      BY <1>12, <2>1, <3>1
    <3>3. Live(x)' /\ Req(x)' = Req(x)
      BY <1>11, <3>2
    <3>4. /\ i > 1 => stream[i].todo = Work(stream[i].kind, Req(x))
          /\ stream[i].kind = "partial" /\ i < n =>
               stream[i + 1].kind = "reduce" /\ stream[i + 1].call = x
      <4>1. i \in DOMAIN stream
        BY <1>9, <2>1
      <4>2. /\ i > 1 => stream[i].todo = Work(stream[i].kind, Req(stream[i].call))
            /\ stream[i].kind = "partial" /\ i < Len(stream) =>
                 stream[i + 1].kind = "reduce" /\ stream[i + 1].call = stream[i].call
        BY <4>1 DEF IInv, StreamInv
      <4> QED
        BY <1>9, <3>2, <4>2
    <3>5. stream[i].kind = "partial" =>
            stream'[i + 1].kind = "reduce" /\ stream'[i + 1].call = x
      <4>1. CASE i < n
        <5>1. stream'[i + 1] = stream[i + 1]
          BY <1>10, <2>1, <4>1
        <5> QED
          BY <3>4, <4>1, <5>1
      <4>2. CASE i = n
        <5>1. n > 0 /\ stream'[i + 1] = new
          BY <1>10, <2>1, <4>2
        <5> QED
          BY <1>8, <1>16, <3>2, <4>2, <5>1
      <4> QED
        BY <2>1, <4>1, <4>2
    <3>6. stream[i].kind = "reduce" /\ i > 1 => stream'[i - 1].kind = "partial"
      <4>1. i > 1 => i - 1 \in 1 .. n /\ stream'[i - 1] = stream[i - 1]
        BY <1>10, <2>1
      <4> QED
        BY <1>9, <2>1, <4>1 DEF IInv, StreamInv
    <3> QED
      BY <3>1, <3>2, <3>3, <3>4, <3>5, <3>6 DEF Work
  <2>2. CASE i = n + 1
    <3>1. stream'[i] = new /\ i = Len(stream')
      BY <1>10, <2>2
    <3>2. Live(c)' /\ Req(c)' = Req(c)
      BY <1>6, <1>11
    <3>3. i > 1 => stream'[i - 1] = stream[n] /\ n > 0
      BY <1>10, <2>2
    <3>4. kind = "partial" => host'.pc \in {"drain", "reduce"}
      BY <1>4
    <3>5. host'.pc = "reduce" => kind = "partial"
      BY <1>4
    <3> QED
      BY <1>4, <1>8, <1>16, <3>1, <3>2, <3>3, <3>4, <3>5 DEF Work
  <2> QED
    BY <2>1, <2>2
<1>18. CASE n = 0
  <2>1. stream = <<>> /\ stream'[1] = new /\ stream' # <<>>
    <3>1. stream = <<>>
      BY <1>3, <1>9, <1>18
    <3>2. n + 1 = 1 /\ 1 \in DOMAIN stream'
      BY <1>10, <1>18
    <3> QED
      BY <1>10, <3>1, <3>2
  <2>2. Req(c)' = Req(c)
    BY <1>6, <1>11
  <2>3. PartialsInv'
    <3>1. kind = "partial" => 0 .. Base(Req(c)) - 1 \subseteq new.todo
      BY <1>6, <1>8, WorkCovers DEF Req
    <3>2. kind = "reduce" => AllWritten(c)'
      <4>1. kind = "reduce" => AllWritten(c)
        BY <1>1, <1>2, <2>1 DEF IInv, PartialsInv
      <4> QED
        BY <4>1, <1>6, <1>11
    <3> QED
      BY <1>8, <2>1, <2>2, <3>1, <3>2 DEF PartialsInv
  <2>4. OutputInv'
    <3>1. kind = "reduce" => 0 .. Heads(Req(c)) - 1 \subseteq new.todo
      BY <1>6, <1>8, WorkCovers DEF Req
    <3>2. ASSUME NEW x \in DOMAIN calls', calls'[x].status = "ok"
          PROVE  InStream(x)' \/ \A flat \in 0 .. Heads(Req(x)') - 1 : OutDone(x, flat)'
      <4>1. CASE x = c /\ kind = "reduce"
        <5>1. 1 \in DOMAIN stream' /\ stream'[1].call = x /\ stream'[1].kind = "reduce"
          BY <1>8, <1>10, <2>1, <4>1
        <5> QED
          BY <5>1 DEF InStream
      <4>2. CASE x \in DOMAIN calls /\ calls[x].status = "ok"
        <5>1. ~InStream(x)
          BY <1>9, <1>18 DEF InStream
        <5>2. \A flat \in 0 .. Heads(Req(x)) - 1 : OutDone(x, flat)
          BY <4>2, <5>1 DEF IInv, OutputInv
        <5> QED
          BY <1>11, <4>2, <5>2
      <4> QED
        BY <1>5, <3>2, <4>1, <4>2
    <3> QED
      BY <1>8, <2>1, <2>2, <3>1, <3>2 DEF OutputInv, Heads
  <2> QED
    BY <1>2, <1>13, <1>14, <1>15, <1>17, <2>3, <2>4 DEF IInv, NoFault
<1>19. CASE n > 0
  <2>1. stream # <<>> /\ stream' # <<>> /\ stream'[1] = stream[1]
    BY <1>3, <1>9, <1>10, <1>19
  <2>2. PICK x \in DOMAIN calls : x = stream[1].call /\ x = stream'[1].call /\ Live(x)
    BY <1>12, <1>19, <2>1
  <2>3. Req(x)' = Req(x)
    BY <1>11
  <2>4. PartialsInv'
    <3>1. ASSUME stream[1].kind = "partial", NEW i \in 0 .. Base(Req(x)) - 1, i \notin stream[1].todo
          PROVE  Written(x, i)'
      <4>1. Written(x, i)
        BY <2>1, <2>2, <3>1 DEF IInv, PartialsInv
      <4> QED
        BY <1>11, <2>2, <4>1
    <3>2. ASSUME stream[1].kind = "reduce"
          PROVE  AllWritten(x)'
      <4>1. AllWritten(x)
        BY <2>1, <2>2, <3>2 DEF IInv, PartialsInv
      <4> QED
        BY <1>11, <2>2, <4>1
    <3> QED
      BY <2>1, <2>2, <2>3, <3>1, <3>2 DEF PartialsInv
  <2>5. OutputInv'
    <3>1. ASSUME stream[1].kind = "reduce", NEW flat \in 0 .. Heads(Req(x)) - 1,
                 flat \notin stream[1].todo
          PROVE  OutDone(x, flat)'
      <4>1. OutDone(x, flat)
        BY <2>1, <2>2, <3>1 DEF IInv, OutputInv
      <4> QED
        BY <1>11, <4>1
    <3>2. ASSUME NEW y \in DOMAIN calls', calls'[y].status = "ok"
          PROVE  InStream(y)' \/ \A flat \in 0 .. Heads(Req(y)') - 1 : OutDone(y, flat)'
      <4>1. CASE y = c /\ kind = "reduce"
        <5>1. n + 1 \in DOMAIN stream' /\ stream'[n + 1].call = y /\ stream'[n + 1].kind = "reduce"
          BY <1>8, <1>10, <4>1
        <5> QED
          BY <5>1 DEF InStream
      <4>2. CASE y \in DOMAIN calls /\ calls[y].status = "ok"
        <5>1. InStream(y) => InStream(y)'
          BY <1>9, <1>10 DEF InStream
        <5>2. InStream(y) \/ \A flat \in 0 .. Heads(Req(y)) - 1 : OutDone(y, flat)
          BY <4>2 DEF IInv, OutputInv
        <5> QED
          BY <1>11, <4>2, <5>1, <5>2
      <4> QED
        BY <1>5, <3>2, <4>1, <4>2
    <3> QED
      BY <2>1, <2>2, <2>3, <3>1, <3>2 DEF OutputInv, Heads
  <2> QED
    BY <1>2, <1>13, <1>14, <1>15, <1>17, <2>4, <2>5 DEF IInv, NoFault
<1> QED
  BY <1>9, <1>18, <1>19

-----------------------------------------------------------------------------
\* The stream after warp k of its first kernel.
LEMMA RunFacts ==
  ASSUME Types, stream # <<>>, NEW k \in stream[1].todo, Run(k)
  PROVE  /\ UNCHANGED <<host, calls, pool, doomed>>
         /\ stream' \in Seq(KernelType)
         /\ Len(stream) \in Nat \ {0} /\ DOMAIN stream = 1 .. Len(stream)
         /\ \/ /\ stream[1].todo = {k}
               /\ Len(stream') = Len(stream) - 1 /\ DOMAIN stream' = 1 .. Len(stream) - 1
               /\ \A i \in 1 .. Len(stream) - 1 : stream'[i] = stream[i + 1]
            \/ /\ Len(stream') = Len(stream) /\ DOMAIN stream' = 1 .. Len(stream)
               /\ \A i \in 2 .. Len(stream) : stream'[i] = stream[i]
               /\ stream'[1].kind = stream[1].kind /\ stream'[1].call = stream[1].call
               /\ stream'[1].todo = stream[1].todo \ {k}
<1>1. stream \in Seq(KernelType) /\ UNCHANGED <<host, calls, pool, doomed>>
  BY DEF Types, Run
<1>2. PICK n \in Nat \ {0} : n = Len(stream) /\ DOMAIN stream = 1 .. n
  BY <1>1
<1>3. CASE stream[1].todo = {k}
  <2>1. stream' = Tail(stream)
    BY <1>3 DEF Run
  <2>2. /\ stream' \in Seq(KernelType) /\ Len(stream') = n - 1 /\ DOMAIN stream' = 1 .. n - 1
        /\ \A i \in 1 .. n - 1 : stream'[i] = stream[i + 1]
    BY <1>1, <1>2, <2>1
  <2> QED
    BY <1>1, <1>2, <1>3, <2>2
<1>4. CASE stream[1].todo # {k}
  <2> DEFINE first == [stream[1] EXCEPT !.todo = @ \ {k}]
  <2>1. stream' = [stream EXCEPT ![1] = first]
    BY <1>4 DEF Run
  <2>2. stream[1] \in KernelType
    BY <1>1, <1>2
  <2>3. /\ first \in KernelType /\ first.kind = stream[1].kind /\ first.call = stream[1].call
        /\ first.todo = stream[1].todo \ {k}
    BY <2>2 DEF KernelType
  <2> HIDE DEF first
  <2>4. /\ stream' \in Seq(KernelType) /\ Len(stream') = n /\ DOMAIN stream' = 1 .. n
        /\ \A i \in 2 .. n : stream'[i] = stream[i]
        /\ stream'[1] = first
    BY <1>1, <1>2, <2>1, <2>3
  <2> QED
    BY <1>1, <1>2, <2>3, <2>4
<1> QED
  BY <1>3, <1>4

\* A warp never changes what is allocated, nor what the host relies on.
LEMMA RunKeeps ==
  ASSUME IInv, stream # <<>>, NEW k \in stream[1].todo, Run(k),
         mem' = [b \in DOMAIN mem |-> mem'[b]],
         \A b \in DOMAIN mem : DOMAIN mem'[b] = DOMAIN mem[b]
  PROVE  /\ PoolInv' /\ HostInv' /\ StreamInv'
         /\ \A c \in DOMAIN calls : Req(c)' = Req(c)
<1>1. PICK n \in Nat \ {0} :
         /\ n = Len(stream) /\ DOMAIN stream = 1 .. n
         /\ \/ /\ Len(stream') = n - 1 /\ DOMAIN stream' = 1 .. n - 1
               /\ \A i \in 1 .. n - 1 : stream'[i] = stream[i + 1]
            \/ /\ Len(stream') = n /\ DOMAIN stream' = 1 .. n
               /\ \A i \in 2 .. n : stream'[i] = stream[i]
               /\ stream'[1].kind = stream[1].kind /\ stream'[1].call = stream[1].call
  <2>1. Types
    BY DEF IInv
  <2> QED
    BY <2>1, RunFacts
<1>2. UNCHANGED <<host, calls, pool, doomed>> /\ DOMAIN mem' = DOMAIN mem
  BY DEF Run
<1>3. \A c : Req(c)' = Req(c) /\ (Live(c) => Live(c)')
  BY <1>2 DEF Live, Req
<1>4. PoolInv'
  BY <1>2 DEF IInv, PoolInv
<1>5. ASSUME NEW i \in 1 .. n
      PROVE  /\ Live(stream[i].call)
             /\ i > 1 => stream[i].todo = Work(stream[i].kind, Req(stream[i].call))
             /\ stream[i].kind = "partial" /\ i < n =>
                  stream[i + 1].kind = "reduce" /\ stream[i + 1].call = stream[i].call
             /\ stream[i].kind = "partial" /\ i = n =>
                  host.pc = "drain" \/ (host.pc = "reduce" /\ host.call = stream[i].call)
             /\ stream[i].kind = "reduce" /\ i > 1 => stream[i - 1].kind = "partial"
             /\ host.pc = "reduce" /\ i = n =>
                  stream[i].kind = "partial" /\ stream[i].call = host.call
  BY <1>1 DEF IInv, StreamInv
<1>6. HostInv'
  <2>1. host.pc = "acquire" => \A i \in DOMAIN stream : stream[i].call # host.call
    BY DEF IInv, HostInv
  <2>2. host.pc = "acquire" => \A i \in DOMAIN stream' : stream'[i].call # host.call
    <3> SUFFICES ASSUME host.pc = "acquire", NEW i \in DOMAIN stream'
                 PROVE  stream'[i].call # host.call
      OBVIOUS
    <3>1. \E j \in DOMAIN stream : stream'[i].call = stream[j].call
      <4>1. CASE Len(stream') = n - 1
        BY <1>1, <4>1
      <4>2. CASE Len(stream') = n
        BY <1>1, <4>2
      <4> QED
        BY <1>1, <4>1, <4>2
    <3> QED
      BY <2>1, <3>1
  <2>3. PICK c : c = host.call /\ c = host'.call
    BY <1>2
  <2>4. Live(c) => Live(c)'
    BY <1>3
  <2> QED
    BY <1>2, <2>2, <2>3, <2>4 DEF IInv, HostInv, HasBuffer
<1>7. StreamInv'
  <2>1. CASE Len(stream') = n - 1
    <3>1. DOMAIN stream' = 1 .. n - 1 /\ \A i \in 1 .. n - 1 : stream'[i] = stream[i + 1]
      BY <1>1, <2>1
    <3> SUFFICES ASSUME NEW i \in 1 .. n - 1
                 PROVE  (/\ Live(stream[i].call)
                         /\ i > 1 => stream[i].todo = Work(stream[i].kind, Req(stream[i].call))
                         /\ stream[i].kind = "partial" /\ i < Len(stream) =>
                              stream[i + 1].kind = "reduce" /\ stream[i + 1].call = stream[i].call
                         /\ stream[i].kind = "partial" /\ i = Len(stream) =>
                              host.pc = "drain" \/ (host.pc = "reduce" /\ host.call = stream[i].call)
                         /\ stream[i].kind = "reduce" /\ i > 1 => stream[i - 1].kind = "partial"
                         /\ host.pc = "reduce" /\ i = Len(stream) =>
                              stream[i].kind = "partial" /\ stream[i].call = host.call)'
      BY <3>1 DEF StreamInv
    <3>2. i + 1 \in 1 .. n /\ i + 1 > 1 /\ stream'[i] = stream[i + 1]
      BY <3>1
    <3>3. i < n - 1 => stream'[i + 1] = stream[i + 1 + 1]
      BY <3>1
    <3>4. i > 1 => stream'[i - 1] = stream[i] /\ (i + 1) - 1 = i
      BY <3>1
    <3>5. PICK c : c = stream[i + 1].call
      OBVIOUS
    <3>6. Live(c) /\ Live(c)' /\ Req(c)' = Req(c)
      BY <1>3, <1>5, <3>2, <3>5
    <3>7. /\ stream[i + 1].todo = Work(stream[i + 1].kind, Req(c))
          /\ stream[i + 1].kind = "partial" /\ i + 1 < n =>
                stream[i + 1 + 1].kind = "reduce" /\ stream[i + 1 + 1].call = c
          /\ stream[i + 1].kind = "partial" /\ i + 1 = n =>
                host.pc = "drain" \/ (host.pc = "reduce" /\ host.call = c)
          /\ stream[i + 1].kind = "reduce" => stream[(i + 1) - 1].kind = "partial"
          /\ host.pc = "reduce" /\ i + 1 = n =>
                stream[i + 1].kind = "partial" /\ c = host.call
      BY <1>5, <3>2, <3>5
    <3> QED
      BY <1>2, <2>1, <3>2, <3>3, <3>4, <3>5, <3>6, <3>7 DEF Work
  <2>2. CASE Len(stream') = n
    <3>1. /\ DOMAIN stream' = 1 .. n
          /\ \A i \in 2 .. n : stream'[i] = stream[i]
          /\ stream'[1].kind = stream[1].kind /\ stream'[1].call = stream[1].call
      BY <1>1, <2>2
    <3> SUFFICES ASSUME NEW i \in 1 .. n
                 PROVE  (/\ Live(stream[i].call)
                         /\ i > 1 => stream[i].todo = Work(stream[i].kind, Req(stream[i].call))
                         /\ stream[i].kind = "partial" /\ i < Len(stream) =>
                              stream[i + 1].kind = "reduce" /\ stream[i + 1].call = stream[i].call
                         /\ stream[i].kind = "partial" /\ i = Len(stream) =>
                              host.pc = "drain" \/ (host.pc = "reduce" /\ host.call = stream[i].call)
                         /\ stream[i].kind = "reduce" /\ i > 1 => stream[i - 1].kind = "partial"
                         /\ host.pc = "reduce" /\ i = Len(stream) =>
                              stream[i].kind = "partial" /\ stream[i].call = host.call)'
      BY <3>1 DEF StreamInv
    <3>2. /\ \A j \in 1 .. n : stream'[j].kind = stream[j].kind /\ stream'[j].call = stream[j].call
          /\ i > 1 => stream'[i].todo = stream[i].todo
      <4>1. ASSUME NEW j \in 1 .. n
            PROVE  stream'[j].kind = stream[j].kind /\ stream'[j].call = stream[j].call
        <5>1. j = 1 \/ j \in 2 .. n
          OBVIOUS
        <5> QED
          BY <3>1, <5>1
      <4>2. i > 1 => i \in 2 .. n
        OBVIOUS
      <4> QED
        BY <3>1, <4>1, <4>2
    <3>3. PICK c : c = stream[i].call /\ c = stream'[i].call
      BY <3>2
    <3>4. Live(c)' /\ Req(c)' = Req(c)
      <4>1. Live(stream[i].call)
        BY <1>5
      <4>2. Live(c)
        BY <3>3, <4>1, Zenon
      <4> QED
        BY <1>3, <4>2
    <3>5. (i < n => i + 1 \in 1 .. n) /\ (i > 1 => i - 1 \in 1 .. n)
      OBVIOUS
    <3>6. /\ stream'[i].kind = stream[i].kind
          /\ i < n => stream'[i + 1].kind = stream[i + 1].kind /\ stream'[i + 1].call = stream[i + 1].call
          /\ i > 1 => stream'[i - 1].kind = stream[i - 1].kind
      BY <3>2, <3>5
    <3> QED
      BY <1>2, <1>5, <2>2, <3>2, <3>3, <3>4, <3>6 DEF Work
  <2> QED
    BY <1>1, <2>1, <2>2
<1> QED
  BY <1>3, <1>4, <1>6, <1>7

\* Heads that divide evenly form groups that are not empty.
LEMMA WholeGroup ==
  ASSUME NEW r \in Requests, WholeGroups(r)
  PROVE  Group(r) # 0
<1>1. PICK n \in Nat \ {0}, k \in Nat \ {0} : n = r.num_heads /\ k = r.num_kv_heads
  BY RequestFacts
<1>2. n = k * (n \div k) + (n % k) /\ n \div k \in Nat
  BY DivMod
<1>3. n % k = 0
  BY <1>1 DEF WholeGroups
<1>4. ASSUME n \div k = 0 PROVE FALSE
  BY <1>2, <1>3, <1>4
<1> QED
  BY <1>1, <1>4 DEF Group

\* What one warp of decode_partial_kernel writes: its own partials, and no others.
LEMMA PartialWrites ==
  ASSUME IInv, stream # <<>>, NEW flat \in stream[1].todo, PartialWarp(flat)
  PROVE  /\ fault' = fault /\ mem' = [b \in DOMAIN mem |-> mem'[b]]
         /\ \A b \in DOMAIN mem : DOMAIN mem'[b] = DOMAIN mem[b]
         /\ \A i \in 0 .. Base(Req(stream[1].call)) - 1 :
              (i = flat \/ Written(stream[1].call, i)) /\ WholeGroups(Req(stream[1].call)) =>
                /\ mem'[calls[stream[1].call].buf][PartialM(i)]
                     = Partial("m", stream[1].call, 0, RowsOf(Req(stream[1].call), i))
                /\ mem'[calls[stream[1].call].buf][PartialL(Req(stream[1].call), i)]
                     = Partial("l", stream[1].call, 0, RowsOf(Req(stream[1].call), i))
                /\ \A d \in 0 .. Req(stream[1].call).head_dim - 1 :
                     mem'[calls[stream[1].call].buf][PartialO(Req(stream[1].call), i, d)]
                       = Partial("o", stream[1].call, d, RowsOf(Req(stream[1].call), i))
<1> DEFINE c == stream[1].call
           r == Req(c)
           b == calls[c].buf
           at == PartialCoords(r, flat)
           columns == {PartialO(r, flat, d) : d \in 0 .. r.head_dim - 1}
           writes == {PartialM(flat), PartialL(r, flat)} \union columns
<1>1. c = stream[1].call /\ r = Req(c) /\ b = calls[c].buf
  OBVIOUS
<1>2. PICK rows :
        /\ flat >= Base(r) => UNCHANGED <<mem, fault>>
        /\ ~(flat >= Base(r)) =>
             /\ \E h_kv \in KvHeads(r, at.head) : rows = FoldRows(r, at.batch, h_kv, at.split)
             /\ fault' = (fault \/ ~(writes \subseteq DOMAIN mem[b]))
             /\ mem' = [mem EXCEPT ![b] = [a \in DOMAIN mem[b] |->
                          IF a = PartialM(flat) THEN Partial("m", c, 0, rows)
                          ELSE IF a = PartialL(r, flat) THEN Partial("l", c, 0, rows)
                          ELSE IF a \in columns
                            THEN Partial("o", c, (a - 2 * Base(r)) % r.head_dim, rows)
                          ELSE mem[b][a]]]
  BY DEF PartialWarp
<1> DEFINE cell(a) == IF a = PartialM(flat) THEN Partial("m", c, 0, rows)
                      ELSE IF a = PartialL(r, flat) THEN Partial("l", c, 0, rows)
                      ELSE IF a \in columns
                        THEN Partial("o", c, (a - 2 * Base(r)) % r.head_dim, rows)
                      ELSE mem[b][a]
<1> HIDE DEF c, r, b
<1>3. /\ c \in DOMAIN calls /\ b \in DOMAIN mem /\ 0 .. Elements(r) - 1 \subseteq DOMAIN mem[b]
      /\ r \in Requests /\ flat \in Nat
      /\ mem = [x \in DOMAIN mem |-> mem[x]]
  <2>1. /\ Types /\ calls \in Seq(CallType) /\ stream \in Seq(KernelType)
        /\ stream[1] \in KernelType /\ 1 \in DOMAIN stream
    BY DEF IInv, Types
  <2>2. Live(stream[1].call)
    BY <2>1 DEF IInv, StreamInv
  <2>3. c \in DOMAIN calls /\ b \in DOMAIN mem /\ 0 .. Elements(r) - 1 \subseteq DOMAIN mem[b]
    BY <1>1, <2>2 DEF Live
  <2>4. calls[c] \in CallType
    BY <2>1, <2>3
  <2> QED
    BY <1>1, <2>1, <2>3, <2>4, Buffers DEF CallType, KernelType, Req
<1>4. Base(r) \in Nat /\ r.head_dim \in Nat \ {0}
  BY <1>3, Sizes, RequestFacts
<1>5. ASSUME NEW i \in 0 .. Base(r) - 1
      PROVE  /\ PartialM(i) \in 0 .. Elements(r) - 1 /\ PartialM(i) < Base(r)
             /\ PartialM(i) = i
             /\ PartialL(r, i) \in 0 .. Elements(r) - 1
             /\ PartialL(r, i) >= Base(r) /\ PartialL(r, i) < 2 * Base(r)
             /\ PartialL(r, i) = Base(r) + i
             /\ \A d \in 0 .. r.head_dim - 1 :
                  /\ PartialO(r, i, d) \in 0 .. Elements(r) - 1 /\ PartialO(r, i, d) >= 2 * Base(r)
                  /\ (PartialO(r, i, d) - 2 * Base(r)) % r.head_dim = d
                  /\ (PartialO(r, i, d) - 2 * Base(r)) \div r.head_dim = i
  <2>1. 0 \in 0 .. r.head_dim - 1
    BY <1>4
  <2>2. PartialM(i) = i /\ PartialL(r, i) = Base(r) + i
    BY DEF PartialM, PartialL
  <2> QED
    BY <1>3, <2>1, <2>2, Layout
<1>6. CASE flat >= Base(r)
  <2>1. ASSUME NEW i \in 0 .. Base(r) - 1, i = flat \/ Written(c, i), WholeGroups(r)
        PROVE  /\ mem'[b][PartialM(i)] = Partial("m", c, 0, RowsOf(r, i))
               /\ mem'[b][PartialL(r, i)] = Partial("l", c, 0, RowsOf(r, i))
               /\ \A d \in 0 .. r.head_dim - 1 :
                    mem'[b][PartialO(r, i, d)] = Partial("o", c, d, RowsOf(r, i))
    <3>1. Written(c, i) /\ mem' = mem
      BY <1>2, <1>3, <1>4, <1>6, <2>1
    <3> QED
      BY <1>1, <2>1, <3>1 DEF Written
  <2>2. mem' = mem /\ fault' = fault
    BY <1>2, <1>6
  <2> QED
    BY <1>1, <1>3, <2>1, <2>2
<1>7. CASE flat < Base(r)
  <2>1. flat \in 0 .. Base(r) - 1 /\ ~(flat >= Base(r))
    BY <1>3, <1>4, <1>7
  <2>2. writes \subseteq DOMAIN mem[b]
    BY <1>3, <1>5, <2>1
  <2>3. /\ fault' = fault /\ mem' = [mem EXCEPT ![b] = [a \in DOMAIN mem[b] |-> cell(a)]]
    <3>1. fault = FALSE
      BY DEF IInv, NoFault
    <3> HIDE DEF writes
    <3> QED
      BY <1>2, <2>1, <2>2, <3>1
  <2>4. ASSUME NEW a \in 0 .. Elements(r) - 1
        PROVE  mem'[b][a] = cell(a)
    <3> HIDE DEF cell
    <3> QED
      BY <1>3, <2>3
  <2>5. /\ mem' = [x \in DOMAIN mem |-> mem'[x]]
        /\ \A x \in DOMAIN mem : DOMAIN mem'[x] = DOMAIN mem[x]
    <3> HIDE DEF cell
    <3> QED
      BY <1>3, <2>3
  <2>6. ASSUME NEW i \in 0 .. Base(r) - 1, i = flat, WholeGroups(r)
        PROVE  /\ cell(PartialM(i)) = Partial("m", c, 0, RowsOf(r, i))
               /\ cell(PartialL(r, i)) = Partial("l", c, 0, RowsOf(r, i))
               /\ \A d \in 0 .. r.head_dim - 1 :
                    cell(PartialO(r, i, d)) = Partial("o", c, d, RowsOf(r, i))
    <3>1. rows = RowsOf(r, i)
      <4>1. KvHeads(r, at.head) = {at.head \div Group(r)}
        BY <1>3, <2>6, WholeGroup DEF KvHeads
      <4>2. rows = FoldRows(r, at.batch, at.head \div Group(r), at.split)
        BY <1>2, <2>1, <4>1
      <4> QED
        BY <2>6, <4>2 DEF RowsOf, HeadRows
    <3>2. cell(PartialM(i)) = Partial("m", c, 0, rows)
      BY <2>6
    <3>3. cell(PartialL(r, i)) = Partial("l", c, 0, rows)
      <4>1. PartialL(r, i) # PartialM(i)
        BY <1>4, <1>5
      <4> QED
        BY <2>6, <4>1
    <3>4. ASSUME NEW d \in 0 .. r.head_dim - 1
          PROVE  cell(PartialO(r, i, d)) = Partial("o", c, d, rows)
      <4>1. PICK a : a = PartialO(r, i, d)
        OBVIOUS
      <4>2. /\ a # PartialM(i) /\ a # PartialL(r, i) /\ (a - 2 * Base(r)) % r.head_dim = d
        BY <1>4, <1>5, <4>1
      <4>3. a \in columns
        BY <2>6, <4>1
      <4> HIDE DEF columns
      <4> QED
        BY <2>6, <4>1, <4>2, <4>3
    <3> HIDE DEF cell
    <3> QED
      BY <3>1, <3>2, <3>3, <3>4
  <2>7. ASSUME NEW i \in 0 .. Base(r) - 1, i # flat, Written(c, i), WholeGroups(r)
        PROVE  /\ cell(PartialM(i)) = Partial("m", c, 0, RowsOf(r, i))
               /\ cell(PartialL(r, i)) = Partial("l", c, 0, RowsOf(r, i))
               /\ \A d \in 0 .. r.head_dim - 1 :
                    cell(PartialO(r, i, d)) = Partial("o", c, d, RowsOf(r, i))
    <3>1. /\ mem[b][PartialM(i)] = Partial("m", c, 0, RowsOf(r, i))
          /\ mem[b][PartialL(r, i)] = Partial("l", c, 0, RowsOf(r, i))
          /\ \A d \in 0 .. r.head_dim - 1 :
               mem[b][PartialO(r, i, d)] = Partial("o", c, d, RowsOf(r, i))
      BY <1>1, <2>7 DEF Written
    <3>2. ASSUME NEW a \in columns
          PROVE  a >= 2 * Base(r) /\ a \in Int /\ (a - 2 * Base(r)) \div r.head_dim = flat
      <4>1. PICK d \in 0 .. r.head_dim - 1 : a = PartialO(r, flat, d)
        OBVIOUS
      <4> QED
        BY <1>5, <2>1, <4>1
    <3>3. /\ PartialM(flat) = flat /\ PartialL(r, flat) = Base(r) + flat
          /\ PartialM(i) = i /\ PartialL(r, i) = Base(r) + i
      BY DEF PartialM, PartialL
    <3> HIDE DEF columns
    <3>4. cell(PartialM(i)) = mem[b][PartialM(i)]
      <4>1. /\ PartialM(i) # PartialM(flat) /\ PartialM(i) # PartialL(r, flat)
            /\ PartialM(i) \notin columns
        BY <1>4, <2>1, <2>7, <3>2, <3>3
      <4> QED
        BY <4>1
    <3>5. cell(PartialL(r, i)) = mem[b][PartialL(r, i)]
      <4>1. /\ PartialL(r, i) # PartialM(flat) /\ PartialL(r, i) # PartialL(r, flat)
            /\ PartialL(r, i) \notin columns
        BY <1>4, <2>1, <2>7, <3>2, <3>3
      <4> QED
        BY <4>1
    <3>6. ASSUME NEW d \in 0 .. r.head_dim - 1
          PROVE  cell(PartialO(r, i, d)) = mem[b][PartialO(r, i, d)]
      <4>1. PICK a \in Int : /\ a = PartialO(r, i, d) /\ a >= 2 * Base(r)
                             /\ (a - 2 * Base(r)) \div r.head_dim = i
        BY <1>5
      <4>2. a # PartialM(flat) /\ a # PartialL(r, flat)
        BY <1>4, <2>1, <3>3, <4>1
      <4>3. a \notin columns
        BY <2>7, <3>2, <4>1
      <4> QED
        BY <4>1, <4>2, <4>3
    <3> HIDE DEF cell
    <3> QED
      BY <3>1, <3>4, <3>5, <3>6
  <2> HIDE DEF cell
  <2>8. ASSUME NEW i \in 0 .. Base(r) - 1, i = flat \/ Written(c, i), WholeGroups(r)
        PROVE  /\ mem'[b][PartialM(i)] = Partial("m", c, 0, RowsOf(r, i))
               /\ mem'[b][PartialL(r, i)] = Partial("l", c, 0, RowsOf(r, i))
               /\ \A d \in 0 .. r.head_dim - 1 :
                    mem'[b][PartialO(r, i, d)] = Partial("o", c, d, RowsOf(r, i))
    <3>1. /\ cell(PartialM(i)) = Partial("m", c, 0, RowsOf(r, i))
          /\ cell(PartialL(r, i)) = Partial("l", c, 0, RowsOf(r, i))
          /\ \A d \in 0 .. r.head_dim - 1 :
               cell(PartialO(r, i, d)) = Partial("o", c, d, RowsOf(r, i))
      BY <2>6, <2>7, <2>8
    <3>2. /\ PartialM(i) \in 0 .. Elements(r) - 1 /\ PartialL(r, i) \in 0 .. Elements(r) - 1
          /\ \A d \in 0 .. r.head_dim - 1 : PartialO(r, i, d) \in 0 .. Elements(r) - 1
      BY <1>5
    <3> QED
      BY <2>4, <3>1, <3>2
  <2> QED
    BY <1>1, <2>3, <2>5, <2>8, ZenonT(40)
<1> QED
  BY <1>3, <1>4, <1>6, <1>7

-----------------------------------------------------------------------------
\* The kernel at the head of the stream and its call.
LEMMA FirstKernel ==
  ASSUME IInv, stream # <<>>
  PROVE  /\ 1 \in DOMAIN stream /\ Len(stream) \in Nat \ {0} /\ DOMAIN stream = 1 .. Len(stream)
         /\ stream[1].kind \in {"partial", "reduce"} /\ stream[1].todo \subseteq Nat
         /\ stream[1].call \in DOMAIN calls /\ calls[stream[1].call].req \in Requests
         /\ Live(stream[1].call)
<1>1. stream \in Seq(KernelType) /\ calls \in Seq(CallType)
  BY DEF IInv, Types
<1>2. 1 \in DOMAIN stream /\ Len(stream) \in Nat \ {0} /\ DOMAIN stream = 1 .. Len(stream)
  BY <1>1
<1>3. stream[1] \in KernelType
  BY <1>1, <1>2
<1>4. Live(stream[1].call)
  BY <1>2 DEF IInv, StreamInv
<1>5. calls[stream[1].call] \in CallType /\ stream[1].call \in DOMAIN calls
  BY <1>1, <1>4 DEF Live
<1> QED
  BY <1>2, <1>3, <1>4, <1>5 DEF KernelType, CallType

\* A call's reduce kernel leaves the stream only with its last warp.
LEMMA StaysInStream ==
  ASSUME Types, stream # <<>>, NEW k \in stream[1].todo, Run(k), NEW c, InStream(c)
  PROVE  \/ InStream(c)'
         \/ stream[1].kind = "reduce" /\ stream[1].call = c /\ stream[1].todo = {k}
<1>1. PICK n \in Nat \ {0} : n = Len(stream) /\ DOMAIN stream = 1 .. n
  BY RunFacts
<1>2. PICK i \in 1 .. n : stream[i].call = c /\ stream[i].kind = "reduce"
  BY <1>1 DEF InStream
<1>3. \/ /\ stream[1].todo = {k} /\ DOMAIN stream' = 1 .. n - 1
         /\ \A j \in 1 .. n - 1 : stream'[j] = stream[j + 1]
      \/ /\ DOMAIN stream' = 1 .. n
         /\ \A j \in 2 .. n : stream'[j] = stream[j]
         /\ stream'[1].kind = stream[1].kind /\ stream'[1].call = stream[1].call
  BY <1>1, RunFacts
<1>4. CASE i = 1
  <2>1. CASE stream[1].todo = {k}
    BY <1>2, <1>4, <2>1
  <2>2. CASE stream[1].todo # {k}
    <3>1. 1 \in DOMAIN stream' /\ stream'[1].call = c /\ stream'[1].kind = "reduce"
      BY <1>2, <1>3, <1>4, <2>2
    <3> QED
      BY <3>1 DEF InStream
  <2> QED
    BY <2>1, <2>2
<1>5. CASE i # 1
  <2>1. i \in 2 .. n /\ i - 1 \in 1 .. n - 1 /\ (i - 1) + 1 = i
    BY <1>5
  <2>2. \E j \in DOMAIN stream' : stream'[j] = stream[i]
    BY <1>3, <2>1
  <2> QED
    BY <1>2, <2>2 DEF InStream
<1> QED
  BY <1>4, <1>5

\* Types after a warp.
LEMMA RunTypes ==
  ASSUME IInv, stream # <<>>, NEW k \in stream[1].todo, Run(k),
         mem' = [b \in DOMAIN mem |-> mem'[b]],
         out' = [c \in DOMAIN out |-> out'[c]],
         \A c \in DOMAIN calls : DOMAIN out'[c] = DOMAIN out[c]
  PROVE  Types'
<1>1. Types /\ UNCHANGED <<host, calls, pool, doomed>> /\ stream' \in Seq(KernelType)
  <2>1. Types
    BY DEF IInv
  <2> QED
    BY <2>1, RunFacts
<1>2. \E n \in Nat : IsList(mem, n)'
  <2>1. Len(mem) \in Nat /\ DOMAIN mem = 1 .. Len(mem)
    BY <1>1, Buffers
  <2>2. PICK n \in Nat : DOMAIN mem = 1 .. n
    BY <2>1
  <2>3. mem' = [b \in 1 .. n |-> mem'[b]]
    BY <2>2
  <2> QED
    BY <2>3 DEF IsList
<1>3. IsList(out, Len(calls))'
  <2>1. out = [c \in 1 .. Len(calls) |-> out[c]]
    BY <1>1 DEF Types, IsList
  <2>2. DOMAIN out = 1 .. Len(calls)
    BY <2>1
  <2> QED
    BY <1>1, <2>2 DEF IsList
<1>4. \A c \in DOMAIN calls' : DOMAIN out'[c] = 1 .. Heads(Req(c)')
  BY <1>1 DEF Types, Req
<1> QED
  BY <1>1, <1>2, <1>3, <1>4 DEF Types, Heads

\* decode_partial_kernel: the last warp leaves all partials of the call behind.
LEMMA PartialWarpSteps ==
  ASSUME IInv, stream # <<>>, NEW flat \in stream[1].todo, PartialWarp(flat)
  PROVE  IInv'
<1>1. Types /\ Run(flat) /\ out' = out /\ stream[1].kind = "partial"
  BY DEF IInv, PartialWarp
<1>2. PICK c \in DOMAIN calls : c = stream[1].call /\ calls[c].req \in Requests
  BY FirstKernel
<1>3. UNCHANGED <<host, calls, pool, doomed>>
  BY <1>1 DEF Run
<1>4. \A x : Req(x)' = Req(x)
  BY <1>3 DEF Req
<1>5. /\ fault' = fault /\ mem' = [b \in DOMAIN mem |-> mem'[b]]
      /\ \A b \in DOMAIN mem : DOMAIN mem'[b] = DOMAIN mem[b]
  BY PartialWrites
<1>6. PoolInv' /\ HostInv' /\ StreamInv'
  BY <1>1, <1>5, RunKeeps
<1>7. Types'
  <2>1. out' = [x \in DOMAIN out |-> out'[x]]
    BY <1>1 DEF Types, IsList
  <2> QED
    BY <1>1, <1>5, <2>1, RunTypes
<1>8. ASSUME NEW i \in 0 .. Base(Req(c)) - 1, i = flat \/ Written(c, i)
      PROVE  Written(c, i)'
  <2> SUFFICES ASSUME WholeGroups(Req(c))
               PROVE  Written(c, i)'
    BY <1>4 DEF Written
  <2>1. /\ mem'[calls[c].buf][PartialM(i)] = Partial("m", c, 0, RowsOf(Req(c), i))
        /\ mem'[calls[c].buf][PartialL(Req(c), i)] = Partial("l", c, 0, RowsOf(Req(c), i))
        /\ \A d \in 0 .. Req(c).head_dim - 1 :
             mem'[calls[c].buf][PartialO(Req(c), i, d)] = Partial("o", c, d, RowsOf(Req(c), i))
    <3>1. PICK x : x = stream[1].call /\ x = c
      BY <1>2
    <3>2. \A k \in 0 .. Base(Req(x)) - 1 :
            (k = flat \/ Written(x, k)) /\ WholeGroups(Req(x)) =>
              /\ mem'[calls[x].buf][PartialM(k)] = Partial("m", x, 0, RowsOf(Req(x), k))
              /\ mem'[calls[x].buf][PartialL(Req(x), k)] = Partial("l", x, 0, RowsOf(Req(x), k))
              /\ \A d \in 0 .. Req(x).head_dim - 1 :
                   mem'[calls[x].buf][PartialO(Req(x), k, d)] = Partial("o", x, d, RowsOf(Req(x), k))
      BY <3>1, PartialWrites
    <3> QED
      BY <1>8, <3>1, <3>2
  <2> QED
    BY <1>3, <1>4, <2>1 DEF Written, Partial
<1>9. \A i \in 0 .. Base(Req(c)) - 1 : i \notin stream[1].todo => Written(c, i)
  BY <1>1, <1>2 DEF IInv, PartialsInv
<1>10. PICK n \in Nat \ {0} :
         /\ n = Len(stream) /\ DOMAIN stream = 1 .. n
         /\ \/ /\ stream[1].todo = {flat} /\ DOMAIN stream' = 1 .. n - 1 /\ Len(stream') = n - 1
               /\ \A i \in 1 .. n - 1 : stream'[i] = stream[i + 1]
            \/ /\ DOMAIN stream' = 1 .. n
               /\ stream'[1].kind = stream[1].kind /\ stream'[1].call = stream[1].call
               /\ stream'[1].todo = stream[1].todo \ {flat}
  BY <1>1, RunFacts
<1>11. \A x : InStream(x) => InStream(x)'
  BY <1>1, StaysInStream
<1>12. \A x : \A k : OutDone(x, k) => OutDone(x, k)'
  BY <1>1, <1>3, OutStable
<1>13. ASSUME NEW x \in DOMAIN calls', calls'[x].status = "ok"
       PROVE  InStream(x)' \/ \A k \in 0 .. Heads(Req(x)') - 1 : OutDone(x, k)'
  <2>1. x \in DOMAIN calls /\ calls[x].status = "ok"
    BY <1>3, <1>13
  <2>2. InStream(x) \/ \A k \in 0 .. Heads(Req(x)) - 1 : OutDone(x, k)
    BY <2>1 DEF IInv, OutputInv
  <2> QED
    BY <1>4, <1>11, <1>12, <2>2
<1>14. CASE stream[1].todo = {flat} /\ DOMAIN stream' = 1 .. n - 1
  <2>1. AllWritten(c)'
    <3>1. \A i \in 0 .. Base(Req(c)) - 1 : Written(c, i)'
      BY <1>8, <1>9, <1>14
    <3> QED
      BY <1>4, <3>1 DEF AllWritten
  <2>2. CASE n = 1
    <3>1. stream' = <<>>
      <4>1. stream' \in Seq(KernelType) /\ DOMAIN stream' = {}
        BY <1>7, <1>14, <2>2 DEF Types
      <4> QED
        BY <4>1
    <3>2. host.pc = "reduce" => host.call = c
      BY <1>1, <1>2, <1>10, <2>2 DEF IInv, StreamInv
    <3>3. PartialsInv'
      <4>1. ASSUME host'.pc = "reduce"
            PROVE  AllWritten(host.call)'
        <5>1. host'.call = c
          BY <1>3, <3>2, <4>1
        <5> QED
          BY <2>1, <5>1 DEF AllWritten, Written, Req
      <4> QED
        BY <3>1, <4>1 DEF PartialsInv
    <3>4. OutputInv'
      BY <1>13, <3>1 DEF OutputInv, Heads
    <3> QED
      BY <1>5, <1>6, <1>7, <3>3, <3>4 DEF IInv, NoFault
  <2>3. CASE n > 1
    <3>1. 1 \in 1 .. n - 1 /\ 1 + 1 = 2 /\ 1 \in 1 .. n /\ 2 \in 1 .. n
      BY <2>3
    <3>2. stream' # <<>> /\ stream'[1] = stream[2]
      <4>1. stream'[1] = stream[1 + 1]
        BY <1>10, <1>14, <3>1
      <4>2. 1 \in DOMAIN stream'
        BY <1>14, <3>1
      <4> QED
        BY <3>1, <4>1, <4>2
    <3>3. stream[2].kind = "reduce" /\ stream[2].call = c
      BY <1>1, <1>2, <1>10, <2>3, <3>1 DEF IInv, StreamInv
    <3>4. stream[2].todo = Work("reduce", Req(c))
      BY <1>10, <3>1, <3>3 DEF IInv, StreamInv
    <3>5. 0 .. Heads(Req(c)) - 1 \subseteq stream[2].todo
      BY <1>2, <3>4, WorkCovers DEF Req
    <3>6. PICK x : x = c /\ x = stream'[1].call
      BY <3>2, <3>3
    <3>7. AllWritten(x)'
      BY <2>1, <3>6 DEF AllWritten, Written, Req
    <3>8. PartialsInv'
      BY <3>2, <3>3, <3>6, <3>7 DEF PartialsInv
    <3>9. OutputInv'
      BY <1>4, <1>13, <3>2, <3>3, <3>5, <3>6 DEF OutputInv, Heads
    <3> QED
      BY <1>5, <1>6, <1>7, <3>8, <3>9 DEF IInv, NoFault
  <2> QED
    BY <2>2, <2>3
<1>15. CASE /\ DOMAIN stream' = 1 .. n
            /\ stream'[1].kind = stream[1].kind /\ stream'[1].call = stream[1].call
            /\ stream'[1].todo = stream[1].todo \ {flat}
  <2>1. stream' # <<>>
    BY <1>15
  <2>2. PICK x : x = c /\ x = stream'[1].call /\ x = stream[1].call
    BY <1>2, <1>15
  <2>3. ASSUME NEW i \in 0 .. Base(Req(x)) - 1, i \notin stream'[1].todo
        PROVE  Written(x, i)'
    <3>1. i = flat \/ i \notin stream[1].todo
      BY <1>15, <2>3
    <3>2. i \in 0 .. Base(Req(c)) - 1
      BY <2>2
    <3>3. Written(c, i)'
      BY <1>8, <1>9, <3>1, <3>2
    <3> QED
      BY <2>2, <3>3 DEF Written, Req
  <2>4. PartialsInv'
    BY <1>1, <1>4, <1>15, <2>1, <2>2, <2>3 DEF PartialsInv, Base, Heads
  <2>5. OutputInv'
    BY <1>1, <1>13, <1>15 DEF OutputInv, Heads
  <2> QED
    BY <1>5, <1>6, <1>7, <2>4, <2>5 DEF IInv, NoFault
<1> QED
  BY <1>10, <1>14, <1>15

\* What one warp of decode_reduce_kernel writes: the merged splits of its own output.
LEMMA ReduceWrites ==
  ASSUME IInv, stream # <<>>, NEW flat \in stream[1].todo, ReduceWarp(flat)
  PROVE  LET c == stream[1].call
             r == Req(c)
             sum == Merged(r, flat \div r.num_heads, flat % r.num_heads)
         IN
         /\ ~fault' /\ out' = [x \in DOMAIN out |-> out'[x]]
         /\ \A x \in DOMAIN calls : DOMAIN out'[x] = DOMAIN out[x]
         /\ \A x \in DOMAIN calls : x # c => out'[x] = out[x]
         /\ \A k \in Nat : k # flat => out'[c][k + 1] = out[c][k + 1]
         /\ flat < Heads(r) /\ WholeGroups(r) =>
              /\ out'[c][flat + 1].den = sum
              /\ \A d \in DOMAIN out'[c][flat + 1].num : out'[c][flat + 1].num[d] = sum
<1> DEFINE c == stream[1].call
           r == Req(c)
           b == calls[c].buf
           base == flat * Splits(r)
           splits == 0 .. Splits(r) - 1
           reads(s, d) == {PartialM(base + s), PartialL(r, base + s), PartialO(r, base + s, d)}
           inside == \A s \in splits, d \in 0 .. r.head_dim - 1 : reads(s, d) \subseteq DOMAIN mem[b]
           cell(a) == IF a \in DOMAIN mem[b] THEN mem[b][a] ELSE Unwritten
           m(s) == ReadRows(cell(PartialM(base + s)), "m", c, 0)
           l(s) == ReadRows(cell(PartialL(r, base + s)), "l", c, 0)
           o(s, d) == ReadRows(cell(PartialO(r, base + s, d)), "o", c, d)
           added == {s \in splits : m(s) # {}}
           l_all == UNION {AddedBy(s, l(s)) : s \in added}
           total(d) == UNION {AddedBy(s, o(s, d)) : s \in added}
           value == [den |-> l_all, num |-> [d \in 1 .. r.head_dim |-> total(d - 1)]]
<1>1. c = stream[1].call /\ r = Req(c) /\ b = calls[c].buf /\ base = flat * Splits(r)
  OBVIOUS
<1>2. /\ flat >= Heads(r) => UNCHANGED <<out, fault>>
      /\ ~(flat >= Heads(r)) => /\ out' = [out EXCEPT ![c][flat + 1] = value]
                                /\ fault' = (fault \/ ~inside)
      /\ stream[1].kind = "reduce"
  BY DEF ReduceWarp
<1> HIDE DEF c, r, b, base
<1>3. /\ c \in DOMAIN calls /\ b \in DOMAIN mem /\ 0 .. Elements(r) - 1 \subseteq DOMAIN mem[b]
      /\ r \in Requests /\ flat \in Nat
  BY <1>1, FirstKernel DEF Live, Req
<1>4. Heads(r) \in Nat \ {0} /\ r.head_dim \in Nat \ {0} /\ Splits(r) \in Nat \ {0}
  BY <1>3, Sizes, RequestFacts, SplitsPositive
<1>5. /\ out = [x \in DOMAIN out |-> out[x]] /\ c \in DOMAIN out
      /\ DOMAIN out[c] = 1 .. Heads(r)
  <2>1. calls \in Seq(CallType) /\ out = [x \in 1 .. Len(calls) |-> out[x]]
    BY DEF IInv, Types, IsList
  <2>2. DOMAIN out = 1 .. Len(calls) /\ DOMAIN calls = 1 .. Len(calls)
    BY <2>1
  <2>3. DOMAIN out[c] = 1 .. Heads(r)
    BY <1>1, <1>3 DEF IInv, Types
  <2> QED
    BY <1>3, <2>1, <2>2, <2>3
<1>6. CASE flat >= Heads(r)
  <2>1. out' = out /\ ~fault' /\ ~(flat < Heads(r))
    BY <1>2, <1>3, <1>4, <1>6 DEF IInv, NoFault
  <2> QED
    BY <1>5, <2>1 DEF c, r
<1>7. CASE ~(flat >= Heads(r))
  <2>1. flat \in 0 .. Heads(r) - 1
    BY <1>3, <1>4, <1>7
  <2>2. PICK q, h : q = flat \div r.num_heads /\ h = flat % r.num_heads
    OBVIOUS
  <2>3. AllWritten(c)
    BY <1>1, <1>2 DEF IInv, PartialsInv
  <2>4. ASSUME NEW s \in splits
        PROVE  /\ base + s \in 0 .. Base(r) - 1
               /\ RowsOf(r, base + s) = HeadRows(r, q, h, s)
               /\ Written(c, base + s)
    <3>1. /\ base + s \in 0 .. Base(r) - 1
          /\ PartialCoords(r, base + s) = [split |-> s, head |-> h, batch |-> q]
      BY <1>1, <1>3, <2>1, <2>2, CoordsOf
    <3>2. RowsOf(r, base + s) = HeadRows(r, q, h, s)
      BY <3>1 DEF RowsOf
    <3>3. Written(c, base + s)
      BY <1>1, <2>3, <3>1 DEF AllWritten
    <3> QED
      BY <3>1, <3>2, <3>3
  <2>5. ASSUME NEW s \in splits, NEW d \in 0 .. r.head_dim - 1
        PROVE  /\ PartialM(base + s) \in DOMAIN mem[b] /\ PartialL(r, base + s) \in DOMAIN mem[b]
               /\ PartialO(r, base + s, d) \in DOMAIN mem[b]
               /\ WholeGroups(r) => /\ m(s) = HeadRows(r, q, h, s) /\ l(s) = HeadRows(r, q, h, s)
                                    /\ o(s, d) = HeadRows(r, q, h, s)
    <3>1. PICK i \in 0 .. Base(r) - 1 : i = base + s
      BY <2>4
    <3>2. /\ PartialM(i) \in DOMAIN mem[b] /\ PartialL(r, i) \in DOMAIN mem[b]
          /\ PartialO(r, i, d) \in DOMAIN mem[b]
      <4>1. /\ PartialM(i) \in 0 .. Elements(r) - 1 /\ PartialL(r, i) \in 0 .. Elements(r) - 1
            /\ PartialO(r, i, d) \in 0 .. Elements(r) - 1
        BY <1>3, Layout
      <4> QED
        BY <1>3, <4>1
    <3>3. ASSUME WholeGroups(r)
          PROVE  /\ m(s) = HeadRows(r, q, h, s) /\ l(s) = HeadRows(r, q, h, s)
                 /\ o(s, d) = HeadRows(r, q, h, s)
      <4>1. PICK rows : rows = HeadRows(r, q, h, s)
        OBVIOUS
      <4>2. /\ mem[b][PartialM(i)] = Partial("m", c, 0, rows)
            /\ mem[b][PartialL(r, i)] = Partial("l", c, 0, rows)
            /\ mem[b][PartialO(r, i, d)] = Partial("o", c, d, rows)
        BY <1>1, <2>4, <3>1, <3>3, <4>1 DEF Written
      <4>3. /\ cell(PartialM(i)) = Partial("m", c, 0, rows)
            /\ cell(PartialL(r, i)) = Partial("l", c, 0, rows)
            /\ cell(PartialO(r, i, d)) = Partial("o", c, d, rows)
        BY <3>2, <4>2
      <4> HIDE DEF cell
      <4>4. m(s) = rows /\ l(s) = rows /\ o(s, d) = rows
        BY <3>1, <4>3 DEF ReadRows, Partial
      <4> QED
        BY <4>1, <4>4
    <3> HIDE DEF m, l, o
    <3> QED
      BY <3>1, <3>2, <3>3
  <2>6. inside
    BY <2>5
  <2>7. ~fault'
    <3>1. fault' = (fault \/ ~inside) /\ ~fault
      BY <1>2, <1>7 DEF IInv, NoFault
    <3> QED
      BY <2>6, <3>1
  <2> DEFINE sum == Merged(r, q, h)
  <2>8. ASSUME WholeGroups(r)
        PROVE  /\ l_all = sum
               /\ \A d \in 0 .. r.head_dim - 1 : total(d) = sum
    <3>1. 0 \in 0 .. r.head_dim - 1
      BY <1>4
    <3>2. \A s \in splits : m(s) = HeadRows(r, q, h, s) /\ l(s) = HeadRows(r, q, h, s)
      BY <2>5, <2>8, <3>1
    <3>3. \A s \in splits : \A d \in 0 .. r.head_dim - 1 : o(s, d) = HeadRows(r, q, h, s)
      BY <2>5, <2>8
    <3> HIDE DEF m, l, o
    <3>4. added = {k \in splits : HeadRows(r, q, h, k) # {}}
      BY <3>2
    <3>5. added \subseteq splits
      OBVIOUS
    <3>6. sum = UNION {AddedBy(s, HeadRows(r, q, h, s)) : s \in added}
      BY <3>4 DEF Merged
    <3> HIDE DEF added, sum, splits
    <3>7. {AddedBy(s, l(s)) : s \in added} = {AddedBy(s, HeadRows(r, q, h, s)) : s \in added}
      BY <3>2, <3>5
    <3>8. ASSUME NEW d \in 0 .. r.head_dim - 1
          PROVE  {AddedBy(s, o(s, d)) : s \in added}
                   = {AddedBy(s, HeadRows(r, q, h, s)) : s \in added}
      BY <3>3, <3>5
    <3> QED
      BY <3>6, <3>7, <3>8
  <2> HIDE DEF l_all, total, sum
  <2>9. ASSUME WholeGroups(r)
        PROVE  /\ value.den = sum /\ DOMAIN value.num = 1 .. r.head_dim
               /\ \A d \in 1 .. r.head_dim : value.num[d] = sum
    <3>1. \A d \in 1 .. r.head_dim : d - 1 \in 0 .. r.head_dim - 1
      BY <1>4
    <3> QED
      BY <2>8, <2>9, <3>1
  <2> HIDE DEF value
  <2>10. /\ flat + 1 \in DOMAIN out[c]
         /\ out' = [out EXCEPT ![c] = [out[c] EXCEPT ![flat + 1] = value]]
    BY <1>2, <1>5, <1>7, <2>1, <1>4
  <2> DEFINE new == [out[c] EXCEPT ![flat + 1] = value]
  <2>11. /\ DOMAIN new = DOMAIN out[c] /\ new[flat + 1] = value
         /\ \A k \in Nat : k # flat => new[k + 1] = out[c][k + 1]
    <3>1. DOMAIN new = DOMAIN out[c] /\ new[flat + 1] = value
      BY <2>10
    <3>2. ASSUME NEW k \in Nat, k # flat
          PROVE  new[k + 1] = out[c][k + 1]
      <4>1. k + 1 # flat + 1
        BY <1>3, <3>2
      <4> QED
        BY <4>1
    <3> QED
      BY <3>1, <3>2
  <2> HIDE DEF new
  <2>12. /\ out' = [x \in DOMAIN out |-> IF x = c THEN new ELSE out[x]]
    BY <1>5, <2>10 DEF new
  <2>13. out'[c] = new /\ out' = [x \in DOMAIN out |-> out'[x]]
    BY <1>5, <2>12
  <2>14. \A x \in DOMAIN calls : x # c => out'[x] = out[x]
    <3>1. DOMAIN calls = DOMAIN out
      BY DEF IInv, Types, IsList
    <3> QED
      BY <2>12, <3>1
  <2>15. \A x \in DOMAIN calls : DOMAIN out'[x] = DOMAIN out[x]
    BY <2>11, <2>13, <2>14
  <2> QED
    BY <2>2, <2>7, <2>9, <2>11, <2>13, <2>14, <2>15 DEF sum, c, r
<1> QED
  BY <1>6, <1>7

\* decode_reduce_kernel: each warp completes one output.
LEMMA ReduceWarpSteps ==
  ASSUME IInv, stream # <<>>, NEW flat \in stream[1].todo, ReduceWarp(flat)
  PROVE  IInv'
<1>1. Types /\ Run(flat) /\ mem' = mem /\ stream[1].kind = "reduce"
  <2>1. Types
    BY DEF IInv
  <2> QED
    BY <2>1 DEF ReduceWarp
<1>2. PICK c \in DOMAIN calls : c = stream[1].call /\ calls[c].req \in Requests
  BY FirstKernel
<1>3. PICK r \in Requests : r = Req(c)
  BY <1>2 DEF Req
<1>4. UNCHANGED <<host, calls, pool, doomed>> /\ flat \in Nat
  BY <1>1, FirstKernel DEF Run
<1>5. \A x : Req(x)' = Req(x)
  BY <1>4 DEF Req
<1>6. /\ ~fault' /\ out' = [x \in DOMAIN out |-> out'[x]]
      /\ \A x \in DOMAIN calls : DOMAIN out'[x] = DOMAIN out[x]
      /\ \A x \in DOMAIN calls : x # c => out'[x] = out[x]
      /\ \A k \in Nat : k # flat => out'[c][k + 1] = out[c][k + 1]
  BY <1>2, <1>3, ReduceWrites
<1>7. mem' = [b \in DOMAIN mem |-> mem'[b]] /\ \A b \in DOMAIN mem : DOMAIN mem'[b] = DOMAIN mem[b]
  BY <1>1, Buffers
<1>8. PoolInv' /\ HostInv' /\ StreamInv'
  BY <1>1, <1>7, RunKeeps
<1>9. Types'
  BY <1>1, <1>6, <1>7, RunTypes
<1>10. \A x \in DOMAIN calls : \A k \in Nat :
         (x = c => k # flat) /\ OutDone(x, k) => OutDone(x, k)'
  <2> SUFFICES ASSUME NEW x \in DOMAIN calls, NEW k \in Nat, x = c => k # flat, OutDone(x, k)
               PROVE  OutDone(x, k)'
    OBVIOUS
  <2>1. out'[x][k + 1] = out[x][k + 1] /\ Req(x)' = Req(x)
    BY <1>5, <1>6
  <2> QED
    BY <2>1 DEF OutDone
<1>11. flat < Heads(r) => OutDone(c, flat)'
  <2> SUFFICES ASSUME flat < Heads(r), WholeGroups(r)
               PROVE  OutDone(c, flat)'
    BY <1>3, <1>5 DEF OutDone
  <2>1. PICK sum : sum = Merged(r, flat \div r.num_heads, flat % r.num_heads)
    OBVIOUS
  <2>2. /\ out'[c][flat + 1].den = sum
        /\ \A d \in DOMAIN out'[c][flat + 1].num : out'[c][flat + 1].num[d] = sum
    BY <1>2, <1>3, <2>1, ReduceWrites
  <2>3. flat \div r.num_heads \in 0 .. r.batch - 1
    <3>1. r.batch \in Nat \ {0} /\ r.num_heads \in Nat \ {0}
      BY RequestFacts
    <3>2. PICK B \in Nat, H \in Nat \ {0} : B = r.batch /\ H = r.num_heads
      BY <3>1
    <3>3. B * H \in Nat /\ Heads(r) = B * H
      BY <3>2 DEF Heads
    <3>4. flat \in 0 .. B * H - 1
      BY <1>4, <3>3
    <3> QED
      BY <3>2, <3>4, DivBelow
  <2>4. EachOnce(sum, AttendedRows(r, flat \div r.num_heads, flat % r.num_heads))
    BY <2>1, <2>3, MergedExact
  <2>5. Req(c)' = r
    BY <1>3, <1>5
  <2> QED
    BY <2>2, <2>4, <2>5 DEF OutDone
<1>12. ASSUME NEW k \in 0 .. Heads(r) - 1, k = flat \/ k \notin stream[1].todo
       PROVE  OutDone(c, k)'
  <2>0. Heads(r) \in Nat
    BY Sizes
  <2>1. CASE k = flat
    BY <1>11, <2>0, <2>1
  <2>2. CASE k # flat
    <3>1. OutDone(c, k)
      BY <1>1, <1>2, <1>3, <1>12, <2>2 DEF IInv, OutputInv
    <3> QED
      BY <1>10, <2>0, <2>2, <3>1
  <2> QED
    BY <2>1, <2>2
<1>13. PICK n \in Nat \ {0} :
         /\ n = Len(stream) /\ DOMAIN stream = 1 .. n
         /\ \/ /\ stream[1].todo = {flat} /\ DOMAIN stream' = 1 .. n - 1 /\ Len(stream') = n - 1
               /\ \A i \in 1 .. n - 1 : stream'[i] = stream[i + 1]
            \/ /\ DOMAIN stream' = 1 .. n
               /\ stream'[1].kind = stream[1].kind /\ stream'[1].call = stream[1].call
               /\ stream'[1].todo = stream[1].todo \ {flat}
  BY <1>1, RunFacts
<1>14. \A x : InStream(x) => InStream(x)' \/ (x = c /\ stream[1].todo = {flat})
  BY <1>1, <1>2, StaysInStream
<1>15. ASSUME NEW x \in DOMAIN calls', calls'[x].status = "ok"
       PROVE  InStream(x)' \/ \A k \in 0 .. Heads(Req(x)') - 1 : OutDone(x, k)'
  <2>1. x \in DOMAIN calls /\ calls[x].status = "ok"
    BY <1>4, <1>15
  <2>2. InStream(x) \/ \A k \in 0 .. Heads(Req(x)) - 1 : OutDone(x, k)
    BY <2>1 DEF IInv, OutputInv
  <2>3. CASE x = c /\ stream[1].todo = {flat}
    <3>1. \A k \in 0 .. Heads(r) - 1 : OutDone(c, k)'
      BY <1>12, <2>3
    <3>2. \A k \in 0 .. Heads(r) - 1 : OutDone(x, k)'
      BY <2>3, <3>1 DEF OutDone, Req
    <3>3. Req(x)' = r
      BY <1>3, <1>5, <2>3
    <3> QED
      BY <3>2, <3>3
  <2>4. CASE InStream(x) /\ ~(x = c /\ stream[1].todo = {flat})
    BY <1>14, <2>4
  <2>5. CASE \A k \in 0 .. Heads(Req(x)) - 1 : OutDone(x, k)
    <3>1. Req(x)' = Req(x)
      BY <1>5
    <3>2. Heads(Req(x)) \in Nat
      <4>1. calls \in Seq(CallType)
        BY <1>1 DEF Types
      <4>2. calls[x] \in CallType
        BY <2>1, <4>1
      <4>3. Req(x) \in Requests
        BY <4>2 DEF CallType, Req
      <4> QED
        BY <4>3, Sizes
    <3>3. ASSUME NEW k \in 0 .. Heads(Req(x)) - 1
          PROVE  OutDone(x, k)'
      <4>1. k \in Nat /\ OutDone(x, k)
        BY <2>5, <3>2
      <4>2. CASE x = c /\ k = flat
        <5>1. flat < Heads(r)
          BY <1>3, <3>2, <4>2
        <5> QED
          BY <1>11, <4>2, <5>1 DEF OutDone, Req
      <4>3. CASE ~(x = c /\ k = flat)
        BY <1>10, <2>1, <4>1, <4>3
      <4> QED
        BY <4>2, <4>3
    <3> QED
      BY <3>1, <3>3
  <2> QED
    BY <2>2, <2>3, <2>4, <2>5
<1>16. CASE stream[1].todo = {flat} /\ DOMAIN stream' = 1 .. n - 1
  <2>1. CASE n = 1
    <3>1. stream' = <<>>
      <4>1. stream' \in Seq(KernelType) /\ DOMAIN stream' = {}
        BY <1>9, <1>16, <2>1 DEF Types
      <4> QED
        BY <4>1
    <3>2. host'.pc # "reduce"
      <4>1. host.pc # "reduce"
        BY <1>1, <1>13, <2>1 DEF IInv, StreamInv
      <4> QED
        BY <1>4, <4>1
    <3>3. PartialsInv' /\ OutputInv'
      BY <1>15, <3>1, <3>2 DEF PartialsInv, OutputInv, Heads
    <3> QED
      BY <1>6, <1>8, <1>9, <3>3 DEF IInv, NoFault
  <2>2. CASE n > 1
    <3>1. 1 \in 1 .. n - 1 /\ 1 + 1 = 2 /\ 2 \in 1 .. n /\ 2 - 1 = 1
      BY <2>2
    <3>2. stream' # <<>> /\ stream'[1] = stream[2]
      <4>1. stream'[1] = stream[1 + 1]
        BY <1>13, <1>16, <3>1
      <4>2. 1 \in DOMAIN stream'
        BY <1>16, <3>1
      <4> QED
        BY <3>1, <4>1, <4>2
    <3>3. PICK x \in DOMAIN calls : x = stream[2].call /\ x = stream'[1].call
      <4>1. Live(stream[2].call)
        BY <1>13, <3>1 DEF IInv, StreamInv
      <4> QED
        BY <3>2, <4>1 DEF Live
    <3>4. stream[2].kind = "partial"
      <4>1. stream[2].kind = "reduce" => stream[1].kind = "partial"
        <5>1. 2 \in DOMAIN stream
          BY <1>13, <3>1
        <5>2. stream[2].kind = "reduce" => stream[2 - 1].kind = "partial"
          BY <5>1 DEF IInv, StreamInv
        <5> QED
          BY <3>1, <5>2
      <4>2. stream[2] \in KernelType
        BY <1>1, <1>13, <3>1 DEF Types
      <4> QED
        BY <1>1, <4>1, <4>2 DEF KernelType
    <3>5. stream[2].todo = Work("partial", Req(x))
      <4>1. 2 \in DOMAIN stream
        BY <1>13, <3>1
      <4>2. stream[2].todo = Work(stream[2].kind, Req(stream[2].call))
        BY <4>1 DEF IInv, StreamInv
      <4> QED
        BY <3>3, <3>4, <4>2
    <3>6. 0 .. Base(Req(x)) - 1 \subseteq stream[2].todo
      <4>1. calls[x] \in CallType
        BY <1>1 DEF Types
      <4>2. Req(x) \in Requests
        BY <4>1 DEF CallType, Req
      <4> QED
        BY <3>5, <4>2, WorkCovers
    <3>7. PartialsInv'
      BY <1>5, <3>2, <3>3, <3>4, <3>6 DEF PartialsInv, Base, Heads
    <3>8. OutputInv'
      BY <1>15, <3>2, <3>4 DEF OutputInv, Heads
    <3> QED
      BY <1>6, <1>8, <1>9, <3>7, <3>8 DEF IInv, NoFault
  <2> QED
    BY <2>1, <2>2
<1>17. CASE /\ DOMAIN stream' = 1 .. n
            /\ stream'[1].kind = stream[1].kind /\ stream'[1].call = stream[1].call
            /\ stream'[1].todo = stream[1].todo \ {flat}
  <2>1. stream' # <<>>
    BY <1>17
  <2>2. PICK x : x = c /\ x = stream'[1].call /\ x = stream[1].call
    BY <1>2, <1>17
  <2>3. AllWritten(x)'
    <3>1. AllWritten(x)
      BY <1>1, <2>2 DEF IInv, PartialsInv
    <3> QED
      BY <1>1, <1>4, <1>5, <3>1 DEF AllWritten, Written
  <2>4. PartialsInv'
    BY <1>1, <1>17, <2>1, <2>2, <2>3 DEF PartialsInv
  <2>5. ASSUME NEW k \in 0 .. Heads(Req(x)') - 1, k \notin stream'[1].todo
        PROVE  OutDone(x, k)'
    <3>1. k \in 0 .. Heads(r) - 1
      BY <1>3, <1>5, <2>2
    <3>2. k = flat \/ k \notin stream[1].todo
      BY <1>17, <2>5
    <3>3. OutDone(c, k)'
      BY <1>12, <3>1, <3>2
    <3> QED
      BY <2>2, <3>3 DEF OutDone, Req
  <2>6. OutputInv'
    BY <1>15, <2>1, <2>2, <2>5 DEF OutputInv, Heads
  <2> QED
    BY <1>6, <1>8, <1>9, <2>4, <2>6 DEF IInv, NoFault
<1> QED
  BY <1>13, <1>16, <1>17

-----------------------------------------------------------------------------
\* Nothing is allocated or queued at first.
LEMMA InitIInv == Init => IInv
<1> SUFFICES ASSUME Init
             PROVE  IInv
  OBVIOUS
<1>1. Types
  <2>1. host \in HostType /\ pool \in [buf : Nat, elements : Nat]
    BY DEF Init, HostType
  <2>2. calls = <<>> /\ stream = <<>> /\ mem = <<>> /\ out = <<>>
    BY DEF Init
  <2>3. calls \in Seq(CallType) /\ stream \in Seq(KernelType) /\ Len(calls) = 0
    BY <2>2
  <2>4. IsList(mem, 0) /\ IsList(out, 0) /\ DOMAIN calls = {}
    BY <2>2 DEF IsList
  <2> QED
    BY <2>1, <2>3, <2>4 DEF Types
<1>2. /\ PoolInv /\ HostInv /\ StreamInv /\ NoFault
  BY DEF Init, PoolInv, HostInv, HasBuffer, StreamInv, NoFault
<1>3. PartialsInv /\ OutputInv
  BY DEF Init, PartialsInv, OutputInv
<1> QED
  BY <1>1, <1>2, <1>3 DEF IInv

\* Host steps either leave the stream alone or queue one kernel; warps advance it.
LEMMA NextIInv == IInv /\ [Next]_vars => IInv'
<1> SUFFICES ASSUME IInv, [Next]_vars
             PROVE  IInv'
  OBVIOUS
<1>1. ASSUME NEW r \in Requests, Begin(r)
      PROVE  IInv'
  BY <1>1, BeginSteps, HostKeepsStream DEF IInv
<1>2. CASE AcquireReuse
  BY <1>2, AcquireReuseSteps, HostKeepsStream DEF IInv
<1>3. CASE AcquireGrow
  BY <1>3, AcquireGrowSteps, HostKeepsStream DEF IInv
<1>4. CASE AcquireFails \/ ReleaseScratch
  BY <1>4, GiveUpSteps, HostKeepsStream DEF IInv
<1>5. CASE FreeDone
  BY <1>5, FreeDoneSteps, HostKeepsStream DEF IInv
<1>6. CASE OutputFails
  BY <1>6, OutputFailsSteps, HostKeepsStream DEF IInv
<1>7. CASE OutputAllocated
  BY <1>7, OutputAllocatedSteps, HostKeepsStream DEF IInv
<1>8. ASSUME NEW kind \in {"partial", "reduce"}, Launch(kind)
      PROVE  IInv'
  BY <1>8, QueueSteps DEF IInv
<1>9. ASSUME NEW kind \in {"partial", "reduce"}, LaunchFails(kind, TRUE)
      PROVE  IInv'
  BY <1>9, QueueSteps DEF IInv
<1>10. ASSUME NEW kind \in {"partial", "reduce"}, LaunchFails(kind, FALSE)
       PROVE  IInv'
  BY <1>10, LaunchLostSteps, HostKeepsStream DEF IInv
<1>11. CASE Drained
  BY <1>11, DrainedSteps, HostKeepsStream DEF IInv
<1>12. CASE WarpStep
  <2>1. PICK flat \in stream[1].todo : PartialWarp(flat) \/ ReduceWarp(flat)
    BY <1>12 DEF WarpStep
  <2>2. stream # <<>>
    BY <1>12 DEF WarpStep
  <2>3. CASE PartialWarp(flat)
    BY <2>2, <2>3, PartialWarpSteps
  <2>4. CASE ReduceWarp(flat)
    BY <2>2, <2>4, ReduceWarpSteps
  <2> QED
    BY <2>1, <2>3, <2>4
<1>13. CASE UNCHANGED vars
  <2>1. UNCHANGED <<host, calls, pool, mem, doomed, stream, out, fault>>
    BY <1>13 DEF vars
  <2>2. Types' /\ PoolInv' /\ HostInv' /\ NoFault'
    BY <2>1 DEF IInv, Types, IsList, PoolInv, HostInv, HasBuffer, Live, Req, NoFault, Heads
  <2>3. StreamInv'
    BY <2>1 DEF IInv, StreamInv, Live, Req, Work
  <2>4. PartialsInv' /\ OutputInv'
    BY <2>1, ZenonT(40) DEF IInv, PartialsInv, AllWritten, Written, OutputInv, InStream, OutDone, Req
  <2> QED
    BY <2>2, <2>3, <2>4 DEF IInv
<1> QED
  <2>1. HostStep \/ WarpStep \/ UNCHANGED vars
    BY DEF Next
  <2>2. CASE HostStep
    <3>1. ASSUME NEW kind \in {"partial", "reduce"}, NEW queued \in BOOLEAN, LaunchFails(kind, queued)
          PROVE  IInv'
      <4>1. queued = TRUE \/ queued = FALSE
        OBVIOUS
      <4> QED
        BY <1>9, <1>10, <3>1, <4>1
    <3> QED
      BY <2>2, <3>1, <1>1, <1>2, <1>3, <1>4, <1>5, <1>6, <1>7, <1>8, <1>11 DEF HostStep
  <2> QED
    BY <2>1, <2>2, <1>12, <1>13

\* IInv is an invariant, and OutputExact follows from it: a successful call without a
\* kernel in the stream has in particular no reduce kernel there.
LEMMA IInvHolds == Spec => []IInv
  BY InitIInv, NextIInv, PTL DEF Spec

\* Whatever the requests, the sizes and the number of multiprocessors are, the kernels of
\* decode_splitk.cu stay inside scratch buffers that are still allocated, although
\* AcquireScratchFp32 replaces the buffer, and ReleaseScratch frees it, while kernels of
\* earlier calls are queued on it.
THEOREM NoFaultHolds == Spec => []NoFault
<1>1. IInv => NoFault
  BY DEF IInv
<1> QED
  BY <1>1, IInvHolds, PTL

\* Whatever the requests and the number of splits are, in whatever order the warps run
\* and whichever calls share the scratch buffer, each output of a completed call whose
\* heads divide evenly is the softmax over every mapped token of its sequence, once, as long
\* as no other call has read past the K/V heads.
THEOREM OutputExactHolds == Spec => []OutputExact
<1>1. IInv => OutputExact
  <2> SUFFICES ASSUME IInv, NEW c \in DOMAIN calls, calls[c].status = "ok",
                      ~\E i \in DOMAIN stream : stream[i].call = c, WholeGroups(Req(c)),
                      NEW flat \in 0 .. Heads(Req(c)) - 1
               PROVE  OutDone(c, flat)
    BY DEF OutputExact, OutDone
  <2>1. ~InStream(c)
    BY DEF InStream
  <2> QED
    BY <2>1 DEF IInv, OutputInv
<1> QED
  BY <1>1, IInvHolds, PTL

=============================================================================
