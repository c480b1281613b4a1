-------------------------------- MODULE SplitK --------------------------------
(***************************************************************************)
(* The arithmetic of split-K decode: how many splits a call gets, which    *)
(* tokens a split handles, how large the partials are                      *)
(* (src/backends/decode/decode_config.hpp, decode_splitk.cu), and how the  *)
(* device reads a page table (src/backends/paged/page_table.cuh).          *)
(***************************************************************************)
EXTENDS Integers

CONSTANTS
  kTokensPerSplit,    \* 512 in the code
  kMaxSplits          \* 16 in the code

ASSUME SplitAssumption == kTokensPerSplit \in Nat \ {0} /\ kMaxSplits \in Nat \ {0}

Least(a, b) == IF a < b THEN a ELSE b

SplitsFor(seq_kv, sm_count) ==
  IF seq_kv <= 0 THEN 1
  ELSE Least(Least((seq_kv + kTokensPerSplit - 1) \div kTokensPerSplit,
                   IF sm_count > 0 THEN sm_count * 2 ELSE kMaxSplits),
             kMaxSplits)

\* A positive request of the caller is clamped, otherwise the count is derived.
ResolveSplits(requested, seq_kv, sm_count) ==
  IF requested > 0 THEN Least(requested, kMaxSplits) ELSE SplitsFor(seq_kv, sm_count)

\* m and l per (batch, head, split), and a row of head_dim elements of O.
PartialElements(batch, heads_q, num_splits, head_dim) ==
  batch * heads_q * num_splits * (2 + head_dim)

\* Mutation of Chunk: the division rounds down.
ChunkFloor(seq_len, num_splits) == seq_len \div num_splits

Chunk(seq_len, num_splits) == (seq_len + num_splits - 1) \div num_splits

\* The tokens of a split.
SplitTokens(split, seq_len, num_splits) ==
  LET j_begin == split * Chunk(seq_len, num_splits)
      j_end == Least(j_begin + Chunk(seq_len, num_splits), seq_len)
  IN j_begin .. j_end - 1

\* Columns of a page-table row are counted from 1 here.
PageTableLookup(row, j, block_size, max_blocks_per_seq) ==
  IF j \div block_size >= max_blocks_per_seq THEN -1 ELSE row[(j \div block_size) + 1]

\* Physical row of a token, -1 when its block is not mapped.
PageTableRow(row, j, block_size, max_blocks_per_seq, num_kv_blocks) ==
  LET physical == PageTableLookup(row, j, block_size, max_blocks_per_seq)
  IN IF physical < 0 \/ physical >= num_kv_blocks THEN -1
     ELSE physical * block_size + (j % block_size)

-----------------------------------------------------------------------------
\* A softmax sum is the set of its terms [split, token, read]: which split added which
\* token, and what was read for it.  This is the sum over the tokens DOMAIN expected,
\* each added by one split only, of what is expected for them.
EachOnce(terms, expected) ==
  /\ \A j \in DOMAIN expected : \E x \in terms : x.token = j
  /\ \A x \in terms : x.token \in DOMAIN expected /\ x.read = expected[x.token]
  /\ \A x, y \in terms : x.token = y.token => x = y
=============================================================================
