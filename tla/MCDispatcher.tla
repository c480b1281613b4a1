----------------------------- MODULE MCDispatcher -----------------------------
EXTENDS Varlen

\* Sequence lengths on both sides of the thresholds 128 and 256, head_dims on both
\* sides of 128 and one that is not supported.
MCSeqQ == {1, 9}
MCSeqKv == {8, 128, 256}
MCHeads == {<<4, 2>>}
MCHeadDims == {48, 128, 160}

MCTensor(layout, b, h, s, d, dtype) ==
  [ndims |-> 4, dim |-> IF layout = "bhsd" THEN <<b, h, s, d>> ELSE <<b, s, h, d>>,
   dtype |-> dtype, cuda |-> TRUE, contiguous |-> TRUE]

\* At most one option besides the backend and the fallback.
MCConfigs ==
  {c \in [backend : BackendKinds, layout : {"bhsd"}, causal : BOOLEAN, return_lse : BOOLEAN,
          softcap : BOOLEAN, sliding_window : {-1, 0, 4}, workspace_limit : {0, 4096},
          allow_fallback : BOOLEAN, numbers_ok : {TRUE}] :
     /\ c.softcap = c.return_lse
     /\ Cardinality({i \in 1 .. 4 : <<c.causal, c.return_lse, c.sliding_window # 0,
                                   c.workspace_limit # 0>>[i]}) <= 1
     /\ c.sliding_window # 0 => ~c.allow_fallback}

MCWellFormed ==
  {[cfg |-> c,
    q |-> MCTensor(c.layout, 1, h[1], sq, d, t),
    k |-> MCTensor(c.layout, 1, h[2], skv, d, t),
    v |-> MCTensor(c.layout, 1, h[2], skv, d, t)] :
     c \in MCConfigs, h \in MCHeads, sq \in MCSeqQ, skv \in MCSeqKv, d \in MCHeadDims,
     t \in {"fp16", "fp32"}}

\* One tensor of an otherwise good call is wrong in one respect.
MCFlaws ==
  [ndims : {3}, dim : {<<1, 2, 8, 128>>}, dtype : {"fp16"}, cuda : {TRUE}, contiguous : {TRUE}]
    \union [ndims : {4}, dim : {<<1, 2, 8, 128>>, <<2, 2, 8, 128>>, <<1, 4, 8, 128>>,
                                <<1, 2, 9, 128>>, <<1, 2, 8, 64>>},
            dtype : {"fp16", "bf16", "int8"}, cuda : BOOLEAN, contiguous : BOOLEAN]

MCFlawed ==
  LET cfg == [backend |-> "auto", layout |-> "bhsd", causal |-> FALSE, return_lse |-> FALSE,
              softcap |-> FALSE, sliding_window |-> 0, workspace_limit |-> 0,
              allow_fallback |-> FALSE, numbers_ok |-> TRUE]
      good == MCTensor("bhsd", 1, 2, 8, 128, "fp16")
      swapped == MCTensor("bshd", 1, 2, 8, 128, "fp16")
  IN {[cfg |-> cfg, q |-> good, k |-> good, v |-> t] : t \in MCFlaws}
     \union {[cfg |-> cfg, q |-> good, k |-> t, v |-> good] : t \in MCFlaws}
     \union {[cfg |-> cfg, q |-> t, k |-> good, v |-> good] : t \in MCFlaws}
     \union {[cfg |-> [cfg EXCEPT !.layout = "bshd"], q |-> swapped, k |-> swapped, v |-> t] :
               t \in MCFlaws \union {swapped}}
     \union {[cfg |-> [cfg EXCEPT !.numbers_ok = FALSE], q |-> good, k |-> good, v |-> good]}
     \union {[cfg |-> cfg, q |-> MCTensor("bhsd", b, h[1], 9, 128, "fp16"),
              k |-> MCTensor("bhsd", b, h[2], skv, 128, "fp16"),
              v |-> MCTensor("bhsd", b, h[2], skv, 128, "fp16")] :
               b \in 0 .. 1, h \in {<<4, 3>>, <<2, 4>>, <<4, 0>>, <<0, 4>>}, skv \in {0, 9}}

MCRequests == MCWellFormed \union MCFlawed

\* Two and three packed sequences with equal and unequal lengths, empty ones, offsets
\* that do not start at 0 or run backwards, and causal sequences with fewer keys than
\* queries; then one flaw at a time.
MCPacked(tokens, heads, d) ==
  [ndims |-> 3, dim |-> <<tokens, heads, d>>, dtype |-> "fp16", cuda |-> TRUE]
MCVarlenCfg ==
  [causal |-> FALSE, return_lse |-> FALSE, sliding_window |-> 0]
MCOffsetsQ == {<<0, 1, 3>>, <<0, 2, 3>>, <<0, 2, 2>>, <<0, 3, 1>>, <<1, 2, 3>>}
MCOffsetsKv == {<<0, 1, 4>>, <<0, 3, 4>>, <<0, 2, 4>>, <<0, 3, 3>>, <<0, 0, 4>>}
MCVarlen(n, cu_q, cu_kv) ==
  [backend |-> "flash", cfg |-> MCVarlenCfg, q |-> MCPacked(4, 4, 128),
   k |-> MCPacked(6, 2, 128), v |-> MCPacked(6, 2, 128), num_seqs |-> n,
   cu_q |-> cu_q, cu_kv |-> cu_kv, max_q |-> MaxSeqOut(cu_q, n), max_kv |-> MaxSeqOut(cu_kv, n)]
MCGoodVarlen == MCVarlen(3, <<0, 1, 2, 4>>, <<0, 1, 4, 6>>)
MCOffsetCalls ==
  {MCVarlen(n, cu_q, cu_kv) : n \in 1 .. 2, cu_q \in MCOffsetsQ, cu_kv \in MCOffsetsKv}
    \union {MCGoodVarlen}
MCVarlenCalls ==
  MCOffsetCalls \union {[c EXCEPT !.cfg.causal = TRUE] : c \in MCOffsetCalls}
    \union {[MCGoodVarlen EXCEPT !.backend = b] : b \in {"naive", "tiled", "decode", "paged"}}
    \union {[MCGoodVarlen EXCEPT !.cu_q = <<>>], [MCGoodVarlen EXCEPT !.num_seqs = 0],
            [MCGoodVarlen EXCEPT !.cfg.return_lse = TRUE],
            [MCGoodVarlen EXCEPT !.cfg.sliding_window = 4],
            [MCGoodVarlen EXCEPT !.cfg.sliding_window = -1],
            [MCGoodVarlen EXCEPT !.k.ndims = 4], [MCGoodVarlen EXCEPT !.v.cuda = FALSE],
            [MCGoodVarlen EXCEPT !.q.dtype = "fp32"], [MCGoodVarlen EXCEPT !.v.dtype = "bf16"],
            [MCGoodVarlen EXCEPT !.k.dim[3] = 64], [MCGoodVarlen EXCEPT !.q.dim[2] = 3],
            [MCGoodVarlen EXCEPT !.q.dim[3] = 48, !.k.dim[3] = 48, !.v.dim[3] = 48]}
=============================================================================
