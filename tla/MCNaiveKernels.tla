---------------------------- MODULE MCNaiveKernels ----------------------------
EXTENDS NaiveKernels

MCProblem(b, h, hkv, sq, skv, d, causal) ==
  [batch |-> b, num_heads |-> h, num_kv_heads |-> hkv, seq_q |-> sq, seq_kv |-> skv,
   head_dim |-> d, causal |-> causal]

\* A row longer than a block, a causal square, grouped heads, and two batches with one
\* row more than the softmax grid has blocks.
MCProblems ==
  { MCProblem(1, 1, 1, 1, 5, 1, FALSE),
    MCProblem(1, 1, 1, 2, 2, 2, TRUE),
    MCProblem(1, 1, 1, 1, 2, 5, TRUE),
    MCProblem(1, 2, 1, 1, 2, 1, FALSE),
    MCProblem(2, 2, 2, 1, 1, 1, FALSE) }
=============================================================================
