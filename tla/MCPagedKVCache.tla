---------------------------- MODULE MCPagedKVCache ----------------------------
(***************************************************************************)
(* Model-checking instance of PagedKVCache and its readers.                *)
(***************************************************************************)
EXTENDS PagedReads, TLC

\* What an overtaken reset kernel clears: any set of whole blocks, or just none or all.
MCLateClears == {{x \in Slots : x \div block_size \in bs} : bs \in SUBSET BM!Blocks}
MCLateFew == {{}, Slots}

Symmetry == Permutations(Seqs) \union Permutations(Vals)

\* One split, more splits than tokens, and the derived count; with and without
\* seq_lens; and calls RunPaged turns down.
Call == [ndims |-> 4, num_seqs |-> Cardinality(Seqs), seq_q |-> 1, head_dim |-> 64,
         compute_dtype |-> TRUE, layer |-> num_layers - 1, num_splits |-> 0,
         seq_lens |-> TRUE, block_size |-> 0, max_blocks |-> 0]
MCRequests ==
  {Call, [Call EXCEPT !.num_splits = 1], [Call EXCEPT !.num_splits = 8],
   [Call EXCEPT !.seq_lens = FALSE, !.block_size = block_size, !.max_blocks = num_blocks],
   [Call EXCEPT !.num_seqs = Cardinality(Seqs) + 1], [Call EXCEPT !.layer = num_layers],
   [Call EXCEPT !.head_dim = 48]}
=============================================================================
