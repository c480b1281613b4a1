---- MODULE MCSplitKDecode ----
(*****************************************************************************)
(* Requests: grouped heads with a short last split; two contiguous           *)
(* sequences; more splits asked for than there are tokens; a paged batch     *)
(* with an empty sequence, an unmapped page and a token past the table; and  *)
(* one query head on a cache of two K/V heads.                               *)
(*****************************************************************************)
EXTENDS SplitKDecode, TLC

Contiguous == [seq_lens |-> <<>>, page_table |-> <<>>, block_size |-> 1, num_kv_blocks |-> 0]
Call(b, h, hk, d, s, n, kv) ==
  [batch |-> b, num_heads |-> h, num_kv_heads |-> hk, head_dim |-> d, num_splits |-> s,
   seq_kv |-> n] @@ kv

MCRequests ==
  { Call(1, 2, 1, 2, 0, 3, Contiguous),
    Call(2, 2, 2, 1, 1, 2, Contiguous),
    Call(1, 1, 1, 1, 9, 2, Contiguous),
    Call(1, 1, 2, 1, 1, 1, [Contiguous EXCEPT !.page_table = << <<0>> >>, !.num_kv_blocks = 1]),
    Call(2, 1, 1, 1, 0, 8, [seq_lens |-> <<0, 7>>, page_table |-> << <<1, -1, -1>>, <<3, -1, 0>> >>,
                            block_size |-> 2, num_kv_blocks |-> 4]) }
====
