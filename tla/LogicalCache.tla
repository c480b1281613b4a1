----------------------------- MODULE LogicalCache -----------------------------
(***************************************************************************)
(* What sca::PagedKVCache promises its caller, without blocks, page tables *)
(* or slots: per layer and sequence a list of tokens that reads back what  *)
(* was appended, and block-granular accounting that refuses an append only *)
(* when the pool is really exhausted.                                      *)
(*                                                                         *)
(* The length is shared by all layers of a sequence: appending to one      *)
(* layer advances all of them, and what the others hold at the new         *)
(* positions is either nothing or what an append of the same sequence that *)
(* reported an error left there.                                           *)
(*                                                                         *)
(* A reset may be overtaken: its kernels read their block ids after the    *)
(* host has changed them.  It then drops the sequence all the same, but    *)
(* tokens of any sequence may be wiped and old ones may survive, so from   *)
(* there on (clean is FALSE) a layer that was not appended to may show     *)
(* anybody's token at the new positions.                                   *)
(***************************************************************************)
EXTENDS Integers, Sequences

CONSTANTS num_blocks, block_size, Seqs, Layers, Vals, Blank, MaxAppend

VARIABLES
  log,      \* log[l][s]: what layer l of sequence s reads back
  held,     \* held[s]: blocks reserved for s
  avail,    \* blocks reserved for nobody
  clean     \* no reset has been overtaken

vars == <<log, held, avail, clean>>

BlocksFor(tokens) == (tokens + block_size - 1) \div block_size
Length(s) == Len(log[0][s])
Own(s) == {s} \X Vals
Leftovers(s) == (IF clean THEN Own(s) ELSE Seqs \X Vals) \union {Blank}

Init ==
  /\ log = [l \in Layers |-> [s \in Seqs |-> <<>>]]
  /\ held = [s \in Seqs |-> 0]
  /\ avail = num_blocks
  /\ clean = TRUE

\* Blocks for n more tokens are reserved; blocks already held are used first.
Reserve(s, n) ==
  LET need == BlocksFor(Length(s) + n) - held[s]
      k == IF need > 0 THEN need ELSE 0
  IN
  /\ k <= avail
  /\ held' = [held EXCEPT ![s] = @ + k]
  /\ avail' = avail - k

AppendTokens(s, layer, toks) ==
  /\ Reserve(s, Len(toks))
  /\ \E rest \in [Layers \ {layer} -> [1 .. Len(toks) -> Leftovers(s)]] :
       log' = [l \in Layers |->
                 [log[l] EXCEPT ![s] = @ \o IF l = layer THEN toks ELSE rest[l]]]
  /\ UNCHANGED clean

\* An append that reports an error after the reservation.
AppendFails(s, n) ==
  /\ Reserve(s, n)
  /\ UNCHANGED <<log, clean>>

Release(s) ==
  /\ avail' = avail + held[s]
  /\ held' = [held EXCEPT ![s] = 0]

Reset(s) ==
  /\ log' = [l \in Layers |-> [log[l] EXCEPT ![s] = <<>>]]
  /\ Release(s)
  /\ UNCHANGED clean

\* In layer l the tokens of sequence r are as they were, or wiped.
MayWipe(l, r) ==
  /\ DOMAIN log'[l][r] = DOMAIN log[l][r]
  /\ \A p \in DOMAIN log[l][r] : log'[l][r][p] \in {log[l][r][p], Blank}

ResetOvertaken(s) ==
  /\ \A l \in Layers, r \in Seqs : IF r = s THEN log'[l][r] = <<>> ELSE MayWipe(l, r)
  /\ Release(s)
  /\ clean' = FALSE

\* A reset that reports an error keeps length and blocks, but layer 0 may be wiped.
ResetFails(s) ==
  /\ log' = [log EXCEPT ![0][s] = [p \in DOMAIN @ |-> Blank]]
  /\ UNCHANGED <<held, avail, clean>>

ResetFailsOvertaken ==
  /\ \A l \in Layers, r \in Seqs :
       IF l = 0 THEN MayWipe(l, r) ELSE log'[l][r] = log[l][r]
  /\ clean' = FALSE
  /\ UNCHANGED <<held, avail>>

Next ==
  \E s \in Seqs :
    \/ \E layer \in Layers, n \in 1 .. MaxAppend :
         \E toks \in [1 .. n -> Own(s)] : AppendTokens(s, layer, toks)
    \/ \E n \in 1 .. MaxAppend : AppendFails(s, n)
    \/ Reset(s)
    \/ ResetOvertaken(s)
    \/ ResetFails(s)
    \/ ResetFailsOvertaken

Spec == Init /\ [][Next]_vars
=============================================================================
