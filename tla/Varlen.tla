-------------------------------- MODULE Varlen --------------------------------
(***************************************************************************)
(* flash_attention_varlen (FlashBackend::ForwardVarlen,                    *)
(* src/backends/flash/flash_backend.cpp) and the ForwardVarlen the other   *)
(* backends refuse with: packed sequences, one kernel launch per sequence. *)
(* The caller runs attention() and varlen calls one after the other, so a  *)
(* varlen call begins while the Dispatcher is idle; a change of the device *)
(* and a refresh of its cached capability may come in between.             *)
(*                                                                         *)
(* The offsets come as two host arrays that the caller is told to pass     *)
(* through ValidateVarlenHost; ForwardVarlen does not call it.             *)
(***************************************************************************)
EXTENDS Dispatcher

CONSTANT VarlenCalls  \* records [backend, cfg, q, k, v, num_seqs, cu_q, cu_kv, max_q, max_kv]

\* What a caller can pass: three dimensions, and offset arrays that are missing or as
\* long as the number of sequences says.
PackedTensors ==
  [ndims : Nat, dim : [1 .. 3 -> Nat], dtype : STRING, cuda : BOOLEAN]
VarlenCallType ==
  [backend : STRING, cfg : [causal : BOOLEAN, return_lse : BOOLEAN, sliding_window : Int],
   q : PackedTensors, k : PackedTensors, v : PackedTensors, num_seqs : Int,
   cu_q : Seq(Int), cu_kv : Seq(Int), max_q : Int, max_kv : Int]

ASSUME VarlenAssumption ==
  \A c \in VarlenCalls :
    /\ c \in VarlenCallType
    /\ c.cu_q = <<>> \/ Len(c.cu_q) > c.num_seqs
    /\ c.cu_kv = <<>> \/ Len(c.cu_kv) > c.num_seqs

VARIABLES
  call,       \* the varlen call under way, None when there is none
  vstep,      \* "idle", "check", "loop" or "done"
  launches,   \* launches of this call, in order
  outcome     \* status the call returned, None before

varlen == <<call, vstep, launches, outcome>>
varlenVars == <<vars, varlen>>

VarlenInit ==
  /\ Init
  /\ call = None /\ vstep = "idle" /\ launches = <<>> /\ outcome = None

\* Mutation of ValidateVarlenHost: empty sequences pass.
ValidateVarlenHostWeak(cu, batch) ==
  /\ batch >= 1
  /\ cu[1] = 0
  /\ \A i \in 1 .. batch : cu[i + 1] >= cu[i]

\* Arrays count from 1 here, sequences from 1 too.
ValidateVarlenHost(cu, batch) ==
  /\ batch >= 1
  /\ cu[1] = 0
  /\ \A i \in 1 .. batch : cu[i + 1] > cu[i]

\* The value ValidateVarlenHost stores in max_seq_out.
MaxSeqOut(cu, batch) == Max({0} \union {cu[i + 1] - cu[i] : i \in 1 .. batch})

-----------------------------------------------------------------------------
PackedChecks(t) ==
  << Check(t.ndims = 3, "kShapeMismatch"), Check(t.cuda, "kUnsupportedFeature") >>

\* The checks of ForwardVarlen before its loop; dimensions are <<tokens, heads, head_dim>>.
VarlenStatus(c) ==
  FirstError(
    << Check(c.backend = "flash", "kUnsupportedFeature"),
       Check(c.cu_q # <<>> /\ c.cu_kv # <<>>, "kShapeMismatch"),
       Check(c.num_seqs >= 1, "kShapeMismatch"),
       Check(~c.cfg.return_lse, "kUnsupportedFeature"),
       Check(~c.cfg.causal \/ c.max_kv >= c.max_q, "kShapeMismatch") >>
    \o PackedChecks(c.q) \o PackedChecks(c.k) \o PackedChecks(c.v) \o
    << Check(c.q.dtype \in {"fp16", "bf16"}, "kUnsupportedDtype"),
       Check(c.q.dtype = c.k.dtype /\ c.q.dtype = c.v.dtype, "kUnsupportedDtype"),
       Check(/\ c.k.dim[3] = c.q.dim[3] /\ c.v.dim[3] = c.q.dim[3]
             /\ c.v.dim[2] = c.k.dim[2], "kShapeMismatch"),
       Check(c.q.dim[2] % c.k.dim[2] = 0, "kShapeMismatch") >>
    \o ValidateFlashRequest(c.q.dtype, c.cfg, c.q.dim[3]))

CallVarlen(c) ==
  /\ step = "idle" /\ vstep = "idle"
  /\ call' = c
  /\ vstep' = "check"
  /\ UNCHANGED <<vars, launches, outcome>>

VarlenReturn(status) ==
  /\ vstep' = "done"
  /\ outcome' = [status |-> status]

VarlenRejects ==
  /\ vstep = "check"
  /\ VarlenStatus(call) # "ok"
  /\ VarlenReturn(VarlenStatus(call))
  /\ UNCHANGED <<vars, call, launches>>

\* The output is allocated, or is not.
VarlenAllocates ==
  /\ vstep = "check"
  /\ VarlenStatus(call) = "ok"
  /\ \/ vstep' = "loop" /\ UNCHANGED outcome
     \/ VarlenReturn("kWorkspaceExceeded")
  /\ UNCHANGED <<vars, call, launches>>

cur == Len(launches) + 1      \* the loop's sequence
cur_sq == call.cu_q[cur + 1] - call.cu_q[cur]
cur_skv == call.cu_kv[cur + 1] - call.cu_kv[cur]

\* Mutation of SequenceParams: the diagonal comes from the lengths of the longest
\* sequences.
SequenceParamsMaxDiagonal ==
  [q |-> call.cu_q[cur], kv |-> call.cu_kv[cur], seq_q |-> cur_sq, seq_kv |-> cur_skv,
   diagonal |-> IF call.cfg.causal THEN call.max_kv - call.max_q ELSE 0]

\* What the launch of the current sequence is given: first query and output row, first
\* key row, lengths, diagonal.
SequenceParams ==
  [q |-> call.cu_q[cur], kv |-> call.cu_kv[cur], seq_q |-> cur_sq, seq_kv |-> cur_skv,
   diagonal |-> IF call.cfg.causal THEN cur_skv - cur_sq ELSE 0]

\* One iteration: an empty sequence ends the call, and so does a failed launch; the
\* launches of earlier sequences have been issued by then.
VarlenSequence ==
  /\ vstep = "loop"
  /\ cur <= call.num_seqs
  /\ IF cur_sq <= 0 \/ cur_skv <= 0
       THEN VarlenReturn("kShapeMismatch") /\ UNCHANGED launches
       ELSE \/ launches' = Append(launches, SequenceParams) /\ UNCHANGED <<vstep, outcome>>
            \/ VarlenReturn("launch failed") /\ UNCHANGED launches
  /\ UNCHANGED <<vars, call>>

VarlenDone ==
  /\ vstep = "loop"
  /\ cur > call.num_seqs
  /\ VarlenReturn("ok")
  /\ UNCHANGED <<vars, call, launches>>

TakeOutcome ==
  /\ vstep = "done"
  /\ call' = None /\ vstep' = "idle" /\ launches' = <<>> /\ outcome' = None
  /\ UNCHANGED vars

VarlenNext ==
  \/ \E r \in Requests : vstep = "idle" /\ Call(r) /\ UNCHANGED varlen
  \/ (Proceed \/ DeviceChanges \/ Refresh) /\ UNCHANGED varlen
  \/ \E c \in VarlenCalls : CallVarlen(c)
  \/ VarlenRejects
  \/ VarlenAllocates
  \/ VarlenSequence
  \/ VarlenDone
  \/ TakeOutcome

VarlenSpec == VarlenInit /\ [][VarlenNext]_varlenVars

-----------------------------------------------------------------------------
Validated(c) ==
  /\ c.cu_q # <<>> /\ ValidateVarlenHost(c.cu_q, c.num_seqs)
  /\ c.cu_kv # <<>> /\ ValidateVarlenHost(c.cu_kv, c.num_seqs)

\* Keys that query row t sees in a launch, as rows of the packed K.
KeysOf(l, t) ==
  {l.kv + col : col \in {x \in 0 .. l.seq_kv - 1 :
                           call.cfg.causal => x <= t - l.q + l.diagonal}}

\* The definition: token t belongs to the one sequence whose range holds it and sees
\* that sequence's keys, aligned at the sequence's own end.
ReferenceKeys(t) ==
  LET i == CHOOSE i \in 1 .. call.num_seqs : call.cu_q[i] <= t /\ t < call.cu_q[i + 1]
  IN {y \in call.cu_kv[i] .. call.cu_kv[i + 1] - 1 :
        call.cfg.causal => call.cu_kv[i + 1] - y >= call.cu_q[i + 1] - t}

\* With offsets that pass ValidateVarlenHost, every launch made so far, also in a call
\* that will fail half-way, writes rows no other launch writes and attends each of them
\* to the keys of its own sequence; a call that returns Ok has written every packed row.
VarlenExact ==
  call # None /\ Validated(call) =>
    LET writers(t) == {n \in DOMAIN launches : t \in launches[n].q .. launches[n].q + launches[n].seq_q - 1}
        tokens == 0 .. call.cu_q[call.num_seqs + 1] - 1
    IN /\ \A t \in tokens : \A n \in writers(t) :
            writers(t) = {n} /\ KeysOf(launches[n], t) = ReferenceKeys(t)
       /\ outcome # None /\ outcome.status = "ok" => \A t \in tokens : writers(t) # {}

\* Offsets that pass ValidateVarlenHost, with the maxima it returns, are served: a call
\* on well-formed tensors whose sequences have as many keys as queries is not refused
\* for its shape, neither before the loop nor after part of the output was written.
ValidatedServed ==
  /\ outcome # None /\ Validated(call)
  /\ call.max_q = MaxSeqOut(call.cu_q, call.num_seqs)
  /\ call.max_kv = MaxSeqOut(call.cu_kv, call.num_seqs)
  /\ \A i \in 1 .. call.num_seqs :
       call.cu_kv[i + 1] - call.cu_kv[i] >= call.cu_q[i + 1] - call.cu_q[i]
  /\ \A t \in {call.q, call.k, call.v} : t.ndims = 3
  /\ call.k.dim[3] = call.q.dim[3] /\ call.v.dim[2] = call.k.dim[2]
  /\ call.v.dim[3] = call.q.dim[3] /\ call.q.dim[2] % call.k.dim[2] = 0
  => outcome.status # "kShapeMismatch"
=============================================================================
