------------------------------- MODULE Rollout --------------------------------
(***************************************************************************)
(* examples/rollout_engine_stub.cpp, the engine that composes the parts:   *)
(* it plans the block pool, prefills every request with flash attention,   *)
(* appends its prompt to the PagedKVCache, and then decodes all requests   *)
(* in lockstep: append one token each, SyncPageTable, upload the lengths,  *)
(* one paged_attention call.  Requests are the sequences 0 .. n - 1 of the *)
(* cache, and only layer 0 is used.  A token's value is its position, so   *)
(* what an attention call read tells which tokens it saw, in which order.  *)
(* Timing, statistics and the JSON report are left out.                    *)
(*                                                                         *)
(* Every error ends the program: exit code 3 for the memory plan, 4 for a  *)
(* prefill, an append or a decode that failed.                             *)
(***************************************************************************)
EXTENDS PagedReads

CONSTANTS
  max_kv_len, max_new_tokens,   \* --max-kv and --max-new
  PromptLens,                   \* lengths a prompt may have
  BlockBytes,                   \* bytes of K and V in one block, all layers
  FreeBytes                     \* free device memory a probe may report

ASSUME RolloutAssumption ==
  /\ max_kv_len \in Nat /\ max_new_tokens \in Nat /\ BlockBytes \in Nat \ {0}
  /\ PromptLens \subseteq Nat \ {0} /\ FreeBytes \subseteq Nat
  /\ IsFiniteSet(Seqs) /\ Seqs # {} /\ Seqs = 0 .. Cardinality(Seqs) - 1

VARIABLES
  pc,
  prompt_lengths,
  r,            \* the request of the loop under way
  step,         \* decode step
  host_lens,    \* lengths the program keeps beside the cache's own
  has_lens,     \* the device tensor for them could be allocated
  seq_lens,     \* their copy in that tensor
  attended      \* attended[s]: terms the last paged_attention summed up for s

engine == <<prompt_lengths, r, step, host_lens, has_lens, seq_lens, attended>>
rolloutVars == <<vars, pc, engine>>

num_requests == Cardinality(Seqs)

\* Mutation of PlannedBlocks: no spare block per request.
PlannedBlocksTight ==
  CeilDiv(num_requests * (max_kv_len + max_new_tokens), block_size)

\* kv_cfg.num_blocks, the pool the program asks for.
PlannedBlocks ==
  CeilDiv(num_requests * (max_kv_len + max_new_tokens), block_size) + num_requests

\* The cache is created with the planned pool.
ASSUME PlanAssumption == num_blocks = PlannedBlocks

\* A value is a position, and one call holds a prompt.
ASSUME PromptAssumption ==
  \A n \in PromptLens : n <= MaxAppend /\ 0 .. n + max_new_tokens - 1 \subseteq Vals

KvCacheBytes == num_blocks * BlockBytes

RolloutInit ==
  /\ Init
  /\ pc = "plan"
  /\ prompt_lengths \in [Seqs -> PromptLens]
  /\ r = 0
  /\ step = 0
  /\ host_lens = prompt_lengths
  /\ has_lens = FALSE
  /\ seq_lens = [s \in Seqs |-> 0]
  /\ attended = [s \in Seqs |-> {}]

Exit(code) == pc' = code

-----------------------------------------------------------------------------
\* The two budget checks: half of the memory free at start-up, then, in
\* KVCache::Create, 0.8 of what is free by then.
BudgetHolds(at_start, at_create) ==
  /\ KvCacheBytes <= at_start \div 2
  /\ 10 * KvCacheBytes <= 8 * at_create

\* PagedKVCache::Create succeeds, fails its budget check or fails to allocate.  The
\* state of the cache it builds is the one Init describes.
Plan ==
  /\ pc = "plan"
  /\ \E at_start, at_create \in FreeBytes :
       \/ BudgetHolds(at_start, at_create) /\ Exit("prefill")
       \/ Exit("exit3")
  /\ UNCHANGED <<vars, engine>>

\* flash_attention over the prompt; an error it reports ends the program.  Nobody checks
\* that q, k and v could be allocated: a launch over a null one is accepted and faults.
Prefill ==
  /\ pc = "prefill"
  /\ \/ LaunchOk /\ cuda_error' \in {"none", "lost"} /\ Exit("append_prompt")
     \/ LaunchRaw /\ Exit("exit4")
  /\ UNCHANGED <<cacheState, engine>>

\* Tokens from .. to of a request.
TokensOf(s, from, to) == [i \in 1 .. to - from + 1 |-> <<s, from + i - 1>>]

\* An AppendTokens call of the program that does not return Ok: for the pool, the slot
\* buffer, the launch, or a k_step or v_step that could not be allocated.
AppendFails(toks) ==
  /\ \/ AppendTokensRefused(r, Len(toks))
     \/ AppendTokensNoBuffer(r, Len(toks))
     \/ AppendTokensLaunchFails(r, 0, toks)
     \/ pc = "append_step" /\ AppendTokensRejected(r, Len(toks))
  /\ Exit("exit4")
  /\ UNCHANGED engine

AppendPrompt ==
  LET toks == TokensOf(r, 0, prompt_lengths[r] - 1) IN
  /\ pc = "append_prompt"
  /\ \/ /\ AppendTokens(r, 0, toks)
        /\ r' = (r + 1) % num_requests
        /\ pc' = IF r + 1 < num_requests THEN "prefill" ELSE "alloc_lens"
        /\ UNCHANGED <<prompt_lengths, step, host_lens, has_lens, seq_lens, attended>>
     \/ AppendFails(toks)

\* The device tensor of the lengths; nobody checks that it was allocated.
AllocateLens ==
  /\ pc = "alloc_lens"
  /\ has_lens' \in BOOLEAN
  /\ cuda_error' \in MaybeStale(~has_lens')
  /\ pc' = IF max_new_tokens > 0 THEN "append_step" ELSE "done"
  /\ UNCHANGED <<cacheState, prompt_lengths, r, step, host_lens, seq_lens, attended>>

\* The inner loop of a decode step: one new token per request.
AppendStep ==
  LET toks == TokensOf(r, host_lens[r], host_lens[r]) IN
  /\ pc = "append_step"
  /\ \/ /\ AppendTokens(r, 0, toks)
        /\ r' = (r + 1) % num_requests
        /\ pc' = IF r + 1 < num_requests THEN "append_step" ELSE "sync"
        /\ UNCHANGED <<prompt_lengths, step, host_lens, has_lens, seq_lens, attended>>
     \/ AppendFails(toks)

\* Mutation of Sync: the page table is uploaded in the first step only.
SyncOnce ==
  /\ pc = "sync"
  /\ IF step = 0 THEN ForceSyncPageTable ELSE UNCHANGED vars
  /\ seq_lens' = IF has_lens /\ KernelRuns THEN host_lens ELSE seq_lens
  /\ pc' = "attend"
  /\ UNCHANGED <<prompt_lengths, r, step, host_lens, has_lens, attended>>

\* SyncPageTable, whose status nobody reads, and the upload of the lengths, which leave
\* out the token that was just appended.  The copy to a tensor that is not there fails;
\* the error it may leave unread is EventError's.
Sync ==
  /\ pc = "sync"
  /\ IF revision # synced_revision THEN ForceSyncPageTable ELSE UNCHANGED vars
  /\ seq_lens' = IF has_lens /\ KernelRuns THEN host_lens ELSE seq_lens
  /\ pc' = "attend"
  /\ UNCHANGED <<prompt_lengths, r, step, host_lens, has_lens, attended>>

\* The call's parameters: the cache's own page table and geometry, and the lengths, or
\* a null pointer if their tensor could not be allocated.
StepCall(lens) ==
  [ndims |-> 4, num_seqs |-> num_requests, seq_q |-> 1, head_dim |-> 128,
   compute_dtype |-> TRUE, layer |-> 0, num_splits |-> 0, seq_lens |-> lens,
   block_size |-> block_size, max_blocks |-> max_blocks_per_seq]

StepTerms(s) ==
  IF has_lens THEN TermsRead(StepCall(TRUE), s, seq_lens[s])
              ELSE TermsReadWithoutLens(StepCall(FALSE), s)

\* paged_attention over all requests.  It returns an error, or its kernels run, or they
\* fault on a q_step that could not be allocated, which nobody checks.
Attend ==
  /\ pc = "attend"
  /\ RunPagedAccepts(StepCall(has_lens))
  /\ \/ /\ LaunchOk
        /\ LaunchRaw
        /\ attended' = [s \in Seqs |-> {[x EXCEPT !.read = kv[0][@]] : x \in StepTerms(s)}]
        /\ pc' = "advance"
     \/ /\ LaunchOk
        /\ cuda_error' = "lost"
        /\ attended' = [s \in Seqs |-> {}]
        /\ pc' = "advance"
     \/ /\ LaunchRaw \/ cuda_error' \in MaybeStale(TRUE)
        /\ Exit("exit4")
        /\ UNCHANGED attended
  /\ UNCHANGED <<cacheState, prompt_lengths, r, step, host_lens, has_lens, seq_lens>>

\* Mutation of Advance: the step is repeated from the upload on.
AdvanceRepeats ==
  /\ pc = "advance"
  /\ pc' = "sync"
  /\ UNCHANGED <<vars, engine>>

\* The end of a decode step.
Advance ==
  /\ pc = "advance"
  /\ host_lens' = [s \in Seqs |-> host_lens[s] + 1]
  /\ step' = step + 1
  /\ pc' = IF step + 1 < max_new_tokens THEN "append_step" ELSE "done"
  /\ UNCHANGED <<vars, prompt_lengths, r, has_lens, seq_lens, attended>>

Program ==
  \/ Plan
  \/ Prefill
  \/ AppendPrompt
  \/ AllocateLens
  \/ AppendStep
  \/ Sync
  \/ Attend
  \/ Advance

\* The unchecked cudaEvent calls and the copies around the library's calls may leave
\* an error behind at any time.
EventError ==
  /\ pc \notin {"exit3", "exit4", "done"}
  /\ ForeignCudaError
  /\ UNCHANGED <<pc, engine>>

RolloutNext == Program \/ EventError

\* One thread runs main(), and every call it makes returns.
RolloutSpec == RolloutInit /\ [][RolloutNext]_rolloutVars /\ WF_rolloutVars(Program)

-----------------------------------------------------------------------------
\* A decode step whose kernels ran attends, for every request at once, to the whole prompt
\* and every token of the earlier steps.  Each position is read at most once, and what is
\* read there is the token of that position of that request, although the blocks were
\* handed out in the interleaved order of the appends, the device reads them through
\* the page table and the splits, and the lengths it is given are the program's own, kept
\* beside the cache's.  Only where the lengths could not be allocated does it read slots
\* no token was written to as well.  Whether the token appended in this step is among
\* those read is left open: paged_attention.hpp says the lengths include it, and the
\* lengths the program uploads do not.
StepAttendsHistory ==
  pc = "advance" /\ KernelRuns =>
    \A s \in Seqs :
      /\ \A j \in 0 .. prompt_lengths[s] + step - 1 :
           \E x \in attended[s] : x.token = j /\ x.read = <<s, j>>
      /\ \A x \in attended[s] :
           x.read = <<s, x.token>> \/ (~has_lens /\ x.read = Blank)
      /\ \A x, y \in attended[s] : x.token = y.token => x = y

\* The plan is sufficient: when no prompt is longer than max_kv_len, no append is ever
\* refused for lack of blocks, however the requests' blocks round up.
PlanSuffices ==
  (\A s \in Seqs : prompt_lengths[s] <= max_kv_len) => allocation_failures = 0

\* The program ends: it decodes every token or leaves with an exit code.
ProgramEnds == <>(pc \in {"exit3", "exit4", "done"})
=============================================================================
