------------------------------ MODULE MCRollout -------------------------------
(***************************************************************************)
(* Model-checking instance of Rollout: three requests, blocks of two        *)
(* tokens, prompts on both sides of max_kv_len.                            *)
(***************************************************************************)
EXTENDS Rollout

MCSeqs == 0 .. 2
MCVals == 0 .. 9
MCRequests == {StepCall(TRUE), StepCall(FALSE)}
=============================================================================
