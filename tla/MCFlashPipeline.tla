---------------------------- MODULE MCFlashPipeline ---------------------------
(***************************************************************************)
(* Model-checking instance of FlashPipeline.                               *)
(***************************************************************************)
EXTENDS FlashPipeline
=============================================================================
