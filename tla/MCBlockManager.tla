---------------------------- MODULE MCBlockManager ----------------------------
(***************************************************************************)
(* Model-checking instance of BlockManager, and the mutations of its       *)
(* operations that the properties must tell apart from the code.           *)
(***************************************************************************)
EXTENDS BlockManager
=============================================================================
