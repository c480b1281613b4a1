----------------------------- MODULE MCTiledKernel ----------------------------
(***************************************************************************)
(* Model-checking instance of TiledKernel.                                 *)
(***************************************************************************)
EXTENDS TiledKernel
=============================================================================
