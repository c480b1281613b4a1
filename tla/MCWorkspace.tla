---- MODULE MCWorkspace ----
(* Every value of a three-bit size_t. *)
EXTENDS Workspace
MCSizes == 0 .. SizeMod - 1
====
