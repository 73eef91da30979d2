------------------------------ MODULE MCSconeLocks ------------------------------
(* The transport thread and two others of any roles.                                *)
EXTENDS SconeLocks, TLC

Sym == Permutations(Threads \ {Transport})
================================================================================
