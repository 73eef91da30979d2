--------------------------- MODULE MCResourceTree ---------------------------
(* ResourceTree for TLC: a root and three more resources, enough for a     *)
(* parent whose loop over two children jumps over the second.              *)
EXTENDS ResourceTree

CONSTANTS root, r1, r2, r3, g1
=============================================================================
