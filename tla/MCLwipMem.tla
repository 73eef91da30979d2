----------------------------- MODULE MCLwipMem -----------------------------
(* Lengths are in small units: two to an aligned word, a header is a word. *)
EXTENDS LwipMem
=============================================================================
