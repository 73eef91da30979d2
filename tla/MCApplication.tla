---------------------------- MODULE MCApplication ----------------------------
(* Application for TLC: three instances let a stop meet a later one. *)
EXTENDS Application
=============================================================================
