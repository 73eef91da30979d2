----------------------------- MODULE MCSconeArp -----------------------------
(* SconeArp for TLC: two next hops, so that an ICMP error can wait for     *)
(* another hop than the packet it reports.                                 *)
EXTENDS SconeArp

CONSTANTS h1, h2, m1, i1, i2
=============================================================================
