---------------------------- MODULE MCSconeRtable ----------------------------
(* SconeRtable for TLC: two-bit addresses, a default route, a network, a   *)
(* host in it, and a network both entered and computed, for a table of two *)
(* rows.                                                                   *)
EXTENDS SconeRtable

CONSTANTS e0, e1

Default == [ip |-> 0, len |-> 0, gw |-> 1, iface |-> e0]
Net     == [ip |-> 2, len |-> 1, gw |-> 0, iface |-> e1]
Host    == [ip |-> 3, len |-> 2, gw |-> 1, iface |-> e0]
NetFar  == [ip |-> 2, len |-> 1, gw |-> 1, iface |-> e0]

MCOperator == {Default, Net}
MCFile == <<Default>>
MCViews == {<< >>, <<NetFar, Host>>}
=============================================================================
