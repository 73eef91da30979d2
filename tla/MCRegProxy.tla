----------------------------- MODULE MCRegProxy -----------------------------
EXTENDS RegProxy
CONSTANTS d1, d2, r1, l1

MCIface == [c \in Clients |-> 0]
ref == [dir |-> "reference_nic", mod |-> 2, ver |-> 65536 * 2 + 256 + 3, cpci |-> 4]
old == [dir |-> "reference_nic", mod |-> 1, ver |-> 2, cpci |-> 3]
MCImages == {ref, old}
MCJob == [c \in Clients |-> CASE c = d1 -> ref [] c = d2 -> old [] OTHER ->
           [dir |-> "reference_nic", min |-> <<2, 1, Any>>, max |-> <<2, 1, Any>>]]
=============================================================================
