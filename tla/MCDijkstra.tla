----------------------------- MODULE MCDijkstra -----------------------------
EXTENDS Dijkstra
CONSTANTS us, a, b, c

(* A square us - a - b - c - us with the diagonal a - c, and a subnet of b alone. *)
MCSubnets == [r \in Routers |-> CASE r = us -> {"ua", "uc"} [] r = a -> {"ua", "ab", "ac"}
                                  [] r = b -> {"ab", "bc", "b"} [] r = c -> {"bc", "uc", "ac"}]
=============================================================================
