------------------------------- MODULE MCPwospf -------------------------------
(***************************************************************************)
(* Three routers in a line, a - s - b - t - c, so that b forwards the LSUs *)
(* of the ends.  The area has converged before: a and b are neighbours and *)
(* hold each other's first LSU.  Router c is their third, or has its       *)
(* interface down.                                                         *)
(***************************************************************************)
EXTENDS Pwospf, TLC

CONSTANTS a, b, c, s, t

MCRouters == {a, b, c}
MCSubnets == {s, t}
MCOn == {<<a, s>>, <<b, s>>, <<b, t>>, <<c, t>>}

(* Router r with the interfaces ifs[q] of the routers q of order. *)
Knows(r, order, ifs) ==
  LET list == [k \in DOMAIN order |->
                 [rid |-> order[k], seq |-> IF k = 1 THEN 1 ELSE 0, ifs |-> ifs[order[k]]]]
  IN  [Booted(r) EXCEPT
         !.nbrs = [u \in SubnetsOf(r) |-> {q \in MCRouters : <<u, q>> \in ifs[r]}],
         !.list = list, !.active = ActiveIfaces(list)]

Together ==
  LET ifs == (a :> {<<s, b>>}) @@ (b :> {<<s, a>>, <<t, c>>}) @@ (c :> {<<t, b>>})
  IN  (a :> Knows(a, <<a, b, c>>, ifs)) @@ (b :> Knows(b, <<b, a, c>>, ifs))
        @@ (c :> Knows(c, <<c, b, a>>, ifs))

Apart(third) ==
  LET ifs == (a :> {<<s, b>>}) @@ (b :> {<<s, a>>, <<t, None>>})
  IN  (a :> Knows(a, <<a, b>>, ifs)) @@ (b :> Knows(b, <<b, a>>, ifs)) @@ (c :> third)

Down == [Booted(c) EXCEPT !.up[t] = FALSE, !.list[1].ifs = {}]

MCInit ==
  /\ st \in {Together, Apart(Down)}
  /\ net = {}
  /\ said = [r \in Routers |-> IF st[r].list[1].seq = 0 THEN {}
                               ELSE {<<0, st[r].list[1].ifs>>}]
  /\ events = 0

MCSpec == MCInit /\ [][Next]_vars /\ Fairness
=============================================================================
