------------------------------ MODULE Dijkstra ------------------------------
(***************************************************************************)
(* The shortest paths of SCONE (projects/scone/sw/or_dijkstra.c): what     *)
(* compute_rtable makes of the list of routers, run after run, while       *)
(* or_pwospf.c changes the list.  A router is in the list with the         *)
(* interfaces of its last LSU, in the order the routers were heard of.     *)
(*                                                                         *)
(* distance and shortest_path_found start again in every run; prev_router  *)
(* does not: a router that cannot be reached any more keeps the pointer of *)
(* an earlier run, to a router that may be gone.  That is why the runs are *)
(* steps of one specification, and prev is its state.                      *)
(***************************************************************************)
EXTENDS Integers, Sequences, FiniteSets, SequencesExt

CONSTANTS
  Us,      \* our router id
  Others,  \* the other routers' ids
  Subnets, \* router -> its subnets
  Null     \* router id 0, and the NULL pointer

Routers == {Us} \cup Others
Freed == "freed"                   \* a pointer to a router that was removed
BadWalks == {"prev_router is freed", "prev_router is NULL", "prev_router has a cycle"}

ASSUME DijkstraAssumption ==
  /\ Us \notin Others /\ Null \notin Routers /\ IsFiniteSet(Others)
  /\ ({Freed} \cup BadWalks) \cap (Routers \cup {Null}) = {}

VARIABLES
  list,  \* rs->pwospf_router_list
  adv,   \* router -> subnet -> the neighbour its interface names, or Null
  prev,  \* router -> prev_router
  fault  \* what add_route_wrappers ran into

PathsVars == <<list, adv, prev, fault>>

Known == {list[k] : k \in 1 .. Len(list)}

(* The routers that can be at the other end of r's interface on subnet s. *)
Peers(r, s) == {v \in Routers \ {r} : s \in Subnets[v]}

PathsTypeOK ==
  /\ list \in Seq(Routers) /\ Us \in Known
  /\ \A j, k \in 1 .. Len(list) : list[j] = list[k] => j = k
  /\ \A r \in Routers : \A s \in Subnets[r] : adv[r][s] \in Peers(r, s) \cup {Null}
  /\ prev \in [Routers -> Routers \cup {Null, Freed}]
  /\ fault \in {"none"} \cup BadWalks

(***************************************************************************)
(* compute_rtable                                                          *)
(***************************************************************************)

(* determine_active_interfaces: both ends name a neighbour on the subnet. *)
IsActive(r, s) ==
  /\ adv[r][s] \in Known
  /\ s \in Subnets[adv[r][s]] /\ adv[adv[r][s]][s] # Null

Neighbours(w) == {adv[w][s] : s \in {t \in Subnets[w] : IsActive(w, t)}}

Infinity == Cardinality(Routers) + 1    \* 0xFFFFFFFF

(* mutant: whoever is the neighbour of the router in turn gets its distance *)
UpdateAlways(d, w) ==
  LET closer == {v \in Neighbours(w) : ~d.found[v]}
  IN  [d EXCEPT !.dist = [v \in Routers |-> IF v \in closer THEN d.dist[w] + 1 ELSE @[v]],
                !.prev = [v \in Routers |-> IF v \in closer THEN w ELSE @[v]]]

(* mutant: a prev_router that is set stays *)
UpdateOnce(d, w) ==
  LET closer == {v \in Neighbours(w) : ~d.found[v] /\ d.dist[w] + 1 < d.dist[v]}
  IN  [d EXCEPT !.dist = [v \in Routers |-> IF v \in closer THEN d.dist[w] + 1 ELSE @[v]],
                !.prev = [v \in Routers |-> IF v \in closer /\ @[v] = Null THEN w ELSE @[v]]]

UpdateNeighborDistance(d, w) ==
  LET closer == {v \in Neighbours(w) : ~d.found[v] /\ d.dist[w] + 1 < d.dist[v]}
  IN  [d EXCEPT !.dist = [v \in Routers |-> IF v \in closer THEN d.dist[w] + 1 ELSE @[v]],
                !.prev = [v \in Routers |-> IF v \in closer THEN w ELSE @[v]]]

(* get_shortest: the first of the list among the closest that are left. *)
Left(d) == {k \in 1 .. Len(list) : ~d.found[list[k]] /\ d.dist[list[k]] < Infinity}
GetShortest(d) ==
  list[CHOOSE k \in Left(d) : \A j \in Left(d) :
         \/ d.dist[list[k]] < d.dist[list[j]]
         \/ d.dist[list[k]] = d.dist[list[j]] /\ k <= j]

(* A round of the loop of compute_rtable: the closest router that is left. *)
Round(d) ==
  IF Left(d) = {} THEN d
  ELSE LET w == GetShortest(d)
       IN  UpdateNeighborDistance([d EXCEPT !.found = [@ EXCEPT ![w] = TRUE]], w)

(* The loop; there are no more rounds than routers. *)
Rounds ==
  LET start == [dist  |-> [r \in Routers |-> IF r = Us THEN 0 ELSE Infinity],
                found |-> [r \in Routers |-> r = Us],
                prev  |-> prev]
      round[n \in 0 .. Len(list)] ==
        IF n = 0 THEN UpdateNeighborDistance(start, Us) ELSE Round(round[n - 1])
  IN  round[Len(list)]

(* add_route_wrappers walks down the pointers until the next router is us: *)
(* the router that is then our neighbour, or what went wrong.  to is where *)
(* the walk from each router ends that has one step less to go.            *)
Onward(d, to) ==
  [x \in Routers |-> CASE d.prev[x] = Freed -> "prev_router is freed"
                       [] d.prev[x] = Null -> "prev_router is NULL"
                       [] d.prev[x] \in Routers ->
                            IF d.dist[d.prev[x]] = 0 THEN x ELSE to[d.prev[x]]]

Walk(d, r) ==
  LET to[n \in 0 .. Len(list) + 1] ==
        IF n = 0 THEN [x \in Routers |-> "prev_router has a cycle"] ELSE Onward(d, to[n - 1])
  IN  to[Len(list) + 1][r]

NextRid(d, r, s) == IF d.prev[r] = Null THEN adv[r][s] ELSE Walk(d, r)

(* build_route_wrapper_list: a subnet's route is that of the first of its  *)
(* closest routers in the list; every router that was ever ahead of the    *)
(* others on its way there has been walked from.                           *)
Owners(s) == {k \in 1 .. Len(list) : s \in Subnets[list[k]]}
Ahead(d, s, k) == \A j \in Owners(s) : j < k => d.dist[list[k]] < d.dist[list[j]]
Closest(d, s) == list[CHOOSE k \in Owners(s) : Ahead(d, s, k) /\
                        \A j \in Owners(s) : d.dist[list[k]] <= d.dist[list[j]]]

AllSubnets == UNION {Subnets[r] : r \in Known}

(* The interface a route leaves by: the one with the neighbour, else the   *)
(* one on the subnet (get_iface_by_rid, get_iface_by_subnet_mask).  Ours   *)
(* are named by their subnets; of two with one neighbour one is taken.     *)
IfaceFor(rid, s) ==
  LET byRid == {t \in Subnets[Us] : rid # Null /\ adv[Us][t] = rid}
  IN  IF byRid # {} THEN {CHOOSE t \in byRid : TRUE} ELSE {s} \cap Subnets[Us]

(* compute_rtable's list: a route has an interface, and a gateway unless   *)
(* the subnet is ours; a subnet without an interface has no route.         *)
ComputeRtable(d) ==
  UNION {{[subnet |-> s, iface |-> i,
           gw |-> IF Closest(d, s) = Us THEN Null ELSE NextRid(d, Closest(d, s), s)] :
            i \in IfaceFor(NextRid(d, Closest(d, s), s), s)} : s \in AllSubnets}

(***************************************************************************)
(* The steps.                                                              *)
(***************************************************************************)

Faults(d) ==
  BadWalks \cap
  UNION {{NextRid(d, list[k], s) : k \in {j \in Owners(s) : Ahead(d, s, j)}} : s \in AllSubnets}

(* dijkstra_thread runs compute_rtable. *)
Run ==
  LET d == Rounds
  IN  /\ prev' = d.prev
      /\ fault' \in IF Faults(d) = {} THEN {"none"} ELSE Faults(d)
      /\ UNCHANGED <<list, adv>>

(* An LSU of a router (a hello, for ours) changes one of its interfaces; a *)
(* router not heard of before is appended, with no pointer.                *)
Hear(r, s, v) ==
  /\ adv[r][s] # v \/ r \notin Known
  /\ adv' = [adv EXCEPT ![r][s] = v]
  /\ list' = IF r \in Known THEN list ELSE Append(list, r)
  /\ UNCHANGED <<prev, fault>>

(* A router times out: it is freed, whoever points to it. *)
TimeOut(r) ==
  /\ r \in Known \ {Us}
  /\ \E k \in 1 .. Len(list) : list[k] = r /\ list' = RemoveAt(list, k)
  /\ adv' = [adv EXCEPT ![r] = [s \in Subnets[r] |-> Null]]
  /\ prev' = [x \in Routers |-> IF x = r THEN Null ELSE IF prev[x] = r THEN Freed ELSE prev[x]]
  /\ UNCHANGED fault

(* init_router_list: we are alone. *)
PathsInit ==
  /\ list = <<Us>>
  /\ adv = [r \in Routers |-> [s \in Subnets[r] |-> Null]]
  /\ prev = [r \in Routers |-> Null]
  /\ fault = "none"

PathsNext ==
  /\ fault = "none"
  /\ \/ Run
     \/ \E r \in Routers : \E s \in Subnets[r] : \E v \in Peers(r, s) \cup {Null} : Hear(r, s, v)
     \/ \E r \in Others : TimeOut(r)

PathsSpec == PathsInit /\ [][PathsNext]_PathsVars

(***************************************************************************)
(* Properties.                                                             *)
(***************************************************************************)

(* The reference: the routers that n hops over active links lead to. *)
From(v) ==
  LET w[n \in 0 .. Cardinality(Routers)] ==
        IF n = 0 THEN {v} ELSE w[n - 1] \cup UNION {Neighbours(r) : r \in w[n - 1]}
  IN  w
Within == From(Us)
Reachable == Within[Cardinality(Routers)]
Hops(r) == CHOOSE n \in 0 .. Cardinality(Routers) :
             r \in Within[n] /\ \A m \in 0 .. n - 1 : r \notin Within[m]

(* Whatever earlier runs left in prev_router, a run gives every subnet of  *)
(* a router that can be reached one route: none of ours has a gateway, and *)
(* any other leaves by an interface of ours to a neighbour on a shortest   *)
(* path to one of the nearest routers on the subnet (compute_rtable).      *)
RoutesShortest ==
  LET d == Rounds
      table == ComputeRtable(d)
  IN  fault = "none" /\ Faults(d) = {} =>
        \A s \in UNION {Subnets[r] : r \in Reachable} :
          LET near == {r \in Reachable : s \in Subnets[r] /\
                         \A q \in Reachable : s \in Subnets[q] => Hops(r) <= Hops(q)}
              routes == {e \in table : e.subnet = s}
          IN  /\ Cardinality(routes) = 1
              /\ \A e \in routes :
                   IF s \in Subnets[Us] THEN e.gw = Null /\ e.iface = s
                   ELSE /\ adv[Us][e.iface] = e.gw /\ e.gw \in Neighbours(Us)
                        /\ \E r \in near : r \in From(e.gw)[Hops(r) - 1]

(* The pointers of several runs never form a cycle and lead to ours, so    *)
(* every walk along prev_router ends (add_route_wrappers); and it meets a  *)
(* freed router only from a router of the list that cannot be reached, a   *)
(* partition that has not timed out.                                       *)
WalkEnds ==
  /\ fault \notin {"prev_router has a cycle", "prev_router is NULL"}
  /\ fault # "none" => Known \ Reachable # {}
=============================================================================
