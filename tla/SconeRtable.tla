----------------------------- MODULE SconeRtable -----------------------------
(***************************************************************************)
(* The routing table of the SCONE router (projects/scone/sw/or_rtable.c,   *)
(* dijkstra_thread of or_dijkstra.c, iface_up and iface_down of            *)
(* or_iface.c), its copy in the NetFPGA, and the two lookups that must     *)
(* agree: get_next_hop, which searches the list for the longest prefix,    *)
(* and the hardware, which takes the first row that matches (ip_lpm.v).    *)
(*                                                                         *)
(* Who changes the table holds the write lock of rtable until the last row *)
(* is written, but the hardware forwards by the rows as they are written:  *)
(* a change is one action, and each row another.  What compute_rtable      *)
(* returns for the present link-state database is an input, `topo'.        *)
(***************************************************************************)
EXTENDS Integers, Sequences, FiniteSets

CONSTANTS
  Width,      \* bits of an address
  Ifaces,     \* names of interfaces
  Operator,   \* the routes the operator enters
  File,       \* the routes of the rtable file, in its order
  Views,      \* the lists compute_rtable may return
  Depth,      \* rows of the hardware table
  MaxStatic,  \* bound: static routes in the table
  NoPort      \* output port 0

Addrs == 0 .. (2 ^ Width - 1)

(* A route: ip and mask length, gateway (0: none, it is on the link), port. *)
Routes == [ip : Addrs, len : 0 .. Width, gw : Addrs, iface : Ifaces]
Entries == [ip : Addrs, len : 0 .. Width, gw : Addrs, iface : Ifaces,
            static : BOOLEAN, active : BOOLEAN]
Rows == [ip : Addrs, len : 0 .. Width, gw : Addrs, port : Ifaces \cup {NoPort}]

(* That 2 ^ Width is positive is arithmetic that the provers are not taught. *)
ASSUME SconeRtableAssumption ==
  /\ Width \in Nat /\ 2 ^ Width \in Nat \ {0}
  /\ Depth \in Nat \ {0} /\ MaxStatic \in Nat
  /\ Operator \subseteq Routes
  /\ File \in Seq(Routes)
  /\ Views \subseteq Seq(Routes) /\ << >> \in Views
  /\ NoPort \notin Ifaces

VARIABLES
  rtable,   \* rs->rtable
  up,       \* the interfaces that are active
  hw,       \* the rows of the hardware table
  row,      \* the rows written since the last change of rtable
  cur,      \* write_rtable_to_hw: the entry for the next row
  writing,  \* is somebody in write_rtable_to_hw, with the write lock?
  topo,     \* what compute_rtable would return now
  dirty,    \* rs->dijkstra_dirty
  dij,      \* control state of dijkstra_thread
  seen      \* history: the topo of its last run

vars == <<rtable, up, hw, row, cur, writing, topo, dirty, dij, seen>>

TypeOK ==
  /\ rtable \in Seq(Entries)
  /\ up \subseteq Ifaces
  /\ hw \in [1 .. Depth -> Rows]
  /\ row \in 0 .. Depth
  /\ cur \in 1 .. Len(rtable) + 1
  /\ writing \in BOOLEAN /\ (writing => row < Depth)
  /\ topo \in Views
  /\ dirty \in BOOLEAN
  /\ dij \in {"wait", "woken", "lock", "write", "loop"}
  /\ seen \in Views

-----------------------------------------------------------------------------
(* Destination d is in the network of route or row e. *)
Covers(e, d) ==
  LET host == 2 ^ (Width - e.len) IN d \div host = e.ip \div host

(* The next hop and the port by e; no gateway means the destination. *)
Via(e, port, d) == <<IF e.gw = 0 THEN d ELSE e.gw, port>>

NoRoute == << >>

(* get_next_hop: of the active entries for d one of the longest masks,     *)
(* the first of them in the list.                                          *)
GetNextHop(d) ==
  LET matches == {k \in DOMAIN rtable : rtable[k].active /\ Covers(rtable[k], d)}
      lpm == CHOOSE k \in matches : \A j \in matches :
               \/ rtable[k].len > rtable[j].len
               \/ rtable[k].len = rtable[j].len /\ k <= j
  IN  IF matches = {} THEN NoRoute ELSE Via(rtable[lpm], rtable[lpm].iface, d)

(* The rows that match d; the CAM is encoded for the smallest address. *)
Hits(d) == {i \in DOMAIN hw : Covers(hw[i], d)}
FirstHit(d) == CHOOSE i \in Hits(d) : \A j \in Hits(d) : i <= j
HwLookup(d) == Via(hw[FirstHit(d)], hw[FirstHit(d)].port, d)

-----------------------------------------------------------------------------
(* Mutant: the masks are compared the wrong way round. *)
BeforeShort(a, b) ==
  \/ a.len < b.len
  \/ a.len = b.len /\ a.ip > b.ip
  \/ a.len = b.len /\ a.ip = b.ip /\ a.static /\ ~b.static

(* Neighbours a, b of the list are swapped if b is to be before a. *)
Before(a, b) ==
  \/ a.len > b.len
  \/ a.len = b.len /\ a.ip > b.ip
  \/ a.len = b.len /\ a.ip = b.ip /\ a.static /\ ~b.static

(* The bubble sort of the entries of s whose places are kept; it leaves    *)
(* equal entries in their order.                                           *)
Sorts(s, kept) ==
  LET n == Cardinality(kept)
      InOrder(p) == \A i, j \in 1 .. n : i < j =>
                      \/ Before(s[p[i]], s[p[j]])
                      \/ ~Before(s[p[j]], s[p[i]]) /\ p[i] < p[j]
  IN  {[i \in 1 .. n |-> s[p[i]]] : p \in {q \in [1 .. n -> kept] : InOrder(q)}}

(* The first active entry of s from k on, or the end of the list: one place. *)
NextActive(s, k) ==
  {j \in k .. Len(s) + 1 :
    /\ j = Len(s) + 1 \/ s[j].active
    /\ \A i \in k .. j - 1 : ~s[i].active}

(* trigger_rtable_modified when the list is to be what is kept of s: sort  *)
(* it and begin to write.                                                  *)
TriggerRtableModified(s, kept) ==
  /\ rtable' \in Sorts(s, kept)
  /\ cur' \in NextActive(rtable', 1)
  /\ row' = 0 /\ writing' = TRUE
  /\ UNCHANGED hw

LastRow(i) == i = Depth

ZeroRow == [ip |-> 0, len |-> 0, gw |-> 0, port |-> NoPort]
RowOf(e) == [ip |-> e.ip, len |-> e.len, gw |-> e.gw, port |-> e.iface]

(* One turn of the loop of write_rtable_to_hw; after the last the write    *)
(* lock is released.                                                       *)
WriteRow ==
  /\ writing
  /\ IF cur <= Len(rtable)
     THEN /\ hw' = [hw EXCEPT ![row + 1] = RowOf(rtable[cur])]
          /\ cur' \in NextActive(rtable, cur + 1)
     ELSE /\ hw' = [hw EXCEPT ![row + 1] = ZeroRow]
          /\ UNCHANGED cur
  /\ row' = row + 1
  /\ writing' = ~LastRow(row + 1)
  /\ dij' = IF dij = "write" /\ LastRow(row + 1) THEN "loop" ELSE dij
  /\ UNCHANGED <<rtable, up, topo, dirty, seen>>

-----------------------------------------------------------------------------
Entry(r, isStatic) ==
  [ip |-> r.ip, len |-> r.len, gw |-> r.gw, iface |-> r.iface,
   static |-> isStatic, active |-> TRUE]

Statics == {k \in DOMAIN rtable : rtable[k].static}

(* cli_ip_route_add: add_route does not look at the interface's state, or  *)
(* whether the route is there.                                             *)
CliRouteAdd(r) ==
  /\ ~writing /\ Cardinality(Statics) < MaxStatic
  /\ TriggerRtableModified(Append(rtable, Entry(r, TRUE)), 1 .. Len(rtable) + 1)
  /\ UNCHANGED <<up, topo, dirty, dij, seen>>

(* cli_ip_route_del: all the routes with this address and mask. *)
CliRouteDel(r) ==
  LET others == {k \in DOMAIN rtable : ~(rtable[k].ip = r.ip /\ rtable[k].len = r.len)} IN
  /\ ~writing
  /\ TriggerRtableModified(rtable, others)
  /\ UNCHANGED <<up, topo, dirty, dij, seen>>

(* deactivate_routes: of the routes of f only the static ones stay. *)
Deactivated(f) ==
  [k \in DOMAIN rtable |->
    IF rtable[k].iface = f THEN [rtable[k] EXCEPT !.active = FALSE] ELSE rtable[k]]
Staying(f) == {k \in DOMAIN rtable : rtable[k].iface = f => rtable[k].static}

(* activate_routes *)
Activated(f) ==
  [k \in DOMAIN rtable |->
    IF rtable[k].iface = f THEN [rtable[k] EXCEPT !.active = TRUE] ELSE rtable[k]]

(* Mutant: the flag is left to the signal. *)
DijkstraTriggerQuiet ==
  /\ dij' = IF dij = "wait" THEN "woken" ELSE dij
  /\ UNCHANGED dirty

(* dijkstra_trigger: the signal is lost unless the thread waits for it. *)
DijkstraTrigger ==
  /\ dirty' = TRUE
  /\ dij' = IF dij = "wait" THEN "woken" ELSE dij

(* iface_up, iface_down: an interface that is so already is left alone;    *)
(* else its routes, the link-state database and its routes change.         *)
IfaceUp(f, v) ==
  /\ ~writing /\ f \notin up
  /\ up' = up \cup {f}
  /\ TriggerRtableModified(Activated(f), DOMAIN rtable)
  /\ topo' = v /\ DijkstraTrigger /\ UNCHANGED seen

IfaceDown(f, v) ==
  /\ ~writing /\ f \in up
  /\ up' = up \ {f}
  /\ TriggerRtableModified(Deactivated(f), Staying(f))
  /\ topo' = v /\ DijkstraTrigger /\ UNCHANGED seen

(* A hello, a link-state update or a timeout changes the link-state        *)
(* database and triggers, under its mutex: dijkstra_thread holds it as     *)
(* long as it has the table.                                               *)
TopologyChange(v) ==
  /\ dij # "write"
  /\ topo' = v /\ DijkstraTrigger
  /\ UNCHANGED <<rtable, up, hw, row, cur, writing, seen>>

-----------------------------------------------------------------------------
(* dijkstra_thread: its wait of a second is over and the flag is set. *)
DijkstraTimeout ==
  /\ dij = "wait" /\ dirty
  /\ dij' = "woken"
  /\ UNCHANGED <<rtable, up, hw, row, cur, writing, topo, dirty, seen>>

(* The flag is reset before the locks are taken. *)
DijkstraClear ==
  /\ dij = "woken"
  /\ dirty' = FALSE
  /\ dij' = "lock"
  /\ UNCHANGED <<rtable, up, hw, row, cur, writing, topo, seen>>

(* compute_rtable's routes come after those of the list. *)
Dynamic == [k \in DOMAIN topo |-> Entry(topo[k], FALSE)]
DynamicPlaces == Len(rtable) + 1 .. Len(rtable) + Len(topo)

(* Mutant: the inactive routes go too. *)
DijkstraRunActive ==
  /\ dij = "lock" /\ ~writing
  /\ TriggerRtableModified(rtable \o Dynamic,
                           {k \in Statics : rtable[k].active} \cup DynamicPlaces)
  /\ dij' = "write" /\ seen' = topo
  /\ UNCHANGED <<up, topo, dirty>>

(* The routes that are not static are replaced by compute_rtable's.          *)
DijkstraRun ==
  /\ dij = "lock" /\ ~writing
  /\ TriggerRtableModified(rtable \o Dynamic, Statics \cup DynamicPlaces)
  /\ dij' = "write" /\ seen' = topo
  /\ UNCHANGED <<up, topo, dirty>>

(* The thread waits for the next signal. *)
DijkstraWait ==
  /\ dij = "loop"
  /\ dij' = "wait"
  /\ UNCHANGED <<rtable, up, hw, row, cur, writing, topo, dirty, seen>>

-----------------------------------------------------------------------------
(* init_rtable, init_hardware: the file is read, not sorted and not        *)
(* written, and dijkstra is triggered.                                     *)
Init ==
  /\ rtable = [k \in DOMAIN File |-> Entry(File[k], TRUE)]
  /\ up = Ifaces
  /\ hw = [i \in 1 .. Depth |-> ZeroRow]
  /\ row = 0 /\ cur = 1 /\ writing = FALSE
  /\ topo \in Views /\ dirty = TRUE /\ seen = << >>
  /\ dij = "wait"

DijkstraThread ==
  DijkstraTimeout \/ DijkstraClear \/ DijkstraRun \/ DijkstraWait

Cli ==
  \/ \E r \in Operator : CliRouteAdd(r) \/ CliRouteDel(r)
  \/ \E f \in Ifaces, v \in Views : IfaceUp(f, v) \/ IfaceDown(f, v)

Next ==
  \/ WriteRow
  \/ Cli
  \/ \E v \in Views : TopologyChange(v)
  \/ DijkstraThread

Spec == Init /\ [][Next]_vars

(* Who writes the rows finishes, and dijkstra_thread runs: strongly fair,  *)
(* for it competes for the write lock with the operator, who at last rests. *)
Fairness == WF_vars(WriteRow) /\ SF_vars(DijkstraThread)

FairSpec == Spec /\ Fairness

-----------------------------------------------------------------------------
(* The rows written so far route as the software does: the first hit among *)
(* them is the longest prefix get_next_hop finds, gateway and port, though *)
(* the table is cut off at Depth; a row of zeroes, which matches every     *)
(* destination, is hit only where the software has no route; and when all  *)
(* rows are written a destination the software can route misses only if    *)
(* every row holds a route.                                                *)
WrittenRowsRoute ==
  \A d \in Addrs :
    /\ Hits(d) # {} /\ FirstHit(d) <= row =>
         GetNextHop(d) = IF hw[FirstHit(d)].port = NoPort THEN NoRoute
                                                         ELSE HwLookup(d)
    /\ row = Depth /\ Hits(d) = {} => \A i \in DOMAIN hw : hw[i].port # NoPort

(* How often the operator's route r is in list s. *)
Copies(s, r) ==
  Cardinality({k \in DOMAIN s : s[k].static /\ Entry(s[k], TRUE) = Entry(r, TRUE)})

(* Static routes belong to the operator: only `ip route add' and `ip route *)
(* del' change how often one is in the table.  Interfaces that go down and *)
(* come up, and dijkstra_thread, which rebuilds the list, lose none and    *)
(* double none.                                                            *)
StaticsAreTheOperators ==
  [][\A r \in Operator :
       Copies(rtable', r) # Copies(rtable, r) =>
         \E q \in Operator : CliRouteAdd(q) \/ CliRouteDel(q)]_vars

(* No change of the link-state database is missed: although the signal of  *)
(* dijkstra_trigger may come when nobody waits for it, and the flag is set *)
(* and reset without a lock, the routes are recomputed from the database   *)
(* unless it changes again.                                                *)
RoutesFollowTopology == \A v \in Views : topo = v ~> (topo # v \/ seen = v)
=============================================================================
