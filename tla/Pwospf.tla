-------------------------------- MODULE Pwospf --------------------------------
(***************************************************************************)
(* PWOSPF as SCONE runs it (or_pwospf.c, iface_up and iface_down of        *)
(* or_iface.c): hellos find the neighbours of an interface, link-state     *)
(* updates (LSUs) are flooded through a queue that pwospf_lsu_bcast_thread *)
(* empties, and every change of the router list re-marks the active links, *)
(* wakes Dijkstra and floods a new LSU.  Packets are lost, delayed and     *)
(* reordered, routers restart, sequence numbers are 16 bits wide.          *)
(*                                                                         *)
(* An interface is a router on a subnet; the ip and the mask of a          *)
(* neighbour follow from the two.  The 3-interval timeouts are events:     *)
(* three hellos, or all the LSUs of 90 s, can be lost.                     *)
(***************************************************************************)
EXTENDS Naturals, Sequences, FiniteSets

CONSTANTS
  Routers,   \* the routers of the area
  Subnets,   \* the subnets between them
  On,        \* set of <<router, subnet>>: the interfaces
  SeqMod,    \* 2^16 in the code: sequence numbers are taken modulo SeqMod
  Ttl0,      \* 64 in the code: the ttl of a new LSU
  MaxEvents, \* bound: hellos, timeouts, restarts, interface changes, commands
  MaxNet,    \* bound: packets in flight at a time
  None

ASSUME PwospfAssumption ==
  /\ On \subseteq Routers \X Subnets
  /\ SeqMod \in Nat \ {0, 1} /\ Ttl0 \in Nat \ {0}
  /\ MaxEvents \in Nat /\ MaxNet \in Nat
  /\ None \notin Routers

Seqs == 0 .. (SeqMod - 1)
(* A pwospf_interface: its subnet and the neighbour's router id, or None   *)
(* for the zero of an interface without a neighbour.                       *)
Ifaces == Subnets \X (Routers \cup {None})
(* A pwospf_router. *)
Entries == [rid : Routers, seq : Seqs, ifs : SUBSET Ifaces]
Lsus == [rid : Routers, seq : Seqs, ifs : SUBSET Ifaces, ttl : 1 .. Ttl0,
         to : Routers, from : Routers, sub : Subnets]

SubnetsOf(r) == {s \in Subnets : <<r, s>> \in On}

VARIABLES
  st,        \* router -> its router_state
  net,       \* the LSUs in flight
  said,      \* history: router -> the <<seq, ifs>> it has flooded
  events     \* how many of the MaxEvents events have happened

vars == <<st, net, said, events>>

(* What init_router_list and the creation of the threads leave behind: the *)
(* router knows itself, pwospf_lsu_bcast_thread waits on its condition.    *)
Booted(r) ==
  [up      |-> [s \in SubnetsOf(r) |-> TRUE],
   nbrs    |-> [s \in SubnetsOf(r) |-> {}],
   list    |-> <<[rid |-> r, seq |-> 0, ifs |-> SubnetsOf(r) \X {None}]>>,
   active  |-> {},
   sends   |-> TRUE,
   queue   |-> {},
   bcast   |-> "wait",
   hello   |-> "idle"]

TypeOK ==
  /\ \A r \in Routers :
       LET x == st[r] IN
       /\ x.up \in [SubnetsOf(r) -> BOOLEAN]
       /\ x.nbrs \in [SubnetsOf(r) -> SUBSET (Routers \ {r})]
       /\ x.list \in Seq(Entries) /\ x.list[1].rid = r
       /\ \A i, j \in DOMAIN x.list : x.list[i].rid = x.list[j].rid => i = j
       /\ x.active \subseteq Routers \X Ifaces
       /\ x.queue \subseteq Lsus
       /\ x.bcast \in {"wait", "woken", "send"}
       /\ x.hello \in {"idle", "changed"}
       /\ x.sends \in BOOLEAN
  /\ net \subseteq Lsus
  /\ events \in 0 .. MaxEvents

-----------------------------------------------------------------------------
(* get_router_by_rid: the places of router q in list l. *)
PlacesOf(l, q) == {k \in DOMAIN l : l[k].rid = q}

(* determine_active_interfaces, called for each router of list l in turn.  *)
(* The interface's flag is cleared and set if the neighbour it names has   *)
(* an interface on the same subnet that is not blank; that interface's     *)
(* flag is set too, and lasts if its own router has been visited before.   *)
ActiveIfaces(l) ==
  LET Mutual(k, i) == /\ i[2] # None
                      /\ \E m \in PlacesOf(l, i[2]) :
                           \E j \in l[m].ifs : j[1] = i[1] /\ j[2] # None
      Later(k, i) == /\ i[2] # None
                     /\ \E m \in DOMAIN l : /\ m > k
                                            /\ <<i[1], l[k].rid>> \in l[m].ifs
  IN  UNION {{<<l[k].rid, i>> : i \in {i \in l[k].ifs : Mutual(k, i) \/ Later(k, i)}}
               : k \in DOMAIN l}

(* broadcast_pwospf_lsu_packet: a copy for every neighbour on an interface *)
(* that is up, except the one it came from (`not', or None).  The copies   *)
(* wait in pwospf_lsu_queue.                                               *)
Broadcast(r, x, lsu, not) ==
  LET copies == {[rid |-> lsu.rid, seq |-> lsu.seq, ifs |-> lsu.ifs,
                  ttl |-> lsu.ttl, to |-> n[1], from |-> r, sub |-> n[2]] :
                   n \in {n \in On : /\ n[2] \in SubnetsOf(r)
                                     /\ x.up[n[2]]
                                     /\ n[1] \in x.nbrs[n[2]]
                                     /\ n # not}}
  IN  [x EXCEPT !.queue = @ \cup copies]

(* our_router->seq += 1, 16 bits wide. *)
NextSeq(n) == (n + 1) % SeqMod

(* start_lsu_bcast_flood with construct_pwospf_lsu_packet: our interfaces  *)
(* under the present number, which is then incremented.                    *)
StartLsuBcastFlood(r, x) ==
  IF x.sends
  THEN LET own == x.list[1]
       IN  Broadcast(r, [x EXCEPT !.list[1].seq = NextSeq(@)],
                     [rid |-> r, seq |-> own.seq, ifs |-> own.ifs, ttl |-> Ttl0],
                     None)
  ELSE x

(* propagate_pwospf_changes.  The dijkstra_trigger in the middle belongs   *)
(* to SconeRtable: the flags set here are what the run it causes works on. *)
Propagate(r, x) ==
  StartLsuBcastFlood(r, [x EXCEPT !.active = ActiveIfaces(x.list)])

(* pthread_cond_signal(pwospf_lsu_bcast_cond): lost unless the thread      *)
(* waits.                                                                  *)
Signal(x) == IF x.bcast = "wait" THEN [x EXCEPT !.bcast = "woken"] ELSE x

(* History: what r has flooded when it goes from its state to x. *)
Says(r, x) ==
  LET own == st[r].list[1]
  IN  said' = IF x.list[1].seq # own.seq
              THEN [said EXCEPT ![r] = @ \cup {<<own.seq, x.list[1].ifs>>}]
              ELSE said

Becomes(r, x) == st' = [st EXCEPT ![r] = x] /\ Says(r, x)

Event == events < MaxEvents /\ events' = events + 1

-----------------------------------------------------------------------------
(* Mutant: the neighbour is recorded, the change is not propagated. *)
HelloQuietly(r, s, n) ==
  LET x    == st[r]
      ifs  == (x.list[1].ifs \ {<<s, None>>}) \cup {<<s, n>>}
  IN
  /\ {<<r, s>>, <<n, s>>} \subseteq On /\ n # r
  /\ x.hello = "idle" /\ x.up[s] /\ st[n].up[s] /\ n \notin x.nbrs[s]
  /\ Event
  /\ Becomes(r, [x EXCEPT !.nbrs[s] = @ \cup {n}, !.list[1].ifs = ifs])
  /\ UNCHANGED net

(* broadcast_pwospf_hello_packet of n reaches r on subnet s and            *)
(* process_pwospf_hello_packet finds a new neighbour: its id goes into our *)
(* blank interface on this subnet or into a new one.  A hello of a         *)
(* neighbour we have changes nothing but its time.                         *)
ProcessHello(r, s, n) ==
  LET x    == st[r]
      ifs  == (x.list[1].ifs \ {<<s, None>>}) \cup {<<s, n>>}
      y    == [x EXCEPT !.nbrs[s] = @ \cup {n}, !.list[1].ifs = ifs]
  IN
  /\ {<<r, s>>, <<n, s>>} \subseteq On /\ n # r
  /\ x.hello = "idle" /\ x.up[s] /\ st[n].up[s] /\ n \notin x.nbrs[s]
  /\ Event
  /\ Becomes(r, Signal(Propagate(r, y)))
  /\ UNCHANGED net

(* determine_timedout_interface, for the neighbours `gone' of one of the   *)
(* interfaces, in the loop of pwospf_hello_thread: the last interface of a *)
(* subnet is made blank, another one is deleted.  The interface list       *)
(* stays locked until the change is propagated.                            *)
TimeOutNeighbours(r, s, gone) ==
  LET x     == st[r]
      onS   == {i \in x.list[1].ifs : i[1] = s}
      left  == onS \ ({s} \X gone)
      ifs   == (x.list[1].ifs \ onS) \cup (IF left = {} THEN {<<s, None>>} ELSE left)
  IN
  /\ s \in SubnetsOf(r) /\ x.up[s] /\ gone # {} /\ gone \subseteq x.nbrs[s]
  /\ Event
  /\ Becomes(r, [x EXCEPT !.nbrs[s] = @ \ gone, !.list[1].ifs = ifs,
                          !.hello = "changed"])
  /\ UNCHANGED net

(* The end of broadcast_pwospf_hello_packet. *)
PropagateTimeouts(r) ==
  LET x == st[r] IN
  /\ x.hello = "changed"
  /\ Becomes(r, Signal(Propagate(r, [x EXCEPT !.hello = "idle"])))
  /\ UNCHANGED <<net, events>>

-----------------------------------------------------------------------------
(* populate_pwospf_router_interface_list: the new advertisements are added *)
(* to the old ones, then the missing ones are removed.                     *)
Populate(old, ifs) == {i \in old \cup ifs : i \in ifs}

(* Mutant: any number that differs is taken for a newer one. *)
SupersedesAny(m, e) == m.seq # e.seq

(* Is LSU m newer than entry e of its router? *)
Supersedes(m, e) == m.seq > e.seq

(* is_pwospf_packet_valid.  A packet that was damaged or is of another     *)
(* area or version is lost, which needs no step: an LSU may stay in net.   *)
Valid(m) == m.rid # m.to

(* process_pwospf_lsu_packet.  Our own LSUs, and packets of an interface   *)
(* that is down, are dropped.  An empty interface list counts as changed   *)
(* whatever arrives.                                                       *)
ProcessLsu(m) ==
  LET r       == m.to
      x       == st[r]
      at      == PlacesOf(x.list, m.rid)
      k       == CHOOSE k \in at : TRUE
      known   == at # {}
      old     == x.list[k].ifs
      ifs     == IF known THEN Populate(old, m.ifs) ELSE m.ifs
      taken   == ~known \/ Supersedes(m, x.list[k])
      changed == taken /\ (~known \/ old = {} \/ ifs # old)
      entry   == [rid |-> m.rid, seq |-> m.seq, ifs |-> ifs]
      list    == IF ~taken THEN x.list
                 ELSE IF known THEN [x.list EXCEPT ![k] = entry]
                               ELSE Append(x.list, entry)
      again   == taken /\ m.ttl - 1 > 0
      y       == [x EXCEPT !.list = list]
      z       == IF again THEN Broadcast(r, y, [m EXCEPT !.ttl = @ - 1], <<m.from, m.sub>>)
                          ELSE y
      w       == IF changed THEN Propagate(r, z) ELSE z
  IN
  /\ m \in net /\ net' = net \ {m}
  /\ x.hello = "idle"
  /\ IF x.up[m.sub] /\ Valid(m)
     THEN Becomes(r, IF changed \/ again THEN Signal(w) ELSE w)
     ELSE UNCHANGED <<st, said>>
  /\ UNCHANGED events

(* pwospf_lsu_timeout_thread removes the routers of gone from the list;    *)
(* the places of the others, in their order, are f[1], f[2], ...           *)
TimeOutRouters(r, gone) ==
  LET x    == st[r]
      kept == {k \in DOMAIN x.list : x.list[k].rid \notin gone}
      InOrder(f) == /\ \A i, j \in DOMAIN f : i < j => f[i] < f[j]
                    /\ \A k \in kept : \E j \in DOMAIN f : f[j] = k
  IN
  /\ gone # {} /\ r \notin gone
  /\ gone \subseteq {x.list[k].rid : k \in DOMAIN x.list}
  /\ Event
  /\ \E f \in [1 .. Cardinality(kept) -> kept] :
       /\ InOrder(f)
       /\ Becomes(r, Signal(Propagate(r, [x EXCEPT !.list = [j \in DOMAIN f |-> @[f[j]]]])))
  /\ UNCHANGED net

(* LSUs are in the queue of r and nobody is going to send them. *)
Stranded(r) == st[r].queue # {} /\ st[r].bcast = "wait"

(* Mutant: the periodic flood is queued and the thread is not woken. *)
LsuThreadNoSignal(r) ==
  /\ Stranded(r) \/ events < MaxEvents
  /\ events' = IF Stranded(r) THEN events ELSE events + 1
  /\ Becomes(r, StartLsuBcastFlood(r, st[r]))
  /\ UNCHANGED net

(* pwospf_lsu_thread, after an interval without a flood, or the CLI's send *)
(* lsu.  It is bounded, but never while LSUs are stranded in the queue.      *)
LsuThread(r) ==
  /\ Stranded(r) \/ events < MaxEvents
  /\ events' = IF Stranded(r) THEN events ELSE events + 1
  /\ Becomes(r, Signal(StartLsuBcastFlood(r, st[r])))
  /\ UNCHANGED net

-----------------------------------------------------------------------------
(* pwospf_lsu_bcast_thread takes the whole queue and sends it.  A packet   *)
(* is lost when there is no route to its neighbour, in the ARP queue, or   *)
(* on the wire: those that will arrive, at most MaxNet of them, are in     *)
(* flight.                                                                 *)
BcastTake(r) ==
  LET x == st[r] IN
  /\ x.bcast = "woken"
  /\ \E arriving \in SUBSET x.queue : /\ Cardinality(net \cup arriving) <= MaxNet
                                       /\ net' = net \cup arriving
  /\ Becomes(r, [x EXCEPT !.queue = {}, !.bcast = "send"])
  /\ UNCHANGED events

(* It has sent the last packet and waits again, without a look at the      *)
(* queue: a signal that came in between is lost.                           *)
BcastWait(r) ==
  /\ st[r].bcast = "send"
  /\ Becomes(r, [st[r] EXCEPT !.bcast = "wait"])
  /\ UNCHANGED <<net, events>>

-----------------------------------------------------------------------------
(* iface_up. *)
IfaceUp(r, s) ==
  LET x == st[r]
      y == [x EXCEPT !.up[s] = TRUE, !.nbrs[s] = {},
                     !.list[1].ifs = @ \cup {<<s, None>>}]
  IN
  /\ <<r, s>> \in On /\ ~x.up[s] /\ x.hello = "idle"
  /\ Event
  /\ Becomes(r, Signal(Propagate(r, y)))
  /\ UNCHANGED net

(* iface_down of an interface without neighbours. *)
IfaceDown(r, s) ==
  LET x    == st[r]
      ifs  == {i \in x.list[1].ifs : i[1] # s}
      y    == [x EXCEPT !.up[s] = FALSE, !.list[1].ifs = ifs]
  IN
  /\ <<r, s>> \in On /\ x.up[s] /\ x.nbrs[s] = {} /\ x.hello = "idle"
  /\ Event
  /\ Becomes(r, IF ifs # x.list[1].ifs THEN Signal(Propagate(r, y)) ELSE y)
  /\ UNCHANGED net

(* The process ends and is started again: for any reason, or because       *)
(* iface_down of an interface with a neighbour walks a list whose nodes it *)
(* has freed.                                                              *)
Restart(r) ==
  /\ Event
  /\ st' = [st EXCEPT ![r] = Booted(r)]
  /\ UNCHANGED <<net, said>>

(* set lsu broadcast on | off. *)
CliSetLsuBroadcast(r) ==
  /\ Event
  /\ Becomes(r, [st[r] EXCEPT !.sends = ~@])
  /\ UNCHANGED net

-----------------------------------------------------------------------------
Init ==
  /\ st = [r \in Routers |-> Booted(r)]
  /\ net = {}
  /\ said = [r \in Routers |-> {}]
  /\ events = 0

Next ==
  \/ \E r \in Routers :
       \/ \E s \in SubnetsOf(r), n \in Routers : ProcessHello(r, s, n)
       \/ \E s \in SubnetsOf(r), gone \in SUBSET Routers : TimeOutNeighbours(r, s, gone)
       \/ PropagateTimeouts(r)
       \/ \E gone \in SUBSET Routers : TimeOutRouters(r, gone)
       \/ LsuThread(r)
       \/ BcastTake(r)
       \/ BcastWait(r)
       \/ \E s \in SubnetsOf(r) : IfaceUp(r, s)
       \/ \E s \in SubnetsOf(r) : IfaceDown(r, s)
       \/ Restart(r)
       \/ CliSetLsuBroadcast(r)
  \/ \E m \in net : ProcessLsu(m)

(* The threads of a router that are concerned with its queue run:          *)
(* pwospf_lsu_bcast_thread, and pwospf_lsu_thread that polls every second  *)
(* and floods once in an interval.                                         *)
Fairness ==
  \A r \in Routers : /\ WF_vars(BcastTake(r))
                     /\ WF_vars(BcastWait(r))
                     /\ WF_vars(Stranded(r) /\ LsuThread(r))

Spec == Init /\ [][Next]_vars /\ Fairness

-----------------------------------------------------------------------------
(* The flags Dijkstra reads are those of the present router list, unless   *)
(* the hello thread is about to set them: no path through hellos, LSUs,    *)
(* timeouts, restarts and interface changes (or_pwospf.c:150, 221, 395,    *)
(* 1232, or_iface.c:317, 384) leaves the links of the routing computation  *)
(* behind the topology.                                                    *)
FlagsFollowList ==
  \A r \in Routers :
    LET x == st[r] IN
    x.hello = "idle" => x.active = ActiveIfaces(x.list)

(* The LSUs in pwospf_lsu_queue leave it, although                         *)
(* pwospf_lsu_bcast_thread misses the signals sent while it is sending     *)
(* (or_pwospf.c:1260): the periodic flood of pwospf_lsu_thread wakes it.   *)
QueuedLsuLeaves ==
  \A r \in Routers : (st[r].queue # {}) ~> (st[r].queue = {})

(* The view of LinkState: what r holds about another router. *)
View == [r \in Routers |-> [q \in Routers |->
           LET at == PlacesOf(st[r].list, q)
               k  == CHOOSE k \in at : TRUE
           IN  IF q = r \/ at = {} THEN None
               ELSE <<st[r].list[k].seq, st[r].list[k].ifs>>]]

Abstract == INSTANCE LinkState WITH Adverts <- SUBSET Ifaces, view <- View

(* The databases are link-state databases: through loss, reordering,       *)
(* forwarding, timeouts, restarts and the wrap of the 16-bit numbers, what *)
(* a router holds about another (or_pwospf.c:347-356, 411-438) is nothing  *)
(* or exactly what that router flooded under that number, and it gives way *)
(* only to a higher number.                                                *)
ImplementsLinkState == Abstract!Spec
=============================================================================
