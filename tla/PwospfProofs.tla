----------------------------- MODULE PwospfProofs -----------------------------
(***************************************************************************)
(* Proofs about Pwospf, for every area: any set of routers and subnets,    *)
(* any width of the sequence numbers, any number of events and packets.    *)
(*   TypeCorrect      the type invariant                                   *)
(*   FlagsAreFresh    FlagsFollowList                                      *)
(*   Refinement       ImplementsLinkState                                  *)
(*                                                                         *)
(* The argument.  A held advertisement is true because three places that   *)
(* carry one - the router lists, the queues of pwospf_lsu_bcast_thread and *)
(* the wire - only ever carry what its router flooded (Backed).  Every     *)
(* handler but a restart has one shape: it edits a router's state to some  *)
(* x, and may then flood from x (Flooded), which changes the number of the *)
(* router's own entry and adds copies of that entry to the queue.  Lemma   *)
(* HandlerStep proves the invariant and the abstract step for that shape;  *)
(* each action then only has to show that its x is good.                   *)
(***************************************************************************)
EXTENDS Pwospf, SequenceTheorems, FiniteSetTheorems, TLAPS

(* A router_state. *)
RState(r) ==
  [up : [SubnetsOf(r) -> BOOLEAN], nbrs : [SubnetsOf(r) -> SUBSET (Routers \ {r})],
   list : Seq(Entries), active : SUBSET (Routers \X Ifaces), sends : BOOLEAN,
   queue : SUBSET Lsus, bcast : {"wait", "woken", "send"}, hello : {"idle", "changed"}]

(* A router is at the head of its own list, and the list names no router   *)
(* twice.                                                                  *)
GoodList(r, l) ==
  /\ l \in Seq(Entries) /\ Len(l) > 0 /\ l[1].rid = r
  /\ \A i, j \in DOMAIN l : l[i].rid = l[j].rid => i = j

Good(r, x) == x \in RState(r) /\ GoodList(r, x.list)

(* LSU m is one that its router flooded, by the history h. *)
Told(m, h) == <<m.seq, m.ifs>> \in h[m.rid]

(* What x holds of other routers and what waits in its queue was flooded.  *)
Backed(r, x, h) ==
  /\ \A m \in x.queue : Told(m, h)
  /\ \A k \in DOMAIN x.list : x.list[k].rid # r => Told(x.list[k], h)

Fresh(x) == x.hello = "idle" => x.active = ActiveIfaces(x.list)

IInv ==
  /\ st = [r \in Routers |-> st[r]]
  /\ said \in [Routers -> SUBSET (Seqs \X SUBSET Ifaces)]
  /\ \A r \in Routers : Good(r, st[r]) /\ Backed(r, st[r], said) /\ Fresh(st[r])
  /\ net \subseteq Lsus /\ \A m \in net : Told(m, said)
  /\ events \in 0 .. MaxEvents

-----------------------------------------------------------------------------
(* A new number differs from the one before, because there are at least    *)
(* two: a router that floods is told from one that does not.               *)
LEMMA NextSeqFacts ==
  ASSUME NEW n \in Seqs
  PROVE  NextSeq(n) \in Seqs /\ NextSeq(n) # n
<1> USE PwospfAssumption DEF Seqs, NextSeq
<1>1. CASE n + 1 < SeqMod
  BY <1>1
<1>2. CASE n + 1 = SeqMod
  BY <1>2
<1> QED BY <1>1, <1>2

LEMMA EntryAt ==
  ASSUME NEW r, NEW l, GoodList(r, l), NEW k \in DOMAIN l
  PROVE  /\ l[k] \in Entries
         /\ l[k].rid \in Routers /\ l[k].seq \in Seqs /\ l[k].ifs \in SUBSET Ifaces
<1>1. l[k] \in Entries
  BY DEF GoodList
<1> QED BY <1>1 DEF Entries

(* Link i of the k-th router of list l is active. *)
Active(l, k, i) ==
  /\ i[2] # None
  /\ \/ \E m \in DOMAIN l : l[m].rid = i[2] /\ \E j \in l[m].ifs : j[1] = i[1] /\ j[2] # None
     \/ \E m \in DOMAIN l : m > k /\ <<i[1], l[k].rid>> \in l[m].ifs

LEMMA ActiveMembers ==
  ASSUME NEW l, NEW e
  PROVE  e \in ActiveIfaces(l) <=>
           \E k \in DOMAIN l : \E i \in l[k].ifs : e = <<l[k].rid, i>> /\ Active(l, k, i)
<1> DEFINE Mutual(k, i) == /\ i[2] # None
                           /\ \E m \in PlacesOf(l, i[2]) :
                                \E j \in l[m].ifs : j[1] = i[1] /\ j[2] # None
           Later(k, i) == /\ i[2] # None
                          /\ \E m \in DOMAIN l : /\ m > k
                                                 /\ <<i[1], l[k].rid>> \in l[m].ifs
           On1(k) == {i \in l[k].ifs : Mutual(k, i) \/ Later(k, i)}
           Of(k) == {<<l[k].rid, i>> : i \in On1(k)}
<1>1. ActiveIfaces(l) = UNION {Of(k) : k \in DOMAIN l}
  BY Zenon DEF ActiveIfaces
<1>2. ASSUME NEW k, NEW i PROVE Mutual(k, i) \/ Later(k, i) <=> Active(l, k, i)
  BY DEF Active, PlacesOf
<1> HIDE DEF Mutual, Later
<1>3. ASSUME NEW k PROVE e \in Of(k) <=> \E i \in l[k].ifs : e = <<l[k].rid, i>> /\ Active(l, k, i)
  BY <1>2
<1> HIDE DEF Of
<1> QED BY <1>1, <1>3

(* The flags depend on the routers and their interfaces, not on numbers. *)
LEMMA ActiveSame ==
  ASSUME NEW l, NEW m, DOMAIN l = DOMAIN m,
         \A k \in DOMAIN l : l[k].rid = m[k].rid /\ l[k].ifs = m[k].ifs
  PROVE  ActiveIfaces(l) = ActiveIfaces(m)
<1>1. \A k \in DOMAIN l : \A i : Active(l, k, i) <=> Active(m, k, i)
  BY DEF Active
<1>2. ASSUME NEW e PROVE e \in ActiveIfaces(l) <=> e \in ActiveIfaces(m)
  BY <1>1, ActiveMembers
<1> QED BY <1>2

LEMMA ActiveType ==
  ASSUME NEW l \in Seq(Entries)
  PROVE  ActiveIfaces(l) \subseteq Routers \X Ifaces
<1>1. \A k \in DOMAIN l : l[k] \in Entries
  OBVIOUS
<1>2. \A k \in DOMAIN l : l[k].rid \in Routers /\ l[k].ifs \subseteq Ifaces
  BY <1>1 DEF Entries
<1>3. ASSUME NEW e \in ActiveIfaces(l) PROVE e \in Routers \X Ifaces
  <2>1. PICK k \in DOMAIN l : \E i \in l[k].ifs : e = <<l[k].rid, i>>
    BY <1>3, ActiveMembers
  <2> QED BY <1>2, <2>1
<1> QED BY <1>3

(* What r holds of the others, from its list l: the rows of View. *)
Row(r, l) ==
  [q \in Routers |->
     LET at == PlacesOf(l, q)
         k  == CHOOSE k \in at : TRUE
     IN  IF q = r \/ at = {} THEN None ELSE <<l[k].seq, l[k].ifs>>]

LEMMA RowIsFunction ==
  ASSUME NEW r, NEW l
  PROVE  Row(r, l) = [q \in Routers |-> Row(r, l)[q]]
BY DEF Row

LEMMA RowAt ==
  ASSUME NEW r, NEW l, NEW q \in Routers, q # r,
         \A i, j \in DOMAIN l : l[i].rid = l[j].rid => i = j,
         NEW k \in DOMAIN l, l[k].rid = q
  PROVE  Row(r, l)[q] = <<l[k].seq, l[k].ifs>>
<1>1. k \in PlacesOf(l, q) /\ \A j \in PlacesOf(l, q) : j = k
  BY DEF PlacesOf
<1>2. (CHOOSE j \in PlacesOf(l, q) : TRUE) = k
  BY <1>1
<1> QED BY <1>1, <1>2 DEF Row

LEMMA RowNone ==
  ASSUME NEW r, NEW l, NEW q \in Routers,
         q = r \/ \A k \in DOMAIN l : l[k].rid # q
  PROVE  Row(r, l)[q] = None
<1>1. CASE q = r
  BY <1>1 DEF Row
<1>2. CASE \A k \in DOMAIN l : l[k].rid # q
  <2>1. PlacesOf(l, q) = {}
    BY <1>2 DEF PlacesOf
  <2> QED BY <2>1 DEF Row
<1> QED BY <1>1, <1>2

(* Two lists with the same entries for the other routers give one row. *)
LEMMA RowSame ==
  ASSUME NEW r, NEW l, NEW m, DOMAIN l = DOMAIN m,
         \A i, j \in DOMAIN l : l[i].rid = l[j].rid => i = j,
         \A k \in DOMAIN l : /\ l[k].rid = m[k].rid
                             /\ l[k].rid # r => l[k].seq = m[k].seq /\ l[k].ifs = m[k].ifs
  PROVE  Row(r, l) = Row(r, m)
<1>1. ASSUME NEW q \in Routers PROVE Row(r, l)[q] = Row(r, m)[q]
  <2>1. CASE q = r
    BY <2>1, RowNone
  <2>2. CASE q # r /\ \E k \in DOMAIN l : l[k].rid = q
    <3>1. PICK k \in DOMAIN l : l[k].rid = q
      BY <2>2
    <3>2. k \in DOMAIN m /\ m[k].rid = q
      BY <3>1
    <3>3. \A i, j \in DOMAIN m : m[i].rid = m[j].rid => i = j
      OBVIOUS
    <3>4. Row(r, l)[q] = <<l[k].seq, l[k].ifs>>
      BY <2>2, <3>1, RowAt
    <3>5. Row(r, m)[q] = <<m[k].seq, m[k].ifs>>
      BY <2>2, <3>2, <3>3, RowAt
    <3> QED BY <2>2, <3>1, <3>4, <3>5
  <2>3. CASE q # r /\ \A k \in DOMAIN l : l[k].rid # q
    <3>1. \A k \in DOMAIN m : m[k].rid # q
      BY <2>3
    <3> QED BY <2>3, <3>1, RowNone
  <2> QED BY <2>1, <2>2, <2>3
<1> QED BY <1>1 DEF Row

LEMMA RowOfOthers ==
  ASSUME NEW r, NEW l, NEW m, GoodList(r, l), GoodList(r, m), DOMAIN m = DOMAIN l,
         \A k \in DOMAIN m : m[k].rid = l[k].rid,
         \A k \in DOMAIN m : m[k].rid # r => m[k] = l[k]
  PROVE  Row(r, m) = Row(r, l)
<1>1. \A i, j \in DOMAIN m : m[i].rid = m[j].rid => i = j
  BY DEF GoodList
<1>2. \A k \in DOMAIN m : /\ m[k].rid = l[k].rid
                           /\ m[k].rid # r => m[k].seq = l[k].seq /\ m[k].ifs = l[k].ifs
  OBVIOUS
<1> QED BY <1>1, <1>2, RowSame

LEMMA ViewIsRows == View = [r \in Routers |-> Row(r, st[r].list)]
  BY DEF View, Row

-----------------------------------------------------------------------------
(* Flooding from x: the own entry gets a new number and copies of the      *)
(* entry as it was join the queue, or the state keeps both.                *)
Flooded(r, x, y) ==
  /\ Good(r, y)
  /\ y.hello = x.hello
  /\ DOMAIN y.list = DOMAIN x.list
  /\ \A k \in DOMAIN x.list : /\ y.list[k].rid = x.list[k].rid
                              /\ y.list[k].ifs = x.list[k].ifs
                              /\ k # 1 => y.list[k].seq = x.list[k].seq
  /\ \A m \in y.queue :
       \/ m \in x.queue
       \/ /\ m.rid = r /\ m.seq = x.list[1].seq /\ m.ifs = x.list[1].ifs
          /\ y.list[1].seq # x.list[1].seq

LEMMA FloodedRefl ==
  ASSUME NEW r, NEW x, Good(r, x)
  PROVE  Flooded(r, x, x)
BY DEF Flooded

LEMMA SignalFacts ==
  ASSUME NEW r, NEW x, NEW y, Flooded(r, x, y)
  PROVE  /\ Flooded(r, x, Signal(y))
         /\ Signal(y).active = y.active
<1>1. y \in RState(r) /\ GoodList(r, y.list)
  BY DEF Flooded, Good
<1>2. /\ Signal(y) \in RState(r)
      /\ Signal(y).list = y.list /\ Signal(y).queue = y.queue
      /\ Signal(y).hello = y.hello /\ Signal(y).active = y.active
  BY <1>1 DEF Signal, RState
<1> QED BY <1>1, <1>2 DEF Flooded, Good

(* broadcast_pwospf_lsu_packet only adds copies of the LSU. *)
LEMMA BroadcastFacts ==
  ASSUME NEW r \in Routers, NEW x \in RState(r), NEW lsu, NEW not,
         lsu.rid \in Routers, lsu.seq \in Seqs, lsu.ifs \subseteq Ifaces,
         lsu.ttl \in 1 .. Ttl0
  PROVE  LET b == Broadcast(r, x, lsu, not) IN
         /\ b \in RState(r)
         /\ b.list = x.list /\ b.hello = x.hello /\ b.active = x.active
         /\ \A m \in b.queue :
              m \in x.queue \/ (m.rid = lsu.rid /\ m.seq = lsu.seq /\ m.ifs = lsu.ifs)
<1> DEFINE ns == {n \in On : n[2] \in SubnetsOf(r) /\ x.up[n[2]]
                              /\ n[1] \in x.nbrs[n[2]] /\ n # not}
           copy(n) == [rid |-> lsu.rid, seq |-> lsu.seq, ifs |-> lsu.ifs,
                       ttl |-> lsu.ttl, to |-> n[1], from |-> r, sub |-> n[2]]
           copies == {copy(n) : n \in ns}
<1>1. \A n \in ns : n[1] \in Routers /\ n[2] \in Subnets
  BY PwospfAssumption
<1>2. \A n \in ns : copy(n) \in Lsus
  BY <1>1 DEF Lsus
<1>3. \A m \in copies : m \in Lsus /\ m.rid = lsu.rid /\ m.seq = lsu.seq /\ m.ifs = lsu.ifs
  BY <1>2
<1>4. Broadcast(r, x, lsu, not) = [x EXCEPT !.queue = x.queue \cup copies]
  BY DEF Broadcast
<1> HIDE DEF copies
<1> QED BY <1>3, <1>4 DEF RState

LEMMA FloodFacts ==
  ASSUME NEW r \in Routers, NEW x, Good(r, x)
  PROVE  /\ Flooded(r, x, StartLsuBcastFlood(r, x))
         /\ StartLsuBcastFlood(r, x).active = x.active
<1>1. CASE ~x.sends
  BY <1>1, FloodedRefl DEF StartLsuBcastFlood
<1>2. CASE x.sends
  <2> DEFINE own == x.list[1]
             own2 == [own EXCEPT !.seq = NextSeq(own.seq)]
             l2 == [x.list EXCEPT ![1] = own2]
             x2 == [x EXCEPT !.list = l2]
             lsu == [rid |-> r, seq |-> own.seq, ifs |-> own.ifs, ttl |-> Ttl0]
             b == Broadcast(r, x2, lsu, None)
  <2>1. StartLsuBcastFlood(r, x) = b
    BY <1>2 DEF StartLsuBcastFlood
  <2>2. /\ x \in RState(r) /\ x.list \in Seq(Entries) /\ Len(x.list) > 0 /\ own.rid = r
        /\ \A i, j \in DOMAIN x.list : x.list[i].rid = x.list[j].rid => i = j
    BY DEF Good, GoodList
  <2>3. 1 \in DOMAIN x.list /\ own \in Entries
    BY <2>2
  <2>4. /\ own.seq \in Seqs /\ NextSeq(own.seq) \in Seqs /\ NextSeq(own.seq) # own.seq
    BY <2>3, NextSeqFacts DEF Entries
  <2>5. /\ own2 \in Entries /\ own2.rid = own.rid /\ own2.ifs = own.ifs
        /\ own2.seq = NextSeq(own.seq)
    BY <2>3, <2>4 DEF Entries
  <2> HIDE DEF own2
  <2>6. /\ l2 \in Seq(Entries) /\ Len(l2) = Len(x.list) /\ DOMAIN l2 = DOMAIN x.list
        /\ l2[1] = own2 /\ \A k \in DOMAIN x.list : k # 1 => l2[k] = x.list[k]
    BY <2>2, <2>3, <2>5
  <2> HIDE DEF l2
  <2>7. \A k \in DOMAIN x.list : l2[k].rid = x.list[k].rid /\ l2[k].ifs = x.list[k].ifs
    BY <2>5, <2>6
  <2>8. GoodList(r, l2)
    BY <2>2, <2>3, <2>6, <2>7 DEF GoodList
  <2>9. /\ x2 \in RState(r) /\ x2.list = l2 /\ x2.hello = x.hello
        /\ x2.active = x.active /\ x2.queue = x.queue
    BY <2>2, <2>6 DEF RState
  <2> HIDE DEF x2
  <2>10. /\ lsu.rid = r /\ lsu.seq = own.seq /\ lsu.ifs = own.ifs /\ lsu.ttl \in 1 .. Ttl0
         /\ lsu.ifs \subseteq Ifaces
    BY <2>3, PwospfAssumption DEF Entries
  <2> HIDE DEF lsu
  <2>11. /\ b \in RState(r)
         /\ b.list = x2.list /\ b.hello = x2.hello /\ b.active = x2.active
         /\ \A m \in b.queue :
              m \in x2.queue \/ (m.rid = lsu.rid /\ m.seq = lsu.seq /\ m.ifs = lsu.ifs)
    BY <2>4, <2>9, <2>10, BroadcastFacts
  <2> HIDE DEF b
  <2>12. Flooded(r, x, b)
    BY <2>4, <2>5, <2>6, <2>7, <2>8, <2>9, <2>10, <2>11 DEF Flooded, Good
  <2> QED BY <2>1, <2>9, <2>11, <2>12
<1>3. x.sends \in BOOLEAN
  BY DEF Good, RState
<1> QED BY <1>1, <1>2, <1>3

(* propagate_pwospf_changes leaves fresh flags. *)
LEMMA PropagateFacts ==
  ASSUME NEW r \in Routers, NEW x, Good(r, x)
  PROVE  Flooded(r, x, Propagate(r, x)) /\ Fresh(Propagate(r, x))
<1> DEFINE x2 == [x EXCEPT !.active = ActiveIfaces(x.list)]
           y == StartLsuBcastFlood(r, x2)
<1>1. x \in RState(r) /\ x.list \in Seq(Entries)
  BY DEF Good, GoodList
<1>2. /\ x2 \in RState(r) /\ x2.list = x.list /\ x2.hello = x.hello /\ x2.queue = x.queue
      /\ x2.active = ActiveIfaces(x.list)
  BY <1>1, ActiveType DEF RState
<1> HIDE DEF x2
<1>3. Good(r, x2)
  BY <1>2 DEF Good
<1>4. Flooded(r, x2, y) /\ y.active = x2.active
  BY <1>3, FloodFacts
<1>5. Propagate(r, x) = y
  BY DEF Propagate, x2
<1> HIDE DEF y
<1>6. ActiveIfaces(y.list) = ActiveIfaces(x.list)
  <2>1. DOMAIN y.list = DOMAIN x.list
    BY <1>2, <1>4 DEF Flooded
  <2>2. \A k \in DOMAIN y.list : y.list[k].rid = x.list[k].rid /\ y.list[k].ifs = x.list[k].ifs
    BY <1>2, <1>4 DEF Flooded
  <2> QED BY <2>1, <2>2, ActiveSame
<1> QED BY <1>2, <1>4, <1>5, <1>6 DEF Flooded, Fresh

LEMMA SignalFresh ==
  ASSUME NEW r, NEW x, NEW y, Flooded(r, x, y), Fresh(y)
  PROVE  Flooded(r, x, Signal(y)) /\ Fresh(Signal(y))
<1>1. Flooded(r, x, Signal(y)) /\ Signal(y).active = y.active
  BY SignalFacts
<1>2. Signal(y).list = y.list /\ Signal(y).hello = y.hello
  BY DEF Signal, Flooded, Good, RState
<1>3. Fresh(Signal(y))
  BY <1>1, <1>2 DEF Fresh
<1> QED BY <1>1, <1>3

LEMMA PropagateSignalFacts ==
  ASSUME NEW r \in Routers, NEW x, Good(r, x)
  PROVE  Flooded(r, x, Signal(Propagate(r, x))) /\ Fresh(Signal(Propagate(r, x)))
BY PropagateFacts, SignalFresh

-----------------------------------------------------------------------------
(* The invariant and what the readers of the databases see, for a step of  *)
(* router r that makes its state x and then floods or not.                 *)
LEMMA HandlerStep ==
  ASSUME IInv, NEW r \in Routers, NEW x, NEW y,
         Good(r, x), Backed(r, x, said), x.list[1].seq = st[r].list[1].seq,
         Flooded(r, x, y), Fresh(y), Becomes(r, y),
         net' \subseteq Lsus, \A m \in net' : Told(m, said),
         events' \in 0 .. MaxEvents
  PROVE  /\ IInv'
         /\ said' = said \/ Abstract!Publish(r)
         /\ View' = [View EXCEPT ![r] = Row(r, x.list)]
<1> DEFINE n == <<st[r].list[1].seq, y.list[1].ifs>>
<1>a. /\ st' = [st EXCEPT ![r] = y]
      /\ said' = IF y.list[1].seq # st[r].list[1].seq
                 THEN [said EXCEPT ![r] = said[r] \cup {n}] ELSE said
  BY DEF Becomes, Says
<1>b. /\ st = [q \in Routers |-> st[q]]
      /\ said \in [Routers -> SUBSET (Seqs \X SUBSET Ifaces)]
      /\ \A q \in Routers : Good(q, st[q]) /\ Backed(q, st[q], said) /\ Fresh(st[q])
  BY DEF IInv
<1>c. GoodList(r, x.list) /\ GoodList(r, y.list) /\ Good(r, y)
  BY DEF Flooded, Good
<1>d. 1 \in DOMAIN x.list /\ x.list[1] \in Entries /\ x.list[1].rid = r
      /\ 1 \in DOMAIN y.list /\ y.list[1] \in Entries
  BY <1>c DEF GoodList
<1>e. /\ y.list[1].ifs = x.list[1].ifs
      /\ n \in Seqs \X SUBSET Ifaces
  BY <1>d DEF Flooded, Entries
<1>1. /\ st'[r] = y /\ \A q \in Routers : q # r => st'[q] = st[q]
      /\ st' = [q \in Routers |-> st'[q]]
  BY <1>a, <1>b
<1>2. /\ said' \in [Routers -> SUBSET (Seqs \X SUBSET Ifaces)]
      /\ \A q \in Routers : said[q] \subseteq said'[q]
      /\ y.list[1].seq # st[r].list[1].seq => n \in said'[r]
  <2> HIDE DEF n
  <2> QED BY <1>a, <1>b, <1>e
<1>3. said' = said \/ Abstract!Publish(r)
  <2>1. CASE y.list[1].seq = st[r].list[1].seq
    BY <2>1, <1>a
  <2>2. CASE y.list[1].seq # st[r].list[1].seq
    <3>1. n \in said'[r] /\ said' = [said EXCEPT ![r] = said[r] \cup {n}]
      BY <2>2, <1>2, <1>a
    <3>2. said'[r] \subseteq Seqs \X SUBSET Ifaces
      BY <1>2
    <3> HIDE DEF n
    <3> QED BY <3>1, <3>2 DEF Abstract!Publish
  <2> QED BY <2>1, <2>2
<1>4. ASSUME NEW m, m.rid \in Routers, Told(m, said) PROVE Told(m, said)'
  BY <1>4, <1>2 DEF Told
<1>5. Backed(r, y, said')
  <2>1. ASSUME NEW m \in y.queue PROVE Told(m, said')
    <3>1. m.rid \in Routers
      BY <1>c DEF Good, RState, Lsus
    <3>2. CASE m \in x.queue
      BY <3>1, <3>2, <1>2 DEF Backed, Told
    <3>3. CASE m \notin x.queue
      <4>1. /\ m.rid = r /\ m.seq = x.list[1].seq /\ m.ifs = x.list[1].ifs
            /\ y.list[1].seq # x.list[1].seq
        BY <3>3 DEF Flooded
      <4>2. <<m.seq, m.ifs>> = n
        BY <4>1, <1>e
      <4> QED BY <4>1, <4>2, <1>2 DEF Told
    <3> QED BY <3>2, <3>3
  <2>2. ASSUME NEW k \in DOMAIN y.list, y.list[k].rid # r PROVE Told(y.list[k], said')
    <3>1. /\ k \in DOMAIN x.list /\ k # 1
          /\ y.list[k].rid = x.list[k].rid /\ y.list[k].ifs = x.list[k].ifs
          /\ y.list[k].seq = x.list[k].seq
      BY <2>2, <1>d DEF Flooded
    <3>2. x.list[k].rid \in Routers
      BY <3>1, <1>c, EntryAt
    <3>3. Told(x.list[k], said)
      BY <2>2, <3>1 DEF Backed
    <3> QED BY <3>1, <3>2, <3>3, <1>2 DEF Told
  <2> QED BY <2>1, <2>2 DEF Backed
<1>6. ASSUME NEW q \in Routers, q # r PROVE Backed(q, st[q], said')
  <2>1. Good(q, st[q]) /\ Backed(q, st[q], said)
    BY <1>b
  <2>2. \A m \in st[q].queue : m.rid \in Routers
    BY <2>1 DEF Good, RState, Lsus
  <2>3. \A k \in DOMAIN st[q].list : st[q].list[k].rid \in Routers
    BY <2>1, EntryAt DEF Good
  <2> QED BY <2>1, <2>2, <2>3, <1>2 DEF Backed, Told
<1>7. \A m \in net' : Told(m, said')
  BY <1>2 DEF Told, Lsus
<1>8. IInv'
  <2>1. ASSUME NEW q \in Routers
        PROVE  Good(q, st'[q]) /\ Backed(q, st'[q], said') /\ Fresh(st'[q])
    <3>1. CASE q = r
      BY <3>1, <1>1, <1>5, <1>c
    <3>2. CASE q # r
      BY <3>2, <1>1, <1>6, <1>b
    <3> QED BY <3>1, <3>2
  <2> QED BY <2>1, <1>1, <1>2, <1>7 DEF IInv
<1>9. View' = [View EXCEPT ![r] = Row(r, x.list)]
  <2>1. View' = [q \in Routers |-> Row(q, st'[q].list)]
    BY DEF View, Row
  <2>2. Row(r, x.list) = Row(r, y.list)
    <3>1. /\ DOMAIN x.list = DOMAIN y.list
          /\ \A i, j \in DOMAIN x.list : x.list[i].rid = x.list[j].rid => i = j
      BY <1>c DEF Flooded, GoodList
    <3>2. \A k \in DOMAIN x.list :
             /\ x.list[k].rid = y.list[k].rid
             /\ x.list[k].rid # r => /\ x.list[k].seq = y.list[k].seq
                                     /\ x.list[k].ifs = y.list[k].ifs
      BY <1>d DEF Flooded
    <3> QED BY <3>1, <3>2, RowSame
  <2> QED BY <2>1, <2>2, <1>1, ViewIsRows
<1> QED BY <1>3, <1>8, <1>9

(* The abstract step when what r holds of others stays. *)
LEMMA QuietAbstract ==
  ASSUME NEW r \in Routers, said' = said \/ Abstract!Publish(r),
         View' = [View EXCEPT ![r] = Row(r, st[r].list)]
  PROVE  Abstract!Next
<1>1. View' = View
  BY ViewIsRows
<1> QED BY <1>1 DEF Abstract!Next

(* Changing the interfaces of the own entry, the head of the list. *)
LEMMA OwnEdit ==
  ASSUME NEW r \in Routers, NEW l, GoodList(r, l), NEW ifs \in SUBSET Ifaces
  PROVE  LET l2 == [l EXCEPT ![1] = [l[1] EXCEPT !.ifs = ifs]] IN
         /\ GoodList(r, l2) /\ l2[1].seq = l[1].seq
         /\ DOMAIN l2 = DOMAIN l
         /\ \A k \in DOMAIN l2 : l2[k].rid # r => l2[k] = l[k]
         /\ Row(r, l2) = Row(r, l)
<1> DEFINE e == [l[1] EXCEPT !.ifs = ifs]
           l2 == [l EXCEPT ![1] = e]
<1>1. /\ l \in Seq(Entries) /\ 1 \in DOMAIN l /\ l[1].rid = r /\ l[1] \in Entries
      /\ \A i, j \in DOMAIN l : l[i].rid = l[j].rid => i = j
  BY DEF GoodList
<1>2. e \in Entries /\ e.rid = r /\ e.seq = l[1].seq
  BY <1>1 DEF Entries
<1> HIDE DEF e
<1>4. /\ l2 \in Seq(Entries) /\ Len(l2) = Len(l) /\ DOMAIN l2 = DOMAIN l
      /\ l2[1] = e /\ \A k \in DOMAIN l : k # 1 => l2[k] = l[k]
  BY <1>1, <1>2
<1> HIDE DEF l2
<1>5. \A k \in DOMAIN l : l2[k].rid = l[k].rid
  BY <1>1, <1>2, <1>4
<1>6. GoodList(r, l2)
  BY <1>1, <1>2, <1>4, <1>5 DEF GoodList
<1>7. \A k \in DOMAIN l2 : l2[k].rid # r => l2[k] = l[k]
  BY <1>1, <1>2, <1>4
<1>8. Row(r, l2) = Row(r, l)
  BY <1>1, <1>4, <1>5, <1>6, <1>7, RowOfOthers
<1> QED BY <1>2, <1>4, <1>6, <1>7, <1>8 DEF l2, e

-----------------------------------------------------------------------------
(* x is r's state with edits that its readers do not see. *)
Edited(r, x) ==
  /\ Good(r, x) /\ Backed(r, x, said)
  /\ x.list[1].seq = st[r].list[1].seq
  /\ Row(r, x.list) = Row(r, st[r].list)

LEMMA QuietStep ==
  ASSUME IInv, NEW r \in Routers, NEW x, NEW y,
         Edited(r, x), Flooded(r, x, y), Fresh(y), Becomes(r, y),
         net' \subseteq Lsus, \A m \in net' : Told(m, said),
         events' \in 0 .. MaxEvents
  PROVE  IInv' /\ Abstract!Next
<1>1. Good(r, x) /\ Backed(r, x, said) /\ x.list[1].seq = st[r].list[1].seq
  BY DEF Edited
<1>2. /\ IInv'
      /\ said' = said \/ Abstract!Publish(r)
      /\ View' = [View EXCEPT ![r] = Row(r, x.list)]
  BY <1>1, HandlerStep
<1>3. View' = [View EXCEPT ![r] = Row(r, st[r].list)]
  BY <1>2 DEF Edited
<1> QED BY <1>2, <1>3, QuietAbstract

LEMMA Parts ==
  ASSUME IInv, NEW r \in Routers
  PROVE  /\ Good(r, st[r]) /\ Backed(r, st[r], said) /\ Fresh(st[r])
         /\ st[r] \in RState(r) /\ GoodList(r, st[r].list)
         /\ st[r].list[1].ifs \in SUBSET Ifaces
         /\ \A m \in net : m \in Lsus /\ Told(m, said)
<1>1. Good(r, st[r]) /\ GoodList(r, st[r].list)
  BY DEF IInv, Good
<1>2. 1 \in DOMAIN st[r].list
  BY <1>1 DEF GoodList
<1>3. st[r].list[1].ifs \in SUBSET Ifaces
  BY <1>1, <1>2, EntryAt
<1> QED BY <1>1, <1>3 DEF IInv, Good

LEMMA EventType ==
  ASSUME IInv, Event
  PROVE  events' \in 0 .. MaxEvents
BY PwospfAssumption DEF IInv, Event

LEMMA EditedSame ==
  ASSUME IInv, NEW r \in Routers, NEW x \in RState(r),
         x.list = st[r].list, x.queue \subseteq st[r].queue
  PROVE  Edited(r, x)
<1>1. GoodList(r, x.list) /\ Backed(r, st[r], said)
  BY Parts
<1> QED BY <1>1 DEF Edited, Good, Backed

LEMMA EditedOwn ==
  ASSUME IInv, NEW r \in Routers, NEW x \in RState(r), NEW ifs \in SUBSET Ifaces,
         x.list = [st[r].list EXCEPT ![1] = [st[r].list[1] EXCEPT !.ifs = ifs]],
         x.queue = st[r].queue
  PROVE  Edited(r, x)
<1> DEFINE l == st[r].list
           l2 == [l EXCEPT ![1] = [l[1] EXCEPT !.ifs = ifs]]
<1>1. GoodList(r, l) /\ Backed(r, st[r], said)
  BY Parts
<1>2. x.list = l2
  OBVIOUS
<1> HIDE DEF l
<1>3. /\ GoodList(r, l2) /\ l2[1].seq = l[1].seq
      /\ DOMAIN l2 = DOMAIN l
      /\ \A k \in DOMAIN l2 : l2[k].rid # r => l2[k] = l[k]
      /\ Row(r, l2) = Row(r, l)
  BY <1>1, OwnEdit
<1> HIDE DEF l2
<1>4. \A k \in DOMAIN l2 : l2[k].rid # r => Told(l2[k], said)
  BY <1>1, <1>3 DEF Backed, l
<1>5. \A m \in x.queue : Told(m, said)
  BY <1>1 DEF Backed
<1>6. Backed(r, x, said)
  BY <1>2, <1>4, <1>5, Zenon DEF Backed
<1> QED BY <1>2, <1>3, <1>6 DEF Edited, Good, l

-----------------------------------------------------------------------------
LEMMA ProcessHelloStep ==
  ASSUME IInv, NEW r \in Routers, NEW s \in SubnetsOf(r), NEW n \in Routers,
         ProcessHello(r, s, n)
  PROVE  IInv' /\ Abstract!Next
<1> DEFINE x    == st[r]
           ifs  == (x.list[1].ifs \ {<<s, None>>}) \cup {<<s, n>>}
           l2   == [x.list EXCEPT ![1] = [x.list[1] EXCEPT !.ifs = ifs]]
           y    == [x EXCEPT !.nbrs = [x.nbrs EXCEPT ![s] = x.nbrs[s] \cup {n}],
                             !.list = l2]
<1>a. /\ n # r /\ Event /\ net' = net
      /\ Becomes(r, Signal(Propagate(r, y)))
  BY DEF ProcessHello
<1>b. /\ x \in RState(r) /\ GoodList(r, x.list) /\ x.list[1].ifs \in SUBSET Ifaces
      /\ \A m \in net : m \in Lsus /\ Told(m, said)
  BY Parts
<1>1. ifs \in SUBSET Ifaces
  BY <1>b DEF Ifaces, SubnetsOf
<1> HIDE DEF ifs
<1>2. l2 \in Seq(Entries)
  BY <1>b, <1>1, OwnEdit DEF GoodList
<1>3. y \in RState(r) /\ y.list = l2 /\ y.queue = x.queue
  <2> HIDE DEF l2
  <2> QED BY <1>a, <1>b, <1>2 DEF RState
<1> HIDE DEF y
<1>4. Edited(r, y)
  BY <1>1, <1>3, EditedOwn
<1>5. /\ Flooded(r, y, Signal(Propagate(r, y)))
      /\ Fresh(Signal(Propagate(r, y)))
  BY <1>4, PropagateSignalFacts DEF Edited
<1> QED BY <1>a, <1>b, <1>4, <1>5, EventType, QuietStep

LEMMA TimeOutNeighboursStep ==
  ASSUME IInv, NEW r \in Routers, NEW s \in SubnetsOf(r), NEW gone \in SUBSET Routers,
         TimeOutNeighbours(r, s, gone)
  PROVE  IInv' /\ Abstract!Next
<1> DEFINE x     == st[r]
           onS   == {i \in x.list[1].ifs : i[1] = s}
           left  == onS \ ({s} \X gone)
           ifs   == (x.list[1].ifs \ onS) \cup (IF left = {} THEN {<<s, None>>} ELSE left)
           l2    == [x.list EXCEPT ![1] = [x.list[1] EXCEPT !.ifs = ifs]]
           y     == [x EXCEPT !.nbrs = [x.nbrs EXCEPT ![s] = x.nbrs[s] \ gone],
                              !.list = l2, !.hello = "changed"]
<1>a. Event /\ net' = net /\ Becomes(r, y)
  BY DEF TimeOutNeighbours
<1>b. /\ x \in RState(r) /\ GoodList(r, x.list) /\ x.list[1].ifs \in SUBSET Ifaces
      /\ \A m \in net : m \in Lsus /\ Told(m, said)
  BY Parts
<1>1. ifs \in SUBSET Ifaces
  BY <1>b DEF Ifaces, SubnetsOf
<1> HIDE DEF ifs
<1>2. l2 \in Seq(Entries)
  BY <1>b, <1>1, OwnEdit DEF GoodList
<1>3. y \in RState(r) /\ y.list = l2 /\ y.queue = x.queue /\ y.hello = "changed"
  <2> HIDE DEF l2
  <2> QED BY <1>a, <1>b, <1>2 DEF RState
<1> HIDE DEF y
<1>4. Edited(r, y)
  BY <1>1, <1>3, EditedOwn
<1>5. Flooded(r, y, y) /\ Fresh(y)
  BY <1>3, <1>4, FloodedRefl DEF Edited, Fresh
<1> QED BY <1>a, <1>b, <1>4, <1>5, EventType, QuietStep

LEMMA IfaceUpStep ==
  ASSUME IInv, NEW r \in Routers, NEW s \in SubnetsOf(r), IfaceUp(r, s)
  PROVE  IInv' /\ Abstract!Next
<1> DEFINE x    == st[r]
           ifs  == x.list[1].ifs \cup {<<s, None>>}
           l2   == [x.list EXCEPT ![1] = [x.list[1] EXCEPT !.ifs = ifs]]
           y    == [x EXCEPT !.up = [x.up EXCEPT ![s] = TRUE],
                             !.nbrs = [x.nbrs EXCEPT ![s] = {}],
                             !.list = l2]
<1>a. /\ Event /\ net' = net
      /\ Becomes(r, Signal(Propagate(r, y)))
  BY DEF IfaceUp
<1>b. /\ x \in RState(r) /\ GoodList(r, x.list) /\ x.list[1].ifs \in SUBSET Ifaces
      /\ \A m \in net : m \in Lsus /\ Told(m, said)
  BY Parts
<1>1. ifs \in SUBSET Ifaces
  BY <1>b DEF Ifaces, SubnetsOf
<1> HIDE DEF ifs
<1>2. l2 \in Seq(Entries)
  BY <1>b, <1>1, OwnEdit DEF GoodList
<1>3. y \in RState(r) /\ y.list = l2 /\ y.queue = x.queue
  <2> HIDE DEF l2
  <2> QED BY <1>a, <1>b, <1>2 DEF RState
<1> HIDE DEF y
<1>4. Edited(r, y)
  BY <1>1, <1>3, EditedOwn
<1>5. /\ Flooded(r, y, Signal(Propagate(r, y)))
      /\ Fresh(Signal(Propagate(r, y)))
  BY <1>4, PropagateSignalFacts DEF Edited
<1> QED BY <1>a, <1>b, <1>4, <1>5, EventType, QuietStep

(* An interface whose removal leaves the list as it was is not propagated, *)
(* and need not be.                                                        *)
LEMMA IfaceDownStep ==
  ASSUME IInv, NEW r \in Routers, NEW s \in SubnetsOf(r), IfaceDown(r, s)
  PROVE  IInv' /\ Abstract!Next
<1> DEFINE x    == st[r]
           ifs  == {i \in x.list[1].ifs : i[1] # s}
           l2   == [x.list EXCEPT ![1] = [x.list[1] EXCEPT !.ifs = ifs]]
           y    == [x EXCEPT !.up = [x.up EXCEPT ![s] = FALSE], !.list = l2]
           z    == IF ifs # x.list[1].ifs THEN Signal(Propagate(r, y)) ELSE y
<1>a. Event /\ net' = net /\ Becomes(r, z)
  BY DEF IfaceDown
<1>b. /\ x \in RState(r) /\ GoodList(r, x.list) /\ x.list[1].ifs \in SUBSET Ifaces
      /\ \A m \in net : m \in Lsus /\ Told(m, said)
      /\ Fresh(x)
  BY Parts
<1>1. ifs \in SUBSET Ifaces
  BY <1>b
<1> HIDE DEF ifs
<1>2. l2 \in Seq(Entries)
  BY <1>b, <1>1, OwnEdit DEF GoodList
<1>3. /\ y \in RState(r) /\ y.list = l2 /\ y.queue = x.queue
      /\ y.hello = x.hello /\ y.active = x.active
  <2> HIDE DEF l2
  <2> QED BY <1>a, <1>b, <1>2 DEF RState
<1> HIDE DEF y
<1>4. Edited(r, y)
  BY <1>1, <1>3, EditedOwn
<1>5. Flooded(r, y, z) /\ Fresh(z)
  <2>1. CASE ifs # x.list[1].ifs
    BY <2>1, <1>4, PropagateSignalFacts DEF Edited
  <2>2. CASE ifs = x.list[1].ifs
    <3>1. l2 = x.list
      <4>1. x.list \in Seq(Entries) /\ 1 \in DOMAIN x.list /\ x.list[1] \in Entries
        BY <1>b DEF GoodList
      <4>2. [x.list[1] EXCEPT !.ifs = ifs] = x.list[1]
        BY <2>2, <4>1 DEF Entries
      <4> QED BY <4>1, <4>2
    <3>2. Fresh(y)
      BY <3>1, <1>b, <1>3 DEF Fresh
    <3> QED BY <2>2, <3>2, <1>4, FloodedRefl DEF Edited
  <2> QED BY <2>1, <2>2
<1> HIDE DEF z
<1> QED BY <1>a, <1>b, <1>4, <1>5, EventType, QuietStep

-----------------------------------------------------------------------------
LEMMA PropagateTimeoutsStep ==
  ASSUME IInv, NEW r \in Routers, PropagateTimeouts(r)
  PROVE  IInv' /\ Abstract!Next
<1> DEFINE x == st[r]
           y == [x EXCEPT !.hello = "idle"]
<1>a. /\ net' = net /\ events' = events
      /\ Becomes(r, Signal(Propagate(r, y)))
  BY DEF PropagateTimeouts
<1>b. /\ x \in RState(r)
      /\ \A m \in net : m \in Lsus /\ Told(m, said)
  BY Parts
<1>1. y \in RState(r) /\ y.list = x.list /\ y.queue \subseteq x.queue
  BY <1>b DEF RState
<1> HIDE DEF y
<1>2. Edited(r, y)
  BY <1>1, EditedSame
<1>3. /\ Flooded(r, y, Signal(Propagate(r, y)))
      /\ Fresh(Signal(Propagate(r, y)))
  BY <1>2, PropagateSignalFacts DEF Edited
<1>4. events' \in 0 .. MaxEvents
  BY <1>a DEF IInv
<1> QED BY <1>a, <1>b, <1>2, <1>3, <1>4, QuietStep

LEMMA LsuThreadStep ==
  ASSUME IInv, NEW r \in Routers, LsuThread(r)
  PROVE  IInv' /\ Abstract!Next
<1> DEFINE x == st[r]
           y == StartLsuBcastFlood(r, x)
<1>a. /\ net' = net
      /\ Stranded(r) \/ events < MaxEvents
      /\ events' = IF Stranded(r) THEN events ELSE events + 1
      /\ Becomes(r, Signal(y))
  BY DEF LsuThread
<1>b. /\ x \in RState(r) /\ Good(r, x) /\ Fresh(x)
      /\ \A m \in net : m \in Lsus /\ Told(m, said)
  BY Parts
<1>1. Edited(r, x)
  BY <1>b, EditedSame
<1>2. Flooded(r, x, y) /\ y.active = x.active
  BY <1>b, FloodFacts
<1> HIDE DEF y
<1>3. Flooded(r, x, Signal(y)) /\ Signal(y).active = x.active
  BY <1>2, SignalFacts
<1>4. Fresh(Signal(y))
  <2> DEFINE z == Signal(y)
  <2> HIDE DEF z
  <2>1. Flooded(r, x, z) /\ z.active = x.active
    BY <1>3 DEF z
  <2>2. DOMAIN z.list = DOMAIN x.list /\ z.hello = x.hello
    BY <2>1 DEF Flooded
  <2>3. \A k \in DOMAIN z.list : z.list[k].rid = x.list[k].rid /\ z.list[k].ifs = x.list[k].ifs
    BY <2>1 DEF Flooded
  <2>4. ActiveIfaces(z.list) = ActiveIfaces(x.list)
    BY <2>2, <2>3, ActiveSame
  <2>5. Fresh(z)
    BY <2>1, <2>2, <2>4, <1>b DEF Fresh
  <2> QED BY <2>5 DEF z
<1>5. events' \in 0 .. MaxEvents
  BY <1>a, PwospfAssumption DEF IInv
<1> QED BY <1>a, <1>b, <1>1, <1>3, <1>4, <1>5, QuietStep

LEMMA BcastTakeStep ==
  ASSUME IInv, NEW r \in Routers, BcastTake(r)
  PROVE  IInv' /\ Abstract!Next
<1> DEFINE x == st[r]
           y == [x EXCEPT !.queue = {}, !.bcast = "send"]
<1>a. events' = events /\ Becomes(r, y)
  BY DEF BcastTake
<1>b. /\ x \in RState(r) /\ Backed(r, x, said) /\ Fresh(x)
      /\ \A m \in net : m \in Lsus /\ Told(m, said)
  BY Parts
<1>c. PICK arriving \in SUBSET x.queue : net' = net \cup arriving
  BY DEF BcastTake
<1>1. x.queue \subseteq Lsus /\ \A m \in x.queue : Told(m, said)
  BY <1>b DEF RState, Backed
<1>2. net' \subseteq Lsus /\ \A m \in net' : Told(m, said)
  BY <1>b, <1>c, <1>1
<1>3. /\ y \in RState(r) /\ y.list = x.list /\ y.queue \subseteq x.queue
      /\ y.hello = x.hello /\ y.active = x.active
  BY <1>b DEF RState
<1> HIDE DEF y
<1>4. Edited(r, y) /\ Fresh(y)
  BY <1>b, <1>3, EditedSame DEF Fresh
<1>5. Flooded(r, y, y)
  BY <1>4, FloodedRefl DEF Edited
<1>6. events' \in 0 .. MaxEvents
  BY <1>a DEF IInv
<1> QED BY <1>a, <1>2, <1>4, <1>5, <1>6, QuietStep

LEMMA BcastWaitStep ==
  ASSUME IInv, NEW r \in Routers, BcastWait(r)
  PROVE  IInv' /\ Abstract!Next
<1> DEFINE x == st[r]
           y == [x EXCEPT !.bcast = "wait"]
<1>a. net' = net /\ events' = events /\ Becomes(r, y)
  BY DEF BcastWait
<1>b. /\ x \in RState(r) /\ Fresh(x)
      /\ \A m \in net : m \in Lsus /\ Told(m, said)
  BY Parts
<1>1. /\ y \in RState(r) /\ y.list = x.list /\ y.queue \subseteq x.queue
      /\ y.hello = x.hello /\ y.active = x.active
  BY <1>b DEF RState
<1> HIDE DEF y
<1>2. Edited(r, y) /\ Fresh(y)
  BY <1>b, <1>1, EditedSame DEF Fresh
<1>3. Flooded(r, y, y)
  BY <1>2, FloodedRefl DEF Edited
<1>4. events' \in 0 .. MaxEvents
  BY <1>a DEF IInv
<1> QED BY <1>a, <1>b, <1>2, <1>3, <1>4, QuietStep

LEMMA CliStep ==
  ASSUME IInv, NEW r \in Routers, CliSetLsuBroadcast(r)
  PROVE  IInv' /\ Abstract!Next
<1> DEFINE x == st[r]
           y == [x EXCEPT !.sends = ~x.sends]
<1>a. net' = net /\ Event /\ Becomes(r, y)
  BY DEF CliSetLsuBroadcast
<1>b. /\ x \in RState(r) /\ Fresh(x)
      /\ \A m \in net : m \in Lsus /\ Told(m, said)
  BY Parts
<1>1. /\ y \in RState(r) /\ y.list = x.list /\ y.queue \subseteq x.queue
      /\ y.hello = x.hello /\ y.active = x.active
  BY <1>b DEF RState
<1> HIDE DEF y
<1>2. Edited(r, y) /\ Fresh(y)
  BY <1>b, <1>1, EditedSame DEF Fresh
<1>3. Flooded(r, y, y)
  BY <1>2, FloodedRefl DEF Edited
<1> QED BY <1>a, <1>b, <1>2, <1>3, EventType, QuietStep

-----------------------------------------------------------------------------
(* The places of list l that keep their router when those of gone go. *)
Kept(l, gone) == {k \in DOMAIN l : l[k].rid \notin gone}

(* f runs through them in their order. *)
Selects(f, l, gone) ==
  /\ f \in [1 .. Cardinality(Kept(l, gone)) -> Kept(l, gone)]
  /\ \A i, j \in DOMAIN f : i < j => f[i] < f[j]
  /\ \A k \in Kept(l, gone) : \E j \in DOMAIN f : f[j] = k

(* The entries of list l at the places f[1], f[2], ... *)
At(l, f) == [j \in DOMAIN f |-> l[f[j]]]

(* A list without the routers of gone, the others in their order. *)
LEMMA KeptList ==
  ASSUME NEW r \in Routers, NEW l, GoodList(r, l), NEW gone, r \notin gone,
         NEW f, Selects(f, l, gone)
  PROVE  /\ GoodList(r, At(l, f)) /\ At(l, f)[1] = l[1]
         /\ \A j \in DOMAIN At(l, f) : \E k \in DOMAIN l : At(l, f)[j] = l[k]
         /\ \A q \in Routers : Row(r, At(l, f))[q] = IF q \in gone THEN None ELSE Row(r, l)[q]
<1> DEFINE kept == Kept(l, gone)
           n == Cardinality(kept)
           l2 == At(l, f)
<1>a. /\ f \in [1 .. n -> kept]
      /\ \A i, j \in DOMAIN f : i < j => f[i] < f[j]
      /\ \A k \in kept : \E j \in DOMAIN f : f[j] = k
  BY DEF Selects
<1>1. /\ l \in Seq(Entries) /\ DOMAIN l = 1 .. Len(l) /\ Len(l) \in Nat /\ Len(l) > 0
      /\ l[1].rid = r
      /\ \A i, j \in DOMAIN l : l[i].rid = l[j].rid => i = j
  BY DEF GoodList
<1>2. n \in Nat
  <2>1. IsFiniteSet(DOMAIN l)
    BY <1>1, FS_Interval
  <2>2. IsFiniteSet(kept)
    BY <2>1, FS_Subset DEF Kept
  <2> QED BY <2>2, FS_CardinalityType
<1>3. /\ DOMAIN f = 1 .. n
      /\ \A j \in 1 .. n : f[j] \in DOMAIN l /\ l[f[j]].rid \notin gone
  BY <1>a DEF Kept
<1>4. 1 \in kept
  BY <1>1 DEF Kept
<1>5. PICK j1 \in 1 .. n : f[j1] = 1
  BY <1>a, <1>3, <1>4
<1> HIDE DEF n
<1>6. 1 \in 1 .. n /\ f[1] = 1
  <2>1. 1 \in 1 .. n /\ f[1] \in 1 .. Len(l)
    BY <1>1, <1>2, <1>3
  <2>2. CASE j1 = 1
    BY <2>1, <2>2, <1>5
  <2>3. CASE j1 # 1
    <3>1. 1 < j1
      BY <2>3, <1>2
    <3>2. f[1] < f[j1]
      BY <2>1, <3>1, <1>a, <1>3
    <3> QED BY <2>1, <3>2, <1>5, <1>1
  <2> QED BY <2>2, <2>3
<1>7. \A i, j \in 1 .. n : f[i] = f[j] => i = j
  <2> SUFFICES ASSUME NEW i \in 1 .. n, NEW j \in 1 .. n, f[i] = f[j] PROVE i = j
    OBVIOUS
  <2>1. f[i] \in Nat /\ f[j] \in Nat
    BY <1>1, <1>3
  <2>2. ~(i < j) /\ ~(j < i)
    BY <2>1, <1>a, <1>3
  <2> QED BY <2>2, <1>2
<1>8. /\ DOMAIN l2 = 1 .. n /\ \A j \in 1 .. n : l2[j] = l[f[j]]
  BY <1>3 DEF At
<1>9. l2 \in Seq(Entries) /\ Len(l2) = n
  <2>1. \A j \in 1 .. n : l[f[j]] \in Entries
    BY <1>1, <1>3
  <2>2. l2 = [j \in 1 .. n |-> l[f[j]]]
    BY <1>3 DEF At
  <2> HIDE DEF l2
  <2> QED BY <2>1, <2>2, <1>2
<1> HIDE DEF l2
<1>10. \A i, j \in DOMAIN l2 : l2[i].rid = l2[j].rid => i = j
  BY <1>1, <1>3, <1>7, <1>8
<1>11. GoodList(r, l2) /\ l2[1] = l[1]
  BY <1>1, <1>2, <1>6, <1>8, <1>9, <1>10 DEF GoodList
<1>12. \A j \in DOMAIN l2 : \E k \in DOMAIN l : l2[j] = l[k]
  BY <1>3, <1>8
<1>13. ASSUME NEW q \in Routers
       PROVE  Row(r, l2)[q] = IF q \in gone THEN None ELSE Row(r, l)[q]
  <2>1. CASE q = r
    BY <2>1, RowNone
  <2>2. CASE q # r /\ q \in gone
    <3>1. \A j \in DOMAIN l2 : l2[j].rid # q
      BY <2>2, <1>3, <1>8
    <3> QED BY <2>2, <3>1, RowNone
  <2>3. CASE q # r /\ q \notin gone /\ \A k \in DOMAIN l : l[k].rid # q
    <3>1. \A j \in DOMAIN l2 : l2[j].rid # q
      BY <2>3, <1>12
    <3> QED BY <2>3, <3>1, RowNone
  <2>4. CASE q # r /\ q \notin gone /\ \E k \in DOMAIN l : l[k].rid = q
    <3>1. PICK k \in DOMAIN l : l[k].rid = q
      BY <2>4
    <3>2. k \in kept
      BY <3>1, <2>4 DEF Kept
    <3>3. PICK j \in 1 .. n : f[j] = k
      BY <3>2, <1>a, <1>3
    <3>4. j \in DOMAIN l2 /\ l2[j] = l[k] /\ l2[j].rid = q
      BY <3>1, <3>3, <1>8
    <3>7. \A a, b \in DOMAIN l : l[a].rid = l[b].rid => a = b
      BY <1>1
    <3>5. Row(r, l)[q] = <<l[k].seq, l[k].ifs>>
      BY <2>4, <3>1, <3>7, RowAt
    <3>6. Row(r, l2)[q] = <<l2[j].seq, l2[j].ifs>>
      BY <2>4, <3>4, <1>10, RowAt
    <3> QED BY <2>4, <3>4, <3>5, <3>6
  <2> QED BY <2>1, <2>2, <2>3, <2>4
<1> QED BY <1>11, <1>12, <1>13 DEF l2

(* Dropping routers is the abstract Forget. *)
LEMMA ForgetAbstract ==
  ASSUME NEW r \in Routers, NEW gone, said' = said \/ Abstract!Publish(r),
         View' = [View EXCEPT ![r] =
                    [q \in Routers |-> IF q \in gone THEN None ELSE View[r][q]]]
  PROVE  Abstract!Next
<1> DEFINE held == {q \in Routers : View[r][q] # None}
           g == {q \in held : q \in gone}
<1>1. g \in SUBSET held
  OBVIOUS
<1>2. [q \in Routers |-> IF q \in gone THEN None ELSE View[r][q]]
        = [q \in Routers |-> IF q \in g THEN None ELSE View[r][q]]
  OBVIOUS
<1>3. View' = [View EXCEPT ![r] = [q \in Routers |-> IF q \in g THEN None ELSE View[r][q]]]
  BY <1>2
<1> HIDE DEF g
<1>4. Abstract!Forget(r)
  BY <1>1, <1>3 DEF Abstract!Forget
<1> QED BY <1>4 DEF Abstract!Next

LEMMA TimeOutRoutersStep ==
  ASSUME IInv, NEW r \in Routers, NEW gone \in SUBSET Routers, TimeOutRouters(r, gone)
  PROVE  IInv' /\ Abstract!Next
<1> DEFINE x == st[r]
           l == x.list
           kept == Kept(l, gone)
<1>a. r \notin gone /\ Event /\ net' = net
  BY DEF TimeOutRouters
<1>c. PICK f \in [1 .. Cardinality(kept) -> kept] :
        /\ \A i, j \in DOMAIN f : i < j => f[i] < f[j]
        /\ \A k \in kept : \E j \in DOMAIN f : f[j] = k
        /\ Becomes(r, Signal(Propagate(r, [x EXCEPT !.list = [j \in DOMAIN f |-> l[f[j]]]])))
  BY DEF TimeOutRouters, Kept
<1>b. /\ x \in RState(r) /\ GoodList(r, l) /\ Backed(r, x, said)
      /\ \A m \in net : m \in Lsus /\ Told(m, said)
  BY Parts
<1> DEFINE l2 == At(l, f)
           y == [x EXCEPT !.list = l2]
<1>1. /\ GoodList(r, l2) /\ l2[1] = l[1]
      /\ \A j \in DOMAIN l2 : \E k \in DOMAIN l : l2[j] = l[k]
      /\ \A q \in Routers : Row(r, l2)[q] = IF q \in gone THEN None ELSE Row(r, l)[q]
  <2> HIDE DEF l
  <2>1. Selects(f, l, gone)
    BY <1>c DEF Selects
  <2> QED BY <2>1, <1>a, <1>b, KeptList
<1>2. Becomes(r, Signal(Propagate(r, y)))
  BY <1>c DEF At
<1> HIDE DEF l2
<1>3. y \in RState(r) /\ y.list = l2 /\ y.queue = x.queue
  BY <1>b, <1>1 DEF RState, GoodList
<1> HIDE DEF y
<1>4. \A j \in DOMAIN l2 : l2[j].rid # r => Told(l2[j], said)
  BY <1>1, <1>b DEF Backed
<1>5. Good(r, y) /\ Backed(r, y, said) /\ y.list[1].seq = x.list[1].seq
  BY <1>1, <1>3, <1>4, <1>b DEF Good, Backed
<1>6. /\ Flooded(r, y, Signal(Propagate(r, y)))
      /\ Fresh(Signal(Propagate(r, y)))
  BY <1>5, PropagateSignalFacts
<1>7. /\ IInv'
      /\ said' = said \/ Abstract!Publish(r)
      /\ View' = [View EXCEPT ![r] = Row(r, y.list)]
  BY <1>a, <1>b, <1>2, <1>5, <1>6, EventType, HandlerStep
<1>8. View[r] = Row(r, l)
  BY ViewIsRows
<1>9. View' = [View EXCEPT ![r] =
                 [q \in Routers |-> IF q \in gone THEN None ELSE View[r][q]]]
  <2>1. Row(r, l2) = [q \in Routers |-> IF q \in gone THEN None ELSE View[r][q]]
    <3>1. Row(r, l2) = [q \in Routers |-> Row(r, l2)[q]]
      BY RowIsFunction
    <3> QED BY <3>1, <1>1, <1>8
  <2> QED BY <2>1, <1>3, <1>7
<1>10. Abstract!Next
  BY <1>7, <1>9, ForgetAbstract
<1> QED BY <1>7, <1>10

-----------------------------------------------------------------------------
LEMMA BootedFacts ==
  ASSUME NEW r \in Routers
  PROVE  /\ Good(r, Booted(r)) /\ Fresh(Booted(r))
         /\ \A h : Backed(r, Booted(r), h)
         /\ \A q \in Routers : Row(r, Booted(r).list)[q] = None
<1> DEFINE x == Booted(r)
           e == [rid |-> r, seq |-> 0, ifs |-> SubnetsOf(r) \X {None}]
<1>1. e \in Entries /\ e.rid = r /\ e.ifs = SubnetsOf(r) \X {None}
  BY PwospfAssumption DEF Entries, Seqs, Ifaces, SubnetsOf
<1>2. x.list = <<e>> /\ x.active = {} /\ x.queue = {}
  BY DEF Booted
<1> HIDE DEF e
<1>3. /\ x.list \in Seq(Entries) /\ Len(x.list) = 1 /\ x.list[1] = e
      /\ DOMAIN x.list = {1}
  BY <1>1, <1>2
<1>4. x \in RState(r)
  <2>1. <<e>> \in Seq(Entries)
    BY <1>1
  <2> QED BY <2>1 DEF Booted, RState, e
<1> HIDE DEF x
<1>5. GoodList(r, x.list)
  BY <1>1, <1>3 DEF GoodList
<1>6. ActiveIfaces(x.list) = {}
  <2>1. ASSUME NEW d PROVE d \notin ActiveIfaces(x.list)
    <3>1. \A k \in DOMAIN x.list : \A i \in x.list[k].ifs : i[2] = None
      BY <1>1, <1>3
    <3>2. d \in ActiveIfaces(x.list) =>
            \E k \in DOMAIN x.list : \E i \in x.list[k].ifs : Active(x.list, k, i)
      BY ActiveMembers
    <3> QED BY <3>1, <3>2 DEF Active
  <2> QED BY <2>1
<1>7. Fresh(x)
  BY <1>2, <1>6 DEF Fresh
<1>8. \A h : Backed(r, x, h)
  BY <1>1, <1>2, <1>3 DEF Backed
<1>9. ASSUME NEW q \in Routers PROVE Row(r, x.list)[q] = None
  BY <1>1, <1>3, RowNone
<1> QED BY <1>4, <1>5, <1>7, <1>8, <1>9 DEF Good, x

LEMMA RestartStep ==
  ASSUME IInv, NEW r \in Routers, Restart(r)
  PROVE  IInv' /\ Abstract!Next
<1>a. Event /\ st' = [st EXCEPT ![r] = Booted(r)] /\ net' = net /\ said' = said
  BY DEF Restart
<1>b. /\ Good(r, Booted(r)) /\ Fresh(Booted(r)) /\ Backed(r, Booted(r), said)
      /\ \A q \in Routers : Row(r, Booted(r).list)[q] = None
  BY BootedFacts
<1>1. /\ st'[r] = Booted(r) /\ \A q \in Routers : q # r => st'[q] = st[q]
      /\ st' = [q \in Routers |-> st'[q]]
  BY <1>a DEF IInv
<1>2. IInv'
  <2>1. \A q \in Routers : Good(q, st'[q]) /\ Backed(q, st'[q], said') /\ Fresh(st'[q])
    BY <1>a, <1>b, <1>1 DEF IInv
  <2>2. events' \in 0 .. MaxEvents
    BY <1>a, EventType
  <2> QED BY <2>1, <2>2, <1>1, <1>a DEF IInv
<1>3. View' = [View EXCEPT ![r] =
                 [q \in Routers |-> IF q \in Routers THEN None ELSE View[r][q]]]
  <2>1. View' = [q \in Routers |-> Row(q, st'[q].list)]
    BY DEF View, Row
  <2>2. Row(r, Booted(r).list) = [q \in Routers |-> Row(r, Booted(r).list)[q]]
    BY RowIsFunction
  <2>3. Row(r, Booted(r).list)
          = [q \in Routers |-> IF q \in Routers THEN None ELSE View[r][q]]
    BY <2>2, <1>b
  <2> QED BY <2>1, <2>3, <1>1, ViewIsRows
<1> QED BY <1>2, <1>3, <1>a, ForgetAbstract

-----------------------------------------------------------------------------
(* The list after entry e about another router has been taken. *)
Learned(r, l, e, l2) ==
  /\ GoodList(r, l2) /\ l2[1] = l[1]
  /\ \A j \in DOMAIN l2 : l2[j] = e \/ \E i \in DOMAIN l : l2[j] = l[i]
  /\ Row(r, l2) = [Row(r, l) EXCEPT ![e.rid] = <<e.seq, e.ifs>>]

LEMMA LearnedKnown ==
  ASSUME NEW r \in Routers, NEW l, GoodList(r, l), NEW e \in Entries, e.rid # r,
         NEW k \in DOMAIN l, l[k].rid = e.rid
  PROVE  Learned(r, l, e, [l EXCEPT ![k] = e])
<1> DEFINE l2 == [l EXCEPT ![k] = e]
<1>1. /\ l \in Seq(Entries) /\ DOMAIN l = 1 .. Len(l) /\ Len(l) \in Nat /\ Len(l) > 0
      /\ l[1].rid = r
      /\ \A i, j \in DOMAIN l : l[i].rid = l[j].rid => i = j
  BY DEF GoodList
<1>2. /\ l2 \in Seq(Entries) /\ Len(l2) = Len(l) /\ DOMAIN l2 = DOMAIN l
      /\ l2[k] = e /\ \A j \in DOMAIN l : j # k => l2[j] = l[j]
  BY <1>1
<1> HIDE DEF l2
<1>3. k # 1 /\ l2[1] = l[1]
  BY <1>1, <1>2
<1>4. \A i, j \in DOMAIN l2 : l2[i].rid = l2[j].rid => i = j
  <2>1. \A j \in DOMAIN l2 : l2[j].rid = l[j].rid
    BY <1>2
  <2> QED BY <2>1, <1>1, <1>2
<1>5. GoodList(r, l2)
  BY <1>1, <1>2, <1>3, <1>4 DEF GoodList
<1>6. ASSUME NEW q \in Routers
      PROVE  Row(r, l2)[q] = IF q = e.rid THEN <<e.seq, e.ifs>> ELSE Row(r, l)[q]
  <2>1. CASE q = e.rid
    BY <2>1, <1>2, <1>4, RowAt
  <2>2. CASE q # e.rid /\ q = r
    BY <2>2, RowNone
  <2>3. CASE q # e.rid /\ q # r /\ \A j \in DOMAIN l : l[j].rid # q
    <3>1. \A j \in DOMAIN l2 : l2[j].rid # q
      BY <2>3, <1>2
    <3> QED BY <3>1, <2>3, RowNone
  <2>4. CASE q # e.rid /\ q # r /\ \E j \in DOMAIN l : l[j].rid = q
    <3>1. PICK j \in DOMAIN l : l[j].rid = q
      BY <2>4
    <3>2. j \in DOMAIN l2 /\ l2[j] = l[j] /\ l2[j].rid = q
      BY <3>1, <2>4, <1>2
    <3>3. \A a, b \in DOMAIN l : l[a].rid = l[b].rid => a = b
      BY <1>1
    <3>4. Row(r, l)[q] = <<l[j].seq, l[j].ifs>>
      BY <2>4, <3>1, <3>3, RowAt
    <3>5. Row(r, l2)[q] = <<l2[j].seq, l2[j].ifs>>
      BY <2>4, <3>2, <1>4, RowAt
    <3> QED BY <2>4, <3>2, <3>4, <3>5
  <2> QED BY <2>1, <2>2, <2>3, <2>4
<1>7. Row(r, l2) = [Row(r, l) EXCEPT ![e.rid] = <<e.seq, e.ifs>>]
  <2>1. /\ Row(r, l2) = [q \in Routers |-> Row(r, l2)[q]]
        /\ Row(r, l) = [q \in Routers |-> Row(r, l)[q]]
    BY RowIsFunction
  <2> QED BY <2>1, <1>6
<1>8. \A j \in DOMAIN l2 : l2[j] = e \/ \E i \in DOMAIN l : l2[j] = l[i]
  BY <1>2
<1> QED BY <1>3, <1>5, <1>7, <1>8 DEF Learned, l2

LEMMA LearnedNew ==
  ASSUME NEW r \in Routers, NEW l, GoodList(r, l), NEW e \in Entries, e.rid # r,
         \A k \in DOMAIN l : l[k].rid # e.rid
  PROVE  Learned(r, l, e, Append(l, e))
<1> DEFINE l2 == Append(l, e)
           n == Len(l) + 1
<1>1. /\ l \in Seq(Entries) /\ DOMAIN l = 1 .. Len(l) /\ Len(l) \in Nat /\ Len(l) > 0
      /\ l[1].rid = r
      /\ \A i, j \in DOMAIN l : l[i].rid = l[j].rid => i = j
  BY DEF GoodList
<1>2. /\ l2 \in Seq(Entries) /\ Len(l2) = n /\ DOMAIN l2 = 1 .. n
      /\ l2[n] = e /\ \A j \in DOMAIN l : l2[j] = l[j]
  BY <1>1
<1>3. /\ \A j \in DOMAIN l2 : j = n \/ j \in DOMAIN l
      /\ n \in DOMAIN l2 /\ DOMAIN l \subseteq DOMAIN l2 /\ 1 \in DOMAIN l
  BY <1>1, <1>2
<1> HIDE DEF l2, n
<1>4. \A i, j \in DOMAIN l2 : l2[i].rid = l2[j].rid => i = j
  BY <1>1, <1>2, <1>3
<1>5. GoodList(r, l2) /\ l2[1] = l[1]
  BY <1>1, <1>2, <1>3, <1>4 DEF GoodList, n
<1>6. ASSUME NEW q \in Routers
      PROVE  Row(r, l2)[q] = IF q = e.rid THEN <<e.seq, e.ifs>> ELSE Row(r, l)[q]
  <2>1. CASE q = e.rid
    BY <2>1, <1>2, <1>3, <1>4, RowAt
  <2>2. CASE q # e.rid /\ q = r
    BY <2>2, RowNone
  <2>3. CASE q # e.rid /\ q # r /\ \A j \in DOMAIN l : l[j].rid # q
    <3>1. \A j \in DOMAIN l2 : l2[j].rid # q
      BY <2>3, <1>2, <1>3
    <3> QED BY <3>1, <2>3, RowNone
  <2>4. CASE q # e.rid /\ q # r /\ \E j \in DOMAIN l : l[j].rid = q
    <3>1. PICK j \in DOMAIN l : l[j].rid = q
      BY <2>4
    <3>2. j \in DOMAIN l2 /\ l2[j] = l[j] /\ l2[j].rid = q
      BY <3>1, <1>2, <1>3
    <3>3. \A a, b \in DOMAIN l : l[a].rid = l[b].rid => a = b
      BY <1>1
    <3>4. Row(r, l)[q] = <<l[j].seq, l[j].ifs>>
      BY <2>4, <3>1, <3>3, RowAt
    <3>5. Row(r, l2)[q] = <<l2[j].seq, l2[j].ifs>>
      BY <2>4, <3>2, <1>4, RowAt
    <3> QED BY <2>4, <3>2, <3>4, <3>5
  <2> QED BY <2>1, <2>2, <2>3, <2>4
<1>7. Row(r, l2) = [Row(r, l) EXCEPT ![e.rid] = <<e.seq, e.ifs>>]
  <2>1. /\ Row(r, l2) = [q \in Routers |-> Row(r, l2)[q]]
        /\ Row(r, l) = [q \in Routers |-> Row(r, l)[q]]
    BY RowIsFunction
  <2> QED BY <2>1, <1>6
<1>8. \A j \in DOMAIN l2 : l2[j] = e \/ \E i \in DOMAIN l : l2[j] = l[i]
  BY <1>2, <1>3
<1> QED BY <1>5, <1>7, <1>8 DEF Learned, l2

(* Taking an advertisement is the abstract Learn. *)
LEMMA LearnAbstract ==
  ASSUME NEW r \in Routers, NEW q \in Routers \ {r}, NEW a \in said[q],
         said' = said \/ Abstract!Publish(r),
         View[r][q] = None \/ a[1] > View[r][q][1],
         View' = [View EXCEPT ![r] = [View[r] EXCEPT ![q] = a]]
  PROVE  Abstract!Next
<1>1. Abstract!Learn(r, q)
  <2>1. Abstract!Newer(View[r][q], a)
    BY DEF Abstract!Newer
  <2>2. View' = [View EXCEPT ![r][q] = a]
    OBVIOUS
  <2> QED BY <2>1, <2>2 DEF Abstract!Learn
<1> QED BY <1>1 DEF Abstract!Next

LEMMA ProcessLsuStep ==
  ASSUME IInv, NEW m \in net, ProcessLsu(m)
  PROVE  IInv' /\ Abstract!Next
<1> DEFINE r       == m.to
           x       == st[r]
           l       == x.list
           at      == PlacesOf(l, m.rid)
           k       == CHOOSE k \in at : TRUE
           known   == at # {}
           old     == l[k].ifs
           ifs     == IF known THEN Populate(old, m.ifs) ELSE m.ifs
           taken   == ~known \/ Supersedes(m, l[k])
           changed == taken /\ (~known \/ old = {} \/ ifs # old)
           entry   == [rid |-> m.rid, seq |-> m.seq, ifs |-> ifs]
           list    == IF ~taken THEN l
                      ELSE IF known THEN [l EXCEPT ![k] = entry]
                                    ELSE Append(l, entry)
           again   == taken /\ m.ttl - 1 > 0
           y       == [x EXCEPT !.list = list]
           less    == [m EXCEPT !.ttl = m.ttl - 1]
           z       == IF again THEN Broadcast(r, y, less, <<m.from, m.sub>>) ELSE y
           w       == IF changed THEN Propagate(r, z) ELSE z
           v       == IF changed \/ again THEN Signal(w) ELSE w
<1>a. net' = net \ {m} /\ events' = events
  BY DEF ProcessLsu, Valid
<1>b. m \in Lsus /\ Told(m, said) /\ r \in Routers
  <2>1. m \in Lsus /\ Told(m, said)
    BY DEF IInv
  <2> QED BY <2>1 DEF Lsus
<1>c. /\ x \in RState(r) /\ GoodList(r, l) /\ Backed(r, x, said) /\ Fresh(x)
      /\ \A o \in net : o \in Lsus /\ Told(o, said)
  BY <1>b, Parts
<1>d. /\ m.rid \in Routers /\ m.seq \in Seqs /\ m.ifs \in SUBSET Ifaces
      /\ m.ttl \in 1 .. Ttl0
  BY <1>b DEF Lsus
<1>e. events' \in 0 .. MaxEvents
  BY <1>a DEF IInv
<1>f. net' \subseteq Lsus /\ \A o \in net' : Told(o, said)
  BY <1>a, <1>c
<1>1. CASE ~(x.up[m.sub] /\ m.rid # r)
  <2>1. st' = st /\ said' = said
    BY <1>1 DEF ProcessLsu, Valid
  <2>2. IInv'
    BY <2>1, <1>e, <1>f DEF IInv
  <2>3. View' = View
    BY <2>1 DEF View
  <2> QED BY <2>1, <2>2, <2>3, <1>b DEF Abstract!Next
<1>2. CASE x.up[m.sub] /\ m.rid # r
  <2>1. Becomes(r, v)
    BY <1>2, Zenon DEF ProcessLsu, Valid
  <2>2. known => k \in DOMAIN l /\ l[k].rid = m.rid
    BY DEF PlacesOf
  <2>3. ~known => \A j \in DOMAIN l : l[j].rid # m.rid
    BY DEF PlacesOf
  <2>4. ifs = m.ifs
    BY DEF Populate
  <2>5. /\ entry \in Entries /\ entry.rid = m.rid
        /\ entry.seq = m.seq /\ entry.ifs = m.ifs
    BY <1>d, <2>4 DEF Entries
  <2> HIDE DEF entry, k, known, l
  <2>6. taken => Learned(r, l, entry, list)
    <3>1. CASE taken /\ known
      BY <3>1, <1>2, <1>b, <1>c, <2>2, <2>5, LearnedKnown
    <3>2. CASE taken /\ ~known
      BY <3>2, <1>2, <1>b, <1>c, <2>3, <2>5, LearnedNew
    <3> QED BY <3>1, <3>2
  <2>7. ~taken => list = l
    OBVIOUS
  <2>8. known /\ taken => m.seq > l[k].seq
    BY DEF Supersedes
  <2>9. ~changed => ActiveIfaces(list) = ActiveIfaces(l)
    <3>1. CASE ~taken
      BY <3>1, <2>7
    <3>2. CASE taken /\ ~changed
      <4>1. known /\ m.ifs = l[k].ifs /\ list = [l EXCEPT ![k] = entry]
        BY <3>2, <2>4
      <4>2. DOMAIN list = DOMAIN l
        BY <4>1
      <4>3. \A j \in DOMAIN list : list[j].rid = l[j].rid /\ list[j].ifs = l[j].ifs
        BY <4>1, <2>2, <2>5
      <4> HIDE DEF list
      <4> QED BY <4>2, <4>3, ActiveSame
    <3> QED BY <3>1, <3>2
  <2> HIDE DEF taken, changed, list
  <2>10. GoodList(r, list) /\ list[1] = l[1]
    BY <2>6, <2>7, <1>c DEF Learned
  <2>11. \A j \in DOMAIN list : list[j].rid # r => Told(list[j], said)
    <3>1. \A j \in DOMAIN l : l[j].rid # r => Told(l[j], said)
      BY <1>c DEF Backed, l
    <3>2. Told(entry, said)
      BY <1>b, <2>5 DEF Told
    <3> QED BY <3>1, <3>2, <2>6, <2>7 DEF Learned
  <2>12. /\ y \in RState(r) /\ y.list = list /\ y.queue = x.queue
         /\ y.hello = x.hello /\ y.active = x.active
    BY <1>c, <2>10 DEF RState, GoodList
  <2> HIDE DEF y
  <2>13. /\ z \in RState(r) /\ z.list = list
         /\ z.hello = x.hello /\ z.active = x.active
         /\ \A o \in z.queue : Told(o, said)
    <3>1. \A o \in y.queue : Told(o, said)
      BY <1>c, <2>12 DEF Backed
    <3>2. CASE ~again
      BY <3>1, <3>2, <2>12
    <3>3. CASE again
      <4>1. /\ less.rid = m.rid /\ less.seq = m.seq /\ less.ifs = m.ifs
            /\ less.ttl \in 1 .. Ttl0
        BY <3>3, <1>b, <1>d, PwospfAssumption DEF Lsus
      <4> HIDE DEF less
      <4> DEFINE b == Broadcast(r, y, less, <<m.from, m.sub>>)
      <4>2. /\ b \in RState(r)
            /\ b.list = y.list /\ b.hello = y.hello /\ b.active = y.active
            /\ \A o \in b.queue :
                 o \in y.queue \/ (o.rid = less.rid /\ o.seq = less.seq /\ o.ifs = less.ifs)
        BY <4>1, <1>b, <1>d, <2>12, BroadcastFacts
      <4>3. z = b
        BY <3>3
      <4> HIDE DEF b, z
      <4>4. \A o \in b.queue : Told(o, said)
        BY <3>1, <4>1, <4>2, <1>b DEF Told
      <4> QED BY <4>2, <4>3, <4>4, <2>12
    <3> QED BY <3>2, <3>3
  <2> HIDE DEF z, again
  <2>14. Good(r, z) /\ Backed(r, z, said) /\ z.list[1].seq = st[r].list[1].seq
    BY <2>10, <2>11, <2>13 DEF Good, Backed, l
  <2>15. Flooded(r, z, w) /\ Fresh(w)
    <3>1. CASE changed
      BY <3>1, <1>b, <2>14, PropagateFacts
    <3>2. CASE ~changed
      <4>1. Fresh(z)
        BY <3>2, <1>c, <2>9, <2>13 DEF Fresh, l
      <4> QED BY <3>2, <4>1, <2>14, FloodedRefl
    <3> QED BY <3>1, <3>2
  <2> HIDE DEF w
  <2>16. Flooded(r, z, v) /\ Fresh(v)
    BY <2>15, SignalFresh
  <2> HIDE DEF v
  <2>17. /\ IInv'
         /\ said' = said \/ Abstract!Publish(r)
         /\ View' = [View EXCEPT ![r] = Row(r, list)]
    BY <1>b, <1>e, <1>f, <2>1, <2>13, <2>14, <2>16, HandlerStep
  <2>18. View[r] = Row(r, l)
    BY <1>b, ViewIsRows DEF l
  <2>19. CASE ~taken
    BY <2>19, <1>b, <2>7, <2>17, QuietAbstract DEF l
  <2>20. CASE taken
    <3> DEFINE a == <<m.seq, m.ifs>>
    <3>1. Row(r, list) = [View[r] EXCEPT ![m.rid] = a]
      BY <2>20, <2>5, <2>6, <2>18 DEF Learned
    <3>2. a \in said[m.rid] /\ a[1] = m.seq
      BY <1>b DEF Told
    <3>3. View[r][m.rid] = None \/ a[1] > View[r][m.rid][1]
      <4>1. CASE ~known
        BY <4>1, <1>d, <2>3, <2>18, RowNone
      <4>2. CASE known
        <5>1. \A i, j \in DOMAIN l : l[i].rid = l[j].rid => i = j
          BY <1>c DEF GoodList
        <5>2. View[r][m.rid] = <<l[k].seq, l[k].ifs>>
          BY <4>2, <1>2, <1>d, <2>2, <2>18, <5>1, RowAt
        <5> QED BY <4>2, <5>2, <3>2, <2>8, <2>20
      <4> QED BY <4>1, <4>2
    <3> HIDE DEF a
    <3>4. m.rid \in Routers \ {r}
      BY <1>2, <1>d
    <3>5. View' = [View EXCEPT ![r] = [View[r] EXCEPT ![m.rid] = a]]
      BY <2>17, <3>1
    <3> QED BY <1>b, <2>17, <3>2, <3>3, <3>4, <3>5, LearnAbstract
  <2> QED BY <2>17, <2>19, <2>20
<1> QED BY <1>1, <1>2

-----------------------------------------------------------------------------
LEMMA InitInvariant == Init => IInv /\ Abstract!Init
<1> SUFFICES ASSUME Init PROVE IInv /\ Abstract!Init
  OBVIOUS
<1>1. /\ st = [r \in Routers |-> Booted(r)] /\ net = {}
      /\ said = [r \in Routers |-> {}] /\ events = 0
  BY DEF Init
<1>2. \A r \in Routers : Good(r, st[r]) /\ Backed(r, st[r], said) /\ Fresh(st[r])
  BY <1>1, BootedFacts
<1>3. IInv
  BY <1>1, <1>2, PwospfAssumption DEF IInv
<1>4. \A r, q \in Routers : View[r][q] = None
  BY <1>1, BootedFacts, ViewIsRows
<1>5. View \in [Routers -> [Routers -> (UNION {said[q] : q \in Routers}) \cup {None}]]
  <2>1. \A r \in Routers : View[r] = [q \in Routers |-> View[r][q]]
    BY ViewIsRows, RowIsFunction
  <2>2. View = [r \in Routers |-> View[r]]
    BY ViewIsRows
  <2> DEFINE held == (UNION {said[q] : q \in Routers}) \cup {None}
  <2>3. None \in held
    OBVIOUS
  <2> HIDE DEF held
  <2>4. \A r \in Routers : View[r] \in [Routers -> held]
    BY <2>1, <2>3, <1>4
  <2>5. View \in [Routers -> [Routers -> held]]
    BY <2>2, <2>4
  <2> QED BY <2>5 DEF held
<1>6. Abstract!Init
  BY <1>1, <1>4, <1>5 DEF Abstract!Init
<1> QED BY <1>3, <1>6

LEMMA NextInvariant == IInv /\ [Next]_vars => IInv' /\ [Abstract!Next]_(Abstract!vars)
<1> SUFFICES ASSUME IInv, [Next]_vars PROVE IInv' /\ [Abstract!Next]_(Abstract!vars)
  OBVIOUS
<1>1. ASSUME NEW r \in Routers, NEW s \in SubnetsOf(r), NEW n \in Routers, ProcessHello(r, s, n)
      PROVE  IInv' /\ Abstract!Next
  BY <1>1, ProcessHelloStep
<1>2. ASSUME NEW r \in Routers, NEW s \in SubnetsOf(r), NEW gone \in SUBSET Routers,
             TimeOutNeighbours(r, s, gone)
      PROVE  IInv' /\ Abstract!Next
  BY <1>2, TimeOutNeighboursStep
<1>3. ASSUME NEW r \in Routers, PropagateTimeouts(r) PROVE IInv' /\ Abstract!Next
  BY <1>3, PropagateTimeoutsStep
<1>4. ASSUME NEW r \in Routers, NEW gone \in SUBSET Routers, TimeOutRouters(r, gone)
      PROVE  IInv' /\ Abstract!Next
  BY <1>4, TimeOutRoutersStep
<1>5. ASSUME NEW r \in Routers, LsuThread(r) PROVE IInv' /\ Abstract!Next
  BY <1>5, LsuThreadStep
<1>6. ASSUME NEW r \in Routers, BcastTake(r) PROVE IInv' /\ Abstract!Next
  BY <1>6, BcastTakeStep
<1>7. ASSUME NEW r \in Routers, BcastWait(r) PROVE IInv' /\ Abstract!Next
  BY <1>7, BcastWaitStep
<1>8. ASSUME NEW r \in Routers, NEW s \in SubnetsOf(r), IfaceUp(r, s)
      PROVE  IInv' /\ Abstract!Next
  BY <1>8, IfaceUpStep
<1>9. ASSUME NEW r \in Routers, NEW s \in SubnetsOf(r), IfaceDown(r, s)
      PROVE  IInv' /\ Abstract!Next
  BY <1>9, IfaceDownStep
<1>10. ASSUME NEW r \in Routers, Restart(r) PROVE IInv' /\ Abstract!Next
  BY <1>10, RestartStep
<1>11. ASSUME NEW r \in Routers, CliSetLsuBroadcast(r) PROVE IInv' /\ Abstract!Next
  BY <1>11, CliStep
<1>12. ASSUME NEW m \in net, ProcessLsu(m) PROVE IInv' /\ Abstract!Next
  BY <1>12, ProcessLsuStep
<1>13. CASE UNCHANGED vars
  <2>1. st' = st /\ net' = net /\ said' = said /\ events' = events
    BY <1>13 DEF vars
  <2>2. IInv'
    BY <2>1 DEF IInv
  <2>3. View' = View
    BY <2>1 DEF View
  <2> QED BY <2>1, <2>2, <2>3 DEF Abstract!vars
<1>14. CASE Next
  BY <1>14, <1>1, <1>2, <1>3, <1>4, <1>5, <1>6, <1>7, <1>8, <1>9, <1>10, <1>11, <1>12 DEF Next
<1> QED BY <1>13, <1>14

(* The inductive invariant holds in every area. *)
THEOREM PwospfInvariant == Spec => []IInv
<1>1. Init => IInv
  BY InitInvariant
<1>2. IInv /\ [Next]_vars => IInv'
  BY NextInvariant
<1>3. Spec => Init /\ [][Next]_vars
  BY DEF Spec
<1> QED BY <1>1, <1>2, <1>3, PTL

(* The type invariant: every list starts with the router's own entry and   *)
(* names no router twice, through every insertion, timeout and restart.    *)
THEOREM TypeCorrect == Spec => []TypeOK
<1>1. IInv => TypeOK
  BY DEF IInv, TypeOK, Good, GoodList, RState
<1> QED BY <1>1, PwospfInvariant, PTL

(* No path through the handlers leaves the flags Dijkstra reads behind the *)
(* router list.                                                            *)
THEOREM FlagsAreFresh == Spec => []FlagsFollowList
<1>1. IInv => FlagsFollowList
  BY DEF IInv, FlagsFollowList, Fresh
<1> QED BY <1>1, PwospfInvariant, PTL

(* PWOSPF implements LinkState: what a router holds about another is       *)
(* nothing or exactly what that router flooded under that number, and it   *)
(* gives way only to a higher number, to nothing, or to a restart.         *)
THEOREM Refinement == Spec => ImplementsLinkState
<1>1. Init => IInv /\ Abstract!Init
  BY InitInvariant
<1>2. IInv /\ [Next]_vars => IInv' /\ [Abstract!Next]_(Abstract!vars)
  BY NextInvariant
<1>3. Spec => Init /\ [][Next]_vars
  BY DEF Spec
<1> QED BY <1>1, <1>2, <1>3, PTL DEF ImplementsLinkState, Abstract!Spec
=============================================================================
