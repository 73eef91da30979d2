------------------------------ MODULE SconeArp ------------------------------
(***************************************************************************)
(* The ARP subsystem of the SCONE router (projects/scone/sw/or_arp.c with  *)
(* send_ip of or_main.c): the ARP cache, its copy in the NetFPGA, the      *)
(* queue of packets that wait for a next hop, and the threads that share   *)
(* them under arp_cache_lock and arp_queue_lock:                           *)
(*                                                                         *)
(*   rx      the packet thread; an ARP reply is handled in two critical    *)
(*           sections, and the cache lock is free between them;            *)
(*   arp     arp_thread: expire the cache, retry or give up the queue,     *)
(*           sleep a second;                                               *)
(*   CLI     the operator's "ip arp" and "nuke arp" commands;              *)
(*   any     thread that hands a packet to send_ip.                        *)
(*                                                                         *)
(* A critical section that only one step can observe is one action.  The   *)
(* two loops over queued packets are one action per packet, while `holder' *)
(* says which thread has the queue lock for writing (and the cache lock    *)
(* for reading): every other critical section waits for it.                *)
(***************************************************************************)
EXTENDS Integers, Sequences, FiniteSets

CONSTANTS
  Hops,          \* next-hop IP addresses
  Macs,          \* hardware addresses
  Ids,           \* packets handed to send_ip by the forwarding path
  Errable,       \* the ids whose failure is reported to their sender by ICMP
  MaxRequests,   \* ARP requests sent before the queue entry is given up (5)
  TtlValues,     \* the values `ip arp set ttl' is given
  Ttl0,          \* rs->arp_ttl after init
  MaxAge,        \* bound: ages are not told apart above this many seconds
  Depth,         \* rows of the hardware ARP table
  None           \* the null pointer

(* A packet is a forwarded one or the ICMP error made from it. *)
Packets == Ids \X BOOLEAN
Data(i) == <<i, FALSE>>
ErrOf(p) == <<p[1], TRUE>>

Ages == 0 .. MaxAge
CacheEntry == [mac : Macs, static : BOOLEAN, age : Ages]
QueueEntry == [pkts : Seq(Packets), reqs : 1 .. MaxRequests, age : Ages]

ASSUME SconeArpAssumption ==
  /\ Errable \subseteq Ids
  /\ MaxRequests \in Nat \ {0}
  /\ TtlValues \subseteq Nat /\ Ttl0 \in Nat
  /\ MaxAge \in Nat /\ MaxAge > 1 /\ \A t \in TtlValues \cup {Ttl0} : t < MaxAge
  /\ Depth \in Nat
  /\ None \notin Hops \cup Macs
  /\ None \notin CacheEntry /\ None \notin QueueEntry

VARIABLES
  cache,     \* rs->arp_cache: hop -> entry, or None
  hw,        \* the rows of the hardware table: hop -> mac, or None
  queue,     \* rs->arp_queue: hop -> entry, or None
  ttl,       \* rs->arp_ttl
  fate,      \* packet -> where it is
  rx,        \* control state of the packet thread
  arp,       \* control state of arp_thread
  holder     \* who holds arp_queue_lock for writing across steps

vars == <<cache, hw, queue, ttl, fate, rx, arp, holder>>

Fates == {"none", "queued", "sent", "freed", "leaked"}

(* What the packet thread is doing: `hop' is the arp_sip of the reply. *)
RxStates == [pc : {"idle", "window", "drain"}, hop : Hops \cup {None}]
(* arp_thread: `todo' is the part of the queue it has not visited, `hop'   *)
(* the entry whose packets it is returning to their senders.               *)
ArpStates == [pc : {"expire", "queue", "pass", "sleep"},
              todo : SUBSET Hops, hop : Hops \cup {None}]

TypeOK ==
  /\ cache \in [Hops -> CacheEntry \cup {None}]
  /\ hw \in [Hops -> Macs \cup {None}]
  /\ queue \in [Hops -> QueueEntry \cup {None}]
  /\ ttl \in Nat
  /\ fate \in [Packets -> Fates]
  /\ rx \in RxStates
  /\ arp \in ArpStates
  /\ holder \in {"none", "rx", "arp"}

Older(a) == IF a < MaxAge THEN a + 1 ELSE a

-----------------------------------------------------------------------------
(* write_arp_cache_to_hw: every row is rewritten, the static entries       *)
(* first, then the others, then zeroes.  The list's order, which decides   *)
(* what is left out when the table is too small, is not kept.              *)
HwImages(c) ==
  LET cached == {h \in Hops : c[h] # None}
      static == {h \in cached : c[h].static}
      Fits(s) == /\ Cardinality(s) <= Depth
                 /\ s # cached => Cardinality(s) = Depth
                 /\ static \subseteq s \/ s \subseteq static
  IN  {[h \in Hops |-> IF h \in s THEN c[h].mac ELSE None] :
         s \in {t \in SUBSET cached : Fits(t)}}

(* update_arp_cache, with the write to the hardware it ends in. *)
UpdateArpCache(h, m, isStatic) ==
  /\ cache' = [cache EXCEPT ![h] = [mac |-> m, static |-> isStatic, age |-> 0]]
  /\ hw' \in HwImages(cache')

(* Mutant: the entries are deleted and the hardware is not rewritten. *)
EvictSoftwareOnly(gone) ==
  /\ cache' = [h \in Hops |-> IF h \in gone THEN None ELSE cache[h]]
  /\ hw' = hw

(* The cache without the entries of `gone', and the hardware after it: it  *)
(* is only rewritten when there was something to delete.                   *)
Evict(gone) ==
  /\ cache' = [h \in Hops |-> IF h \in gone THEN None ELSE cache[h]]
  /\ IF \E h \in gone : cache[h] # None
     THEN hw' \in HwImages(cache')
     ELSE hw' = hw

(* Queue entry e with the list of packets s. *)
WithPkts(e, s) == [pkts |-> s, reqs |-> e.reqs, age |-> e.age]

(* arp_queue_add on queue q: the first packet of a hop creates the entry   *)
(* and sends the first request.                                            *)
ArpQueueAdd(q, p, h) ==
  [q EXCEPT ![h] = IF @ = None
                   THEN [pkts |-> <<p>>, reqs |-> 1, age |-> 0]
                   ELSE WithPkts(@, Append(@.pkts, p))]

(* Mutant: the entry is not removed after its last packet. *)
DropHeadOnly(q, h) == [q EXCEPT ![h] = WithPkts(@, Tail(@.pkts))]

(* The first packet of the entry of h leaves queue q; after its last       *)
(* packet both loops remove the entry too.                                 *)
DropHead(q, h) ==
  [q EXCEPT ![h] = IF Tail(@.pkts) = << >> THEN None
                                           ELSE WithPkts(@, Tail(@.pkts))]

-----------------------------------------------------------------------------
(* send_ip, called by process_ip_packet and send_ip_packet inside their    *)
(* critical section: transmit if the hop is resolved, else queue.          *)
SendIp(i, h) ==
  /\ holder = "none"
  /\ fate[Data(i)] = "none"
  /\ IF cache[h] # None
     THEN /\ fate' = [fate EXCEPT ![Data(i)] = "sent"]
          /\ UNCHANGED queue
     ELSE /\ fate' = [fate EXCEPT ![Data(i)] = "queued"]
          /\ queue' = ArpQueueAdd(queue, Data(i), h)
  /\ UNCHANGED <<cache, hw, ttl, rx, arp, holder>>

-----------------------------------------------------------------------------
(* Mutant: the queue is not looked at after the cache is updated. *)
ProcessArpReplyCacheOnly(h, m) ==
  /\ rx.pc = "idle" /\ holder = "none"
  /\ UpdateArpCache(h, m, FALSE)
  /\ UNCHANGED <<queue, ttl, fate, rx, arp, holder>>

(* process_arp_reply, first critical section: update_arp_cache. *)
ProcessArpReply(h, m) ==
  /\ rx.pc = "idle" /\ holder = "none"
  /\ UpdateArpCache(h, m, FALSE)
  /\ rx' = [pc |-> "window", hop |-> h]
  /\ UNCHANGED <<queue, ttl, fate, arp, holder>>

(* process_arp_reply, second critical section: send_queued_packets looks   *)
(* for the hop's entry in the queue.                                       *)
SendQueuedPackets ==
  /\ rx.pc = "window" /\ holder = "none"
  /\ IF queue[rx.hop] = None
     THEN /\ rx' = [pc |-> "idle", hop |-> None]
          /\ UNCHANGED holder
     ELSE /\ rx' = [rx EXCEPT !.pc = "drain"]
          /\ holder' = "rx"
  /\ UNCHANGED <<cache, hw, queue, ttl, fate, arp>>

(* One turn of the loop over the entry's packets.  The successor is read   *)
(* before send_ip is called, and send_ip, when the hop is not resolved,    *)
(* appends the packet to this very entry: then the only packet of an entry *)
(* is lost with it, and two or more go round for ever.                     *)
DrainPacket ==
  LET h        == rx.hop
      p        == Head(queue[h].pkts)
      last     == Tail(queue[h].pkts) = << >>
      resolved == cache[h] # None
  IN
  /\ rx.pc = "drain"
  /\ IF resolved \/ last
     THEN /\ queue' = DropHead(queue, h)
          /\ fate' = [fate EXCEPT ![p] = IF resolved THEN "sent" ELSE "leaked"]
     ELSE /\ queue' = ArpQueueAdd(DropHead(queue, h), p, h)
          /\ UNCHANGED fate
  /\ rx' = IF last THEN [pc |-> "idle", hop |-> None] ELSE rx
  /\ holder' = IF last THEN "none" ELSE holder
  /\ UNCHANGED <<cache, hw, ttl, arp>>

-----------------------------------------------------------------------------
(* arp_thread: expire_arp_cache under the write lock. *)
ExpireArpCache ==
  /\ arp.pc = "expire" /\ holder = "none"
  /\ Evict({h \in Hops : /\ cache[h] # None
                         /\ ~cache[h].static
                         /\ cache[h].age > ttl})
  /\ arp' = [arp EXCEPT !.pc = "queue"]
  /\ UNCHANGED <<queue, ttl, fate, rx, holder>>

(* The locks for process_arp_queue are taken. *)
PassBegin ==
  /\ arp.pc = "queue" /\ holder = "none"
  /\ arp' = [pc |-> "pass", todo |-> {h \in Hops : queue[h] # None}, hop |-> None]
  /\ holder' = "arp"
  /\ UNCHANGED <<cache, hw, queue, ttl, fate, rx>>

(* Have all the requests of queue entry e been sent? *)
Exhausted(e) == e.reqs >= MaxRequests

(* process_arp_queue visits the entry of h: leave it, send another         *)
(* request, or start returning its packets.                                *)
VisitEntry(h) ==
  /\ arp.pc = "pass" /\ arp.hop = None /\ h \in arp.todo
  /\ \/ /\ queue[h].age <= 1
        /\ arp' = [arp EXCEPT !.todo = arp.todo \ {h}]
        /\ UNCHANGED queue
     \/ /\ queue[h].age > 1 /\ ~Exhausted(queue[h])
        /\ queue' = [queue EXCEPT ![h] =
                      [pkts |-> @.pkts, reqs |-> @.reqs + 1, age |-> 0]]
        /\ arp' = [arp EXCEPT !.todo = arp.todo \ {h}]
     \/ /\ queue[h].age > 1 /\ Exhausted(queue[h])
        /\ arp' = [pc |-> "pass", todo |-> arp.todo \ {h}, hop |-> h]
        /\ UNCHANGED queue
  /\ UNCHANGED <<cache, hw, ttl, fate, rx, holder>>

(* One packet of the entry that is given up.  An ICMP host unreachable     *)
(* goes back through the hop `back' of its sender, or nowhere (None) when  *)
(* there is no route; errors about errors and about our own packets are    *)
(* not sent.  The successor is read after the send, so an error appended   *)
(* to this very entry is met again, and freed.                             *)
GiveUpPacket(back) ==
  LET h       == arp.hop
      p       == Head(queue[h].pkts)
      e       == ErrOf(p)
      replies == ~p[2] /\ p[1] \in Errable /\ back # None
      queues  == replies /\ cache[back] = None
      q       == IF queues THEN ArpQueueAdd(queue, e, back) ELSE queue
      f       == CASE queues -> [fate EXCEPT ![e] = "queued"]
                   [] replies /\ ~queues -> [fate EXCEPT ![e] = "sent"]
                   [] OTHER -> fate
  IN
  /\ arp.pc = "pass" /\ h # None
  /\ queue' = DropHead(q, h)
  /\ fate' = [f EXCEPT ![p] = "freed"]
  /\ arp' = IF queue'[h] = None THEN [arp EXCEPT !.hop = None] ELSE arp
  /\ UNCHANGED <<cache, hw, ttl, rx, holder>>

(* Mutant: the locks are not released before the sleep. *)
PassEndLocked ==
  /\ arp.pc = "pass" /\ arp.hop = None /\ arp.todo = {}
  /\ arp' = [arp EXCEPT !.pc = "sleep"]
  /\ UNCHANGED <<cache, hw, queue, ttl, fate, rx, holder>>

(* The locks are released and arp_thread sleeps. *)
PassEnd ==
  /\ arp.pc = "pass" /\ arp.hop = None /\ arp.todo = {}
  /\ arp' = [arp EXCEPT !.pc = "sleep"]
  /\ holder' = "none"
  /\ UNCHANGED <<cache, hw, queue, ttl, fate, rx>>

(* A second passes.  sleep(1) is over when it has; a thread that waits for *)
(* a lock may be kept waiting for many.                                    *)
Tick ==
  /\ cache' = [h \in Hops |->
       IF cache[h] = None THEN None ELSE [cache[h] EXCEPT !.age = Older(@)]]
  /\ queue' = [h \in Hops |->
       IF queue[h] = None THEN None ELSE [queue[h] EXCEPT !.age = Older(@)]]
  /\ arp' = IF arp.pc = "sleep" THEN [arp EXCEPT !.pc = "expire"] ELSE arp
  /\ UNCHANGED <<hw, ttl, fate, rx, holder>>

-----------------------------------------------------------------------------
(* The operator.  Nothing keeps a command out of the window of a reply.    *)
CliArpAdd(h, m) ==
  /\ holder = "none"
  /\ UpdateArpCache(h, m, TRUE)
  /\ UNCHANGED <<queue, ttl, fate, rx, arp, holder>>

CliArpDel(h) ==
  /\ holder = "none"
  /\ Evict({h})
  /\ UNCHANGED <<queue, ttl, fate, rx, arp, holder>>

(* The hardware is rewritten even when the cache was empty. *)
CliNukeArpCache ==
  /\ holder = "none"
  /\ cache' = [h \in Hops |-> None]
  /\ hw' \in HwImages(cache')
  /\ UNCHANGED <<queue, ttl, fate, rx, arp, holder>>

(* rs->arp_ttl is written without a lock. *)
CliSetTtl(t) ==
  /\ ttl' = t
  /\ UNCHANGED <<cache, hw, queue, fate, rx, arp, holder>>

-----------------------------------------------------------------------------
Init ==
  /\ cache = [h \in Hops |-> None]
  /\ hw = [h \in Hops |-> None]
  /\ queue = [h \in Hops |-> None]
  /\ ttl = Ttl0
  /\ fate = [p \in Packets |-> "none"]
  /\ rx = [pc |-> "idle", hop |-> None]
  /\ arp = [pc |-> "expire", todo |-> {}, hop |-> None]
  /\ holder = "none"

RxStep == SendQueuedPackets \/ DrainPacket

ArpThread ==
  \/ ExpireArpCache
  \/ PassBegin
  \/ \E h \in Hops : VisitEntry(h)
  \/ \E b \in Hops \cup {None} : GiveUpPacket(b)
  \/ PassEnd

Cli ==
  \/ \E h \in Hops, m \in Macs : CliArpAdd(h, m)
  \/ \E h \in Hops : CliArpDel(h)
  \/ CliNukeArpCache
  \/ \E t \in TtlValues : CliSetTtl(t)

Next ==
  \/ \E i \in Ids, h \in Hops : SendIp(i, h)
  \/ \E h \in Hops, m \in Macs : ProcessArpReply(h, m)
  \/ RxStep
  \/ ArpThread
  \/ Cli
  \/ Tick

Spec == Init /\ [][Next]_vars

(* The two threads are scheduled, and time passes. *)
Fairness == WF_vars(RxStep) /\ WF_vars(ArpThread) /\ WF_vars(Tick)

FairSpec == Spec /\ Fairness

-----------------------------------------------------------------------------
(* The places of the packets that wait for h in queue q. *)
Places(q, h) == IF q[h] = None THEN {} ELSE DOMAIN q[h].pkts

(* The packets of fate "queued" in f are those in q, each in one place. *)
Owns(q, f) ==
  /\ \A h \in Hops : q[h] # None => Places(q, h) # {}
  /\ \A p \in Packets :
       f[p] = "queued" <=>
         \E h \in Hops : \E k \in Places(q, h) : q[h].pkts[k] = p
  /\ \A g, h \in Hops : \A j \in Places(q, g), k \in Places(q, h) :
       q[g].pkts[j] = q[h].pkts[k] => g = h /\ j = k

(* The queue owns its packets: a packet waits in it exactly as long as it  *)
(* has been neither transmitted nor freed, and in one place only, so that  *)
(* no thread of or_arp.c transmits or frees a packet twice; and no entry   *)
(* is left behind without a packet.                                        *)
QueueOwnsPackets == Owns(queue, fate)

(* No packet waits behind an address the router has learned: when the      *)
(* cache holds the hop of a queue entry, either the packet thread is about *)
(* to send that entry (the two halves of process_arp_reply) or the         *)
(* operator entered the address, which does not look at the queue.         *)
NoWaitBehindLearnedHop ==
  \A h \in Hops :
    queue[h] # None /\ cache[h] # None =>
      \/ rx.pc \in {"window", "drain"} /\ rx.hop = h
      \/ cache[h].static

(* Whatever the threads do, the table in the NetFPGA is a rewrite of the   *)
(* present software cache: it never keeps an address the software has      *)
(* dropped or changed, and it lacks one only when its rows are exhausted.  *)
HwMirrorsCache == hw \in HwImages(cache)

(* The hop of a reply was evicted in the window of process_arp_reply while *)
(* two or more packets waited for it: send_queued_packets takes them off   *)
(* the list and send_ip puts them back, with the locks held, for ever: no  *)
(* step of any thread ends this.                                           *)
RoundForEver ==
  /\ rx.pc = "drain"
  /\ cache[rx.hop] = None
  /\ Len(queue[rx.hop].pkts) > 1

(* Every packet that send_ip queued is transmitted, answered or lost: the  *)
(* reply comes, or arp_thread runs out of requests.  The one way to wait   *)
(* for ever, for the packets of every hop, is the endless round of         *)
(* send_queued_packets (or_arp.c:185-195) over a hop that was evicted in   *)
(* the window of its reply.                                                *)
QueuedPacketLeaves ==
  \A p \in Packets :
    fate[p] = "queued" ~> (fate[p] # "queued" \/ RoundForEver)

(* "This function takes responsibility for finding the target MAC address, *)
(* and freeing packet" (send_ip, or_main.c:752): no packet is abandoned.   *)
NoPacketLeaked == \A p \in Packets : fate[p] # "leaked"
=============================================================================
