------------------------------- MODULE SconeLocks -------------------------------
(* The threads of SCONE and the locks they share.  A handler is modelled by what  *)
(* it does to the locks, to the data they guard and to the transport thread: it   *)
(* is the set of the traces - sequences of steps - that its branches can take.    *)
(* What is computed from the data is left to the other modules.                   *)
(*                                                                                *)
(* A thread executes passes of its role's program.  `rest' keeps every trace that *)
(* agrees with what the thread has done in this pass: which branch it is on is    *)
(* decided by the step it takes.                                                  *)
(*                                                                                *)
(* A repeated call (a packet per interface, an answer in several parts, one       *)
(* register after the other) is modelled by one of them.  NAT is left out: its    *)
(* thread and commands are commented out in or_main.c and is_wan is always 0.     *)
EXTENDS Integers, Sequences, FiniteSets

CONSTANTS Threads,     \* the threads
          Transport    \* the one that runs the TCP stack (transport_subsys.c)

VARIABLES role,        \* [Threads -> Roles]
          rest,        \* [Threads -> sets of traces], what is left of the pass
          held,        \* [Threads -> sets of <<lock, mode>>]
          asks,        \* the threads that wait for the transport thread's answer
          serves,      \* the thread it works for, Transport itself for a timer or a packet
          leaks        \* the threads that returned with a lock held

vars == <<role, rest, held, asks, serves, leaks>>

(* The locks, in the order in which the code nests them.  "answer" stands for the *)
(* wait for the transport thread.                                                 *)
Order == <<"cli_commands", "answer", "lsu_bcast", "dijkstra", "arp_cache", "arp_queue",
           "if_list", "rtable", "router_list", "lsu_queue", "sping_queue", "www_queue",
           "filters", "stats", "write", "log", "mbox">>
Locks == {Order[i] : i \in 1 .. 17}
Rank == [l \in Locks |-> CHOOSE i \in 1 .. 17 : Order[i] = l]
Modes == {"rd", "wr"}

(* The data a lock of the same name guards, and the registers of the hardware: a  *)
(* table is written through staging registers, under the lock of the table they   *)
(* are loaded from; no lock belongs to the interfaces' registers and the counters. *)
Data == Locks \cup {"arp_hw", "rtable_hw", "filters_hw", "iface_hw", "counters"}

Waits == {"rd", "wr", "await"}
Ops == Waits \cup {"rel", "use", "bare", "leak", "post", "fetch", "answer"}
Steps == {s \in [op : Ops, lock : Locks, r : SUBSET Data, w : SUBSET Data] :
            s.op = "await" => s.lock = "answer"}

(* Programs: sets of traces.                                                      *)
Do(op, l, r, w) == {<<[op |-> op, lock |-> l, r |-> r, w |-> w]>>}
Rd(l) == Do("rd", l, {}, {})
Wr(l) == Do("wr", l, {}, {})
Rel(l) == Do("rel", l, {}, {})
Use(r, w) == Do("use", "answer", r, w)
Skip == {<<>>}
p ++ q == {a \o b : a \in p, b \in q}
Opt(p) == p \cup Skip
(* The two lapses of the code: data is used without its lock, and a handler        *)
(* returns without the unlock calls that are on its other branches.                *)
Bare(r, w) == Do("bare", "answer", r, w)
Leak == Do("leak", "answer", {}, {})
Reading(l, p) == Rd(l) ++ p ++ Rel(l)
Writing(l, p) == Wr(l) ++ p ++ Rel(l)

--------------------------------------------------------------------------------
(* Sending and the packet thread.                                                 *)

(* netfpga_output: the log is shared with the thread that reads packets.          *)
NetfpgaOutput == Writing("log", Use({}, {"log"})) ++ Use({}, {"write"})
SendPacket == Writing("write", NetfpgaOutput)

(* Some callers have the interface list locked ("use"), some do not ("bare").      *)
SendArpRequest(how) == Do(how, "answer", {"if_list"}, {}) ++ SendPacket
ArpQueueAdd(how) ==
  Use({"arp_queue"}, {}) ++ Opt(SendArpRequest(how)) ++ Use({}, {"arp_queue"})
SendIp == Use({"arp_cache"}, {}) ++ (SendPacket \cup ArpQueueAdd("use"))

(* The four locks under which an IP packet is sent or processed.                  *)
LockIp == Rd("arp_cache") ++ Wr("arp_queue") ++ Rd("if_list") ++ Rd("rtable")
UnlockIp == Rel("rtable") ++ Rel("if_list") ++ Rel("arp_queue") ++ Rel("arp_cache")
GetNextHop == Use({"rtable"}, {})

(* send_ip_packet, for the transport thread.  Without a route it returns at once. *)
SendIpPacket ==
  LockIp ++ GetNextHop ++ ((Use({"if_list"}, {}) ++ SendIp ++ UnlockIp) \cup Leak)

SendIcmpPacket == GetNextHop ++ Opt(Use({"if_list"}, {}) ++ SendIp)

ProcessIcmpEchoReply == Writing("sping_queue", Use({}, {"sping_queue"}))
ProcessIcmpPacket == SendIcmpPacket \cup ProcessIcmpEchoReply \cup Skip

(* sr_transport_input posts the packet; sys_mbox_post never waits for room.        *)
MboxPost == Writing("mbox", Use({}, {"mbox"}))
SrTransportInput == MboxPost

--------------------------------------------------------------------------------
(* PWOSPF.                                                                        *)

(* broadcast_pwospf_lsu_packet queues an LSU for each neighbour of each interface. *)
BroadcastLsu(how) ==
  Do(how, "answer", {"if_list"}, {}) ++ Opt(Writing("lsu_queue", Use({}, {"lsu_queue"})))
StartLsuBcastFlood(how) ==
  Opt(Use({"router_list"}, {}) ++ BroadcastLsu(how) ++ Use({}, {"router_list"}))
PropagatePwospfChanges(how) ==
  Use({}, {"router_list"}) ++ StartLsuBcastFlood(how)

(* mutant: a hello is processed under the read lock.                              *)
ProcessHelloRd ==
  Rel("rtable") ++ Rd("rtable") ++ Wr("router_list")
    ++ Use({}, {"if_list", "router_list"}) ++ Opt(PropagatePwospfChanges("use"))
    ++ Rel("router_list")

(* process_pwospf_hello_packet gives up the packet's read lock to take the write   *)
(* lock; a hello with another mask returns before the router list is unlocked.     *)
ProcessHello ==
  Rel("rtable") ++ Rel("if_list") ++ Wr("if_list") ++ Rd("rtable") ++ Wr("router_list")
    ++ ((Use({}, {"if_list", "router_list"}) ++ Opt(PropagatePwospfChanges("use"))
          ++ Rel("router_list"))
        \cup (Use({"if_list"}, {}) ++ Leak))
ProcessLsu ==
  Rel("rtable") ++ Wr("rtable") ++ Wr("router_list") ++ Use({}, {"router_list"})
    ++ Opt(BroadcastLsu("use")) ++ Opt(PropagatePwospfChanges("use")) ++ Rel("router_list")
ProcessPwospfPacket == ProcessHello \cup ProcessLsu \cup Skip

(* broadcast_pwospf_hello_packet, called under the interfaces' write lock.          *)
DetermineTimedoutInterface ==
  Writing("router_list", Use({}, {"if_list", "router_list"}))
BroadcastHello ==
  Use({"if_list"}, {}) ++ SendPacket ++ Use({}, {"if_list"}) ++ DetermineTimedoutInterface
    ++ Opt(Writing("router_list", PropagatePwospfChanges("use")))
PwospfHelloThread == Writing("if_list", BroadcastHello)

(* The LSU and the timeout threads read the interfaces without their lock.         *)
FloodUnderRouterList == Writing("router_list", StartLsuBcastFlood("bare"))
PwospfLsuThread ==
  Writing("router_list", Use({"router_list"}, {})) ++ Bare({"router_list"}, {})
    ++ Opt(FloodUnderRouterList)
PwospfLsuTimeoutThread ==
  Writing("router_list", Use({"router_list"}, {})
            ++ Opt(Use({}, {"router_list"}) ++ PropagatePwospfChanges("bare")))

(* mutant: the queue is kept locked while its packets are sent.                    *)
LsuBcastKeepsQueue ==
  Wr("lsu_bcast") ++ Rel("lsu_bcast") ++ Wr("lsu_bcast")
    ++ Writing("lsu_queue", Use({}, {"lsu_queue"}) ++ LockIp ++ GetNextHop ++ Opt(SendIp)
                 ++ UnlockIp)
    ++ Rel("lsu_bcast")

(* The condition wait gives up the mutex and takes it again.                       *)
PwospfLsuBcastThread ==
  Wr("lsu_bcast") ++ Rel("lsu_bcast") ++ Wr("lsu_bcast")
    ++ Writing("lsu_queue", Use({}, {"lsu_queue"}))
    ++ LockIp ++ Opt(GetNextHop ++ Opt(SendIp)) ++ UnlockIp ++ Rel("lsu_bcast")

--------------------------------------------------------------------------------
(* Packets and the threads of ARP, routes and statistics.                          *)

Forward == GetNextHop ++ (SendIcmpPacket \cup (Use({"if_list"}, {}) ++ SendIp))
ProcessIpPacket ==
  LockIp ++ Use({"if_list"}, {})
    ++ (SrTransportInput \cup ProcessIcmpPacket \cup SendIcmpPacket \cup ProcessPwospfPacket
        \cup Forward)
    ++ UnlockIp
ProcessArpRequest == Reading("if_list", Use({"if_list"}, {}) ++ Opt(SendPacket))

(* update_arp_cache writes the table to the hardware.                              *)
TriggerArpCacheModified == Use({"arp_cache"}, {"arp_cache", "arp_hw"})
UpdateArpCache == Use({}, {"arp_cache"}) ++ TriggerArpCacheModified
DelArpCache == Use({}, {"arp_cache"})

(* The entry may be gone again when the queue is sent: the packet is then queued   *)
(* and asked for with no lock on the interfaces.                                   *)
SendQueuedPackets ==
  Use({"arp_queue"}, {})
    ++ Opt(Use({"arp_cache"}, {})
            ++ (SendPacket \cup ArpQueueAdd("bare")) ++ Use({}, {"arp_queue"}))
ProcessArpReply ==
  Writing("arp_cache", UpdateArpCache)
    ++ Reading("arp_cache", Writing("arp_queue", SendQueuedPackets))
IfaceIsActive == Reading("if_list", Use({"if_list"}, {}))
ProcessPacket ==
  IfaceIsActive ++ (ProcessIpPacket \cup ProcessArpRequest \cup ProcessArpReply \cup Skip)
NetfpgaInput == Writing("log", Use({}, {"log"})) ++ ProcessPacket

ExpireArpCache == Use({}, {"arp_cache"}) ++ Opt(TriggerArpCacheModified)
ProcessArpQueue ==
  Use({"arp_queue"}, {})
    ++ Opt((Use({}, {"arp_queue"}) ++ SendArpRequest("use"))
           \cup (Use({"if_list"}, {}) ++ Opt(SendIcmpPacket) ++ Use({}, {"arp_queue"})))
ArpThread ==
  Writing("arp_cache", ExpireArpCache) ++ LockIp ++ ProcessArpQueue ++ UnlockIp

TriggerRtableModified == Use({"rtable"}, {"rtable", "rtable_hw"})
DijkstraThread ==
  Wr("dijkstra") ++ Rel("dijkstra") ++ Wr("dijkstra")
    ++ Opt(Reading("if_list", Writing("rtable", Writing("router_list",
             Use({"if_list", "router_list"}, {"rtable"}) ++ TriggerRtableModified))))
    ++ Rel("dijkstra")

(* The counters of the queues, which only the hardware writes.                    *)
GetQueueCounters == Use({"counters"}, {})
NetfpgaStats == Writing("stats", GetQueueCounters ++ Use({}, {"stats"}))
SpingQueueCleanup == Writing("sping_queue", Use({}, {"sping_queue"}))

--------------------------------------------------------------------------------
(* The command line.  A socket call goes through the transport thread: the         *)
(* request is posted and its answer awaited.                                       *)

CallTransport ==
  Writing("mbox", Do("post", "mbox", {}, {"mbox"})) ++ Do("await", "answer", {}, {})

SendToSocket == CallTransport

SprintArpCache == Use({"arp_cache"}, {})
SprintIfList == Use({"if_list"}, {})
SprintRtable == Use({"rtable"}, {})
SprintPwospfIfList == Use({"if_list"}, {})
SprintPwospfRouterList == Use({"router_list"}, {})
(* Reading a row of a hardware table loads its staging registers.                  *)
SprintHwArpCache == Bare({}, {"arp_hw"})
SprintHwRtable == Bare({}, {"rtable_hw"})
SprintHwLocalIpFilter == Bare({}, {"filters_hw"})
ReadHwIfaceMac == Use({"iface_hw"}, {})
WriteHwIfaceMac == Bare({}, {"iface_hw"})
SprintHwIface == ReadHwIfaceMac
SprintHwDrops == Use({"counters"}, {})
SprintHwStats == Writing("stats", Use({"stats"}, {}))

CliShowIpArp == Reading("arp_cache", SprintArpCache) ++ SendToSocket

CliShowIpIface == Reading("if_list", SprintIfList) ++ SendToSocket
CliShowIpRtable == Reading("rtable", SprintRtable) ++ SendToSocket
CliShowPwospfIface == Reading("if_list", SprintPwospfIfList) ++ SendToSocket
CliShowPwospfRouterList == Writing("router_list", SprintPwospfRouterList) ++ SendToSocket
CliShowPwospfInfo ==
  CliShowPwospfRouterList ++ CliShowPwospfIface
CliShowHwArpCache == SprintHwArpCache ++ SendToSocket
CliShowHwRtable == SprintHwRtable ++ SendToSocket
CliShowHwInterface == SprintHwIface ++ SendToSocket
CliHwCounters == GetQueueCounters ++ SendToSocket
CliHwInfo ==
  SprintHwStats ++ SendToSocket ++ SprintHwDrops ++ SprintHwIface ++ SprintHwLocalIpFilter
    ++ SprintHwRtable ++ SprintHwArpCache ++ SendToSocket
(* An interface's registers are read, changed and written back with no lock.       *)
SetHwIface == ReadHwIfaceMac ++ Bare({}, {"iface_hw"})
CliHwInterfaceSet == SetHwIface ++ SendToSocket
CliHwInterfaceAdd == WriteHwIfaceMac ++ SendToSocket

(* The commands that only answer, or set one word of the router's state.           *)
CliHelp == SendToSocket
CliShowVns == SendToSocket
CliPwospfSet == SendToSocket

CliIpArpAdd == Writing("arp_cache", UpdateArpCache) ++ SendToSocket
CliIpArpDel == Writing("arp_cache", DelArpCache ++ Opt(TriggerArpCacheModified)) ++ SendToSocket
CliNukeArpCache ==
  Writing("arp_cache", DelArpCache ++ Opt(TriggerArpCacheModified)) ++ SendToSocket
CliNukeHwArp == Bare({}, {"arp_hw"}) ++ SendToSocket

AddRoute == Use({}, {"rtable"}) ++ TriggerRtableModified
DelRoute == Use({}, {"rtable"}) ++ TriggerRtableModified

(* mutant: the answer is sent before the lock is released.                         *)
RouteAddKeepsLock == Writing("rtable", AddRoute ++ SendToSocket)

CliIpRouteAdd == Writing("rtable", AddRoute) ++ SendToSocket
CliIpRouteDel == Writing("rtable", DelRoute) ++ SendToSocket

(* iface_up and iface_down change our router's interface list before they lock it. *)
ActivateRoutes == Use({}, {"rtable"}) ++ TriggerRtableModified
IfaceUp ==
  Use({}, {"if_list"}) ++ Opt(ActivateRoutes ++ Bare({}, {"router_list"})
                               ++ Writing("router_list", PropagatePwospfChanges("use")))
IfaceDown ==
  Use({}, {"if_list"}) ++ Opt(ActivateRoutes ++ Bare({}, {"router_list"})
                               ++ Opt(Writing("router_list", PropagatePwospfChanges("use"))))
IfaceUpdate == Use({}, {"if_list"})
CliIpInterface ==
  Opt(Writing("if_list", Writing("rtable", IfaceUp \cup IfaceDown))
      \cup Writing("if_list", IfaceUpdate))
    ++ SendToSocket

CliPwospfSendHello == Writing("if_list", BroadcastHello) ++ SendToSocket
CliPwospfSendLsu == FloodUnderRouterList ++ SendToSocket

(* cli_sping holds no lock while it looks up, queues and sends its echo request.   *)
SendIcmpEchoRequest ==
  Bare({"if_list", "rtable", "arp_cache"}, {})
    ++ (SendPacket \cup (Bare({}, {"arp_queue"}) ++ Opt(SendPacket)))
WaitForReply ==
  Wr("sping_queue") ++ Rel("sping_queue") ++ Writing("sping_queue", Opt(Use({}, {"sping_queue"})))
CliSping == Opt(SendIcmpEchoRequest ++ WaitForReply) ++ SendToSocket

Commands ==
  UNION {CliShowIpArp, CliShowIpIface, CliShowIpRtable, CliShowPwospfIface,
         CliShowPwospfRouterList, CliShowPwospfInfo, CliShowHwArpCache, CliShowHwRtable,
         CliHwInfo, CliIpArpAdd, CliIpArpDel, CliNukeArpCache, CliNukeHwArp, CliIpRouteAdd,
         CliIpRouteDel, CliIpInterface, CliPwospfSendHello, CliPwospfSendLsu, CliSping,
         CliShowHwInterface, CliHwInterfaceSet, CliHwInterfaceAdd, CliHwCounters, CliHelp,
         CliShowVns, CliPwospfSet}

(* The command line looks its commands up without the lock; they never change      *)
(* after init_cli.  An unknown command is only answered.                           *)
CliCommandLpm == Use({"cli_commands"}, {})
ProcessClientRequest == Bare({"cli_commands"}, {}) ++ Commands
CliMain == CallTransport

--------------------------------------------------------------------------------
(* The web server.  A command page runs the command under the commands' read lock. *)

WwwMain == CallTransport ++ Writing("www_queue", Use({}, {"www_queue"}))
ListCommands == Reading("cli_commands", Use({"cli_commands"}, {}))
CommandPage == SendToSocket ++ Reading("cli_commands", CliCommandLpm ++ Commands)
ServiceRequest ==
  (ListCommands ++ SendToSocket) \cup (SprintHwStats ++ SendToSocket)
    \cup CommandPage \cup SendToSocket
WwwClientThread ==
  Wr("www_queue")
    ++ ((Rel("www_queue") ++ Wr("www_queue") ++ Rel("www_queue"))
        \cup (Use({}, {"www_queue"}) ++ Rel("www_queue") ++ ServiceRequest))

(* The transport thread: a request, a packet or a timer makes it send or not.      *)
FindSrcip == Reading("if_list", Reading("rtable", Use({"if_list", "rtable"}, {})))
TransportThread ==
  Writing("mbox", Do("fetch", "mbox", {}, {"mbox"})) ++ Opt(FindSrcip)
    ++ Opt(SendIpPacket) ++ Do("answer", "answer", {}, {})

--------------------------------------------------------------------------------
(* Startup.  init starts the threads of ARP, PWOSPF, routes and statistics before   *)
(* the interfaces, our router's entry and the static routes are there; the others   *)
(* start when the main thread is done.                                              *)

AddLocalIpFilter ==
  Writing("filters", Use({}, {"filters"})) ++ Writing("filters", Use({}, {"filters", "filters_hw"}))
InitAddInterface == Bare({}, {"if_list", "iface_hw"}) ++ AddLocalIpFilter
InitRouterList == Bare({"if_list"}, {"router_list"})
InitRtable ==
  Writing("rtable", Opt(AddRoute)) ++ Opt(Writing("router_list", Use({}, {"router_list"})))
InitCli == Writing("cli_commands", Use({}, {"cli_commands"}))
StartUp == InitAddInterface ++ InitRouterList ++ InitRtable ++ InitCli

Early == {"main", "arp", "hello", "lsu", "timeout", "bcast", "dijkstra", "stats"}
Program ==
  [main |-> StartUp, cli_main |-> CliMain, packet |-> NetfpgaInput, transport |-> TransportThread, arp |-> ArpThread,
   hello |-> PwospfHelloThread, lsu |-> PwospfLsuThread, timeout |-> PwospfLsuTimeoutThread,
   bcast |-> PwospfLsuBcastThread, dijkstra |-> DijkstraThread, stats |-> NetfpgaStats,
   cleanup |-> SpingQueueCleanup, cli |-> ProcessClientRequest, www_main |-> WwwMain,
   www |-> WwwClientThread]
Roles == DOMAIN Program
Many == {"cli", "www"}     \* the roles that several threads have

ASSUME SconeLocksAssumption == Transport \in Threads

--------------------------------------------------------------------------------

NextSteps(t) == {Head(q) : q \in rest[t] \ {<<>>}}

(* The threads that have to move before t can take step s.                         *)
WaitsFor(t, s) ==
  {u \in Threads : \/ s.op = "rd" /\ <<s.lock, "wr">> \in held[u]
                   \/ s.op = "wr" /\ \E m \in Modes : <<s.lock, m>> \in held[u]
                   \/ s.op = "await" /\ t \in asks /\ u = Transport}

Init ==
  /\ role \in {f \in [Threads -> Roles] :
                 /\ \A t \in Threads : f[t] = "transport" <=> t = Transport
                 /\ \A t, u \in Threads : f[t] = f[u] => t = u \/ f[t] \in Many}
  /\ rest = [t \in Threads |-> IF role[t] = "main" THEN StartUp ELSE Skip]
  /\ held = [t \in Threads |-> {}]
  /\ asks = {}
  /\ serves = Transport
  /\ leaks = {}

(* A pass ends and the next one begins.  Bound: after a leak the passes under way   *)
(* end, and none begins.                                                           *)
Begin(t) ==
  /\ leaks = {}
  /\ <<>> \in rest[t] /\ role[t] # "main"
  /\ role[t] \in Early \/ \A u \in Threads : role[u] = "main" => rest[u] = Skip
  /\ rest' = [rest EXCEPT ![t] = Program[role[t]]]
  /\ UNCHANGED <<role, held, asks, serves, leaks>>

Advance(t, s) == rest' = [rest EXCEPT ![t] = {Tail(q) : q \in {x \in @ \ {<<>>} : Head(x) = s}}]

Acquire(t) ==
  \E s \in NextSteps(t) :
    /\ s.op \in Modes /\ WaitsFor(t, s) = {}
    /\ Advance(t, s)
    /\ held' = [held EXCEPT ![t] = @ \cup {<<s.lock, s.op>>}]
    /\ UNCHANGED <<role, asks, serves, leaks>>

Release(t) ==
  \E s \in NextSteps(t) :
    /\ s.op = "rel"
    /\ Advance(t, s)
    /\ held' = [held EXCEPT ![t] = @ \ ({s.lock} \X Modes)]
    /\ UNCHANGED <<role, asks, serves, leaks>>

Access(t) ==
  \E s \in NextSteps(t) :
    s.op \in {"use", "bare"} /\ Advance(t, s) /\ UNCHANGED <<role, held, asks, serves, leaks>>

(* The unlock calls are passed over.                                                *)
Return(t) ==
  \E s \in NextSteps(t) :
    s.op = "leak" /\ Advance(t, s) /\ leaks' = leaks \cup {t} /\ UNCHANGED <<role, held, asks, serves>>

(* A client and the transport thread.                                               *)
Post(t) ==
  \E s \in NextSteps(t) :
    s.op = "post" /\ Advance(t, s) /\ asks' = asks \cup {t} /\ UNCHANGED <<role, held, serves, leaks>>
Await(t) ==
  \E s \in NextSteps(t) :
    /\ s.op = "await" /\ WaitsFor(t, s) = {}
    /\ Advance(t, s) /\ UNCHANGED <<role, held, asks, serves, leaks>>
Fetch(t) ==
  \E s \in NextSteps(t), u \in asks \cup {Transport} :
    s.op = "fetch" /\ Advance(t, s) /\ serves' = u /\ UNCHANGED <<role, held, asks, leaks>>
Answer(t) ==
  \E s \in NextSteps(t) :
    /\ s.op = "answer" /\ Advance(t, s)
    /\ asks' = asks \ {serves} /\ serves' = Transport
    /\ UNCHANGED <<role, held, leaks>>

Next ==
  \E t \in Threads : \/ Begin(t) \/ Acquire(t) \/ Release(t) \/ Access(t) \/ Post(t) \/ Await(t)
                     \/ Fetch(t) \/ Answer(t) \/ Return(t)

Spec == Init /\ [][Next]_vars

--------------------------------------------------------------------------------
(* What the state is made of.                                                       *)
TypeOK ==
  /\ role \in [Threads -> Roles]
  /\ rest \in [Threads -> SUBSET Seq(Steps)]
  /\ held \in [Threads -> SUBSET (Locks \X Modes)]
  /\ asks \subseteq Threads /\ leaks \subseteq Threads /\ serves \in Threads

(* What a thread keeps others from: the locks it holds, and the transport thread    *)
(* its answers.                                                                     *)
Binds(t) == {h[1] : h \in held[t]} \cup (IF t = Transport THEN {"answer"} ELSE {})

(* Every handler takes its locks in the one order, takes none twice, and asks the   *)
(* transport thread, which needs the router's locks to answer, with none of them    *)
(* held: what the lock and unlock calls of or_arp.c, or_ip.c, or_iface.c,           *)
(* or_rtable.c, or_pwospf.c, or_dijkstra.c, or_www.c and the command handlers keep  *)
(* to.                                                                              *)
LockOrder ==
  \A t \in Threads : \A s \in NextSteps(t) : s.op \in Waits =>
    \A l \in Binds(t) : Rank[l] < Rank[s.lock]

NoCycle ==
  \A B \in (SUBSET Threads) \ {{}} :
    ~ \A t \in B : \E s \in NextSteps(t) : WaitsFor(t, s) \cap B # {}
RestsUnlocked == \A t \in Threads : <<>> \in rest[t] /\ held[t] # {} => t \in leaks

(* No set of threads, each before a step that waits for another of them: no order    *)
(* of the handlers ends with everyone waiting for everyone.  And a thread rests     *)
(* with no lock held, so whoever waits for it is let through, unless it returned    *)
(* from send_ip_packet without a route or from a hello with another mask (the hello *)
(* and LSU handlers swap two of the packet's locks on the way).                     *)
NoDeadlock == NoCycle /\ RestsUnlocked

(* No thread changes a list, a queue, a table or its staging registers while        *)
(* another one uses them, except where the code takes no lock: the startup before    *)
(* the lists exist, the hardware commands, cli_sping, and the walks of the          *)
(* interface list that the packet and PWOSPF threads make without its lock.         *)
NoRace ==
  \A t, u \in Threads : t # u =>
    \A s \in NextSteps(t), v \in NextSteps(u) :
      s.w \cap (v.r \cup v.w) # {} => "bare" \in {s.op, v.op}

================================================================================
