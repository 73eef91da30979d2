# Verification of NetFPGA-RC-OMF

This directory holds TLA+ models of the parts of the repository that keep state
under concurrency, the TLC runs that check them, and TLAPS proofs about them.
`PROJECT.json` lists components, runs, mutants, source lines, hazards and
theorems; this file explains them.

## 1. The system

The repository has two halves that meet in one testbed node.

**A. The OMF resource controller** (`src/lib/omf_rc`, Ruby). A process with an
event loop keeps a tree of *resource proxies*. Clients send messages over a
publish/subscribe network (the `omf_common` gem, not in the repository).

| part | state | operations | hard because | module |
|---|---|---|---|---|
| `abstract_resource.rb` | children, topics, membership | create, release, release_self, configure_membership, dispatch | subscriptions call back later, in any order; release is recursive over a list it changes; errors half-way | `ResourceTree` |
| `application.rb` | state property, programs, timers | configure state, the five switches, process_event | deferred requests, two timers per stop, programs that end by themselves, callbacks from another thread | `Application` |
| `virtual_machine.rb` | state, broker topics | configure_all, actions in threads, boot monitor | check-then-act in threads, lost broker answers | - |
| `node`, `net`, `wlan`, `switch`, `netfpga1`, `virtual_node`, `hipervisor`, `datacom` | properties | request, configure | shell commands; no state beyond the tree | - |
| `util/*`, `resource_proxy_dsl.rb`, `runner.rb` | none | wrappers, metaprogramming, start-up | - | - |

**B. The NetFPGA reference projects** (`src/reference-projects/netfpga`): the
SCONE router (C, threads and locks) with its own TCP stack, the kernel driver,
tools, and the Verilog of the board.

| part | state | operations | hard because | module |
|---|---|---|---|---|
| `or_arp.c`, `send_ip` | ARP cache, hardware table, queue of waiting packets | replies, arp_thread, `ip arp`, send_ip | a reply is two critical sections; loops over lists that grow under them; ages; table depth | `SconeArp` |
| `or_rtable.c`, `iface_up/down`, `dijkstra_thread` | routing table, hardware rows, interfaces | route add/del, up/down, recomputation | longest prefix against first row; rows are written while packets flow; unlocked flag and signal | `SconeRtable` |
| `or_dijkstra.c` | router list, `prev_router` | compute_rtable | values kept from earlier runs | `Dijkstra` |
| `or_pwospf.c` | neighbours, database, LSU queue | hello, LSU, timeouts, flooding | loss, order, sequence numbers, condition variables | `Pwospf`, `LinkState` |
| all of SCONE | its locks and threads | every handler and command | lock order, returns with locks held, accesses without a lock | `SconeLocks` |
| `lwtcp/tcp*.c` | control blocks, segment queues | segments, timers, calls | loss, reordering, retransmission, wrap-around | `Lwtcp` |
| `lwtcp/api_*.c`, `sockets.c`, `sys_arch.c`; `or_cli.c`, `or_www.c` as users | netconns, mailboxes, socket table | socket calls, callbacks | two threads share a netconn without a lock | `Netconn` |
| `lwtcp/mem.c`, `memp.c`, `pbuf.c` | heap, pool, pbufs | alloc, free, realloc, chain, header | reference counts, exhaustion, alignment | `LwipMem` |
| `lib/C/kernel` | transmit ring, DMA flags, what probe acquired | probe, open, transmit, interrupt, watchdog | a lock-free send called from three contexts; failures at each step | `Nf2Driver` |
| `lib/C/reg_lib`, `common`, `download` | connections, Virtex FIFO | register access, download, device check | several programs at one interface, failed accesses, killed clients | `RegProxy` |
| `or_nat.c` | NAT table | - | not reachable (section 9) | - |
| `lib/verilog`, Perl, Java, Python | - | - | section 9 | - |

How they interact: the packet thread of SCONE calls `process_ip_packet`, which
looks the next hop up in the routing table and hands the packet to `send_ip`,
which needs the ARP cache or queues; PWOSPF changes the database and triggers
`dijkstra_thread`, which replaces the dynamic routes; both tables are copied to
the board, which forwards by itself and sends what it cannot forward to the CPU.
Packets for the router itself go to the TCP stack, whose transport thread serves
the command line and the web server. `SconeLocks` is where all these threads
meet; the other modules take one subsystem each, with the steps of the others
that it can see as actions of their own (for example `TopologyChange` in
`SconeRtable` stands for PWOSPF, the peer's actions in `Netconn` for `Lwtcp`).

## 2. Modules

The theorems are in eight modules that extend what they are about:
`SconePacketProofs` (`SconeArp` and `LwipMem`), `SconeRoutingProofs` (`SconeRtable`
and `Dijkstra`), `OmfProofs` (`ResourceTree` and `Application`), and
`NetFpgaProofs` (`Nf2Driver` and `RegProxy`), and `SconeLocksProofs`, `PwospfProofs`,
`NetconnProofs` and `LwtcpProofs`, named after theirs. Where two components meet in one
module, the specification of one has a prefix (`MemSpec`, `PathsSpec`, `AppSpec`,
`DrvSpec`). Each
`MC*` module gives a module's constants values for TLC. `Pwospf` instantiates `LinkState`. Every definition that
models code has its lines in `PROJECT.json` under `map`. A definition marked
`mutant` in a comment is a wrong version of the definition that follows it: it
shows that a property can fail.

### SconeArp
State: `cache`, `hw`, `queue` (functions on the next hops), `ttl`, the control
states `rx` of the packet thread and `arp` of arp_thread, and `holder`, which of
the two is inside a loop over queued packets and so holds `arp_queue_lock` for
writing. `fate` is a history variable: where each packet went.
`process_arp_reply` is `ProcessArpReply` (update_arp_cache) and
`SendQueuedPackets` with `DrainPacket` (send_queued_packets, a turn of the loop
each); `arp_thread` is `ExpireArpCache`, `PassBegin`, `VisitEntry`,
`GiveUpPacket`, `PassEnd`; `Tick` is the clock and the end of `sleep(1)`.
Writing the whole hardware table is one step, since it happens under the write
lock of the cache and nothing in this module looks at the table in between.
Abstracted: addresses, packet contents, the order of the list (which decides
what is left out of a full hardware table: `HwImages` allows every choice with
the static entries first). Nothing is held between the two critical sections of
`process_arp_reply` (`rx.pc = "window"`): the clock, arp_thread and the operator act
there as anywhere else. If the hop is evicted there, `DrainPacket` finds no address
and queues the packet again on the entry it drains: the last one is lost with it
(`fate` "leaked"), two or more go round for ever (`RoundForEver`).

### SconeRtable
State: the list `rtable`, the set `up`, the rows `hw`, how many rows have been
written since the last change (`write_rtable_to_hw` holds the write lock), and
dijkstra_thread's `dirty` and `dij`. `topo` is what `compute_rtable` would
return: PWOSPF changes it, and so do interfaces. `GetNextHop` is get_next_hop;
`HwLookup` is the CAM: the first matching row, `next hop 0` meaning the
destination, a row of zeroes matching everything. `Sorts` gives the result of the
bubble sort, which is the stable one. Masks are prefix lengths: contiguous masks
are assumed. The prefix comparison of interface names in `deactivate_routes` is
equality here (names eth0 to eth3). `iface_update` changes no route, whatever its
comment says.

### Dijkstra
State: the router list, what each router advertises, and `prev`, the pointers that
survive from run to run. The inner loops of `compute_rtable` are functions of the
list (in list order, which decides between equal distances); one action is one
run, the others are what PWOSPF does to the list between runs. A pointer to a
removed router becomes `Freed`, and following it is a `fault`, as is a walk to NULL
or in a circle. Of several interfaces with one neighbour get_iface_by_rid takes the
first; `IfaceFor` takes one of them.

### Pwospf, LinkState
State: per router a record of interfaces, neighbours, the router list with
sequence numbers, the active flags, the LSU queue and where
pwospf_lsu_bcast_thread is; the network is a set of LSUs, which may be lost,
delayed and delivered in any order and again. `said` is a history variable. The
timeouts of three intervals are events that may happen at any time: all the
packets of the interval can be lost. `LinkState` is what readers of the database
rely on; the mapping takes `view[r][q]` from r's router list.

### SconeLocks
A handler is the set of the traces (sequences of lock, unlock, access and wait
steps) its branches can take; a thread runs passes of its role's program, and
`rest` keeps the traces that agree with what it has done. Also modelled are the
code's lapses: `bare` steps use data without its lock, a `leak` step returns with
the locks still held. "answer" is the wait for the transport thread, treated as a
lock that whoever it serves holds. Repeated calls are one call.

### Lwtcp
Two ends that both run this code. One thread runs each stack, so a handler is one
action, written as a function of the control block. Sequence numbers are taken
modulo `SeqSpace`, `snd_buf` modulo `BufMod`. The clock is left out: a timeout may
fire whenever its condition holds. The congestion window is a segment or no limit
(every duplicate ACK of fast recovery leaves it at no limit). `mishaps` counts what
the network loses or repeats and the timeouts, together.

### Netconn
State: mailboxes (ring and semaphore), netconns, control blocks as far as the API
sees them, the socket table, the threads of the command line and the web server
with their control states, the transport thread. A check and the use that follows
it in another statement are two steps. `fault` is the first undefined behaviour
of a history; what follows one is not explored.

### LwipMem
The heap is a function from addresses of headers to `[next, prev, used]`, as in
`mem.c`; a pbuf in RAM is known by its address. Actions are the calls that the
stack and the glue make: receive, strip a header, trim, queue and chain, send,
put a header in front, free. `fault` records a write through NULL, a payload
that covers the next header, and a data offset that points past the segment
(`TcpStripHeader`: tcp_input compares it with nothing, the lengths wrap).

### Nf2Driver
State: the ring with its positions and credits, the two progress counters, the
driver's copy of what the card can take, the stopped queues, and the control states of
nf2c_tx, the interrupt handler and the watchdog inside nf2c_send and
nf2c_clear_dma_flags; `hw` is the part of the CPCI that `reg_file.v` and
`dma_engine_ctrl.v` show the driver. The three contexts exclude each other only
where the code does: nf2c_tx and whoever gives a slot back by txbuff_lock, nf2c_tx and
the watchdog of one port by that port's xmit lock. `misjudged` is a history variable:
recovery took a counter for a transfer that was another context's, or the watchdog
wrote back a mask that was the handler's. `pci` is the device: whether its revision
is known, whether it is bound, what is held of it; the probe's labels are `Acquired`
and `Unwinds`.

### RegProxy
State: the programs, the server's connections (it serves the first one), the
programming interface with its FIFO, and the Virtex (external). A register access
of a remote program is two steps, request and answer; nf_download, the device
information and its check are written as programs over such accesses.

### ResourceTree
State: `status`, `parent`, `children`, and `stack`, the activations of
`release_self` with the index Ruby's `each` keeps: deleting the current child
moves the next one under the index, which then goes past it. Messages are
handled one at a time (`stack = << >>`), subscriptions call back between them.
`membership` counts how often a group is listed (nothing prevents twice).

### Application
State: the `state` property, deferred requests `todo`, stop `timers`, and
ExecApp: `app` is the instance it has under the proxy's only app_id, `live` what
runs, `exits` what ended and has not been reported. ExecApp is a library class,
modelled from its use: `has?`, `[]`, `signal`, `stdin`, the block it calls. Its thread
calls that block beside the event loop, so `switch_to_running` and `switch_to_paused`
are two steps, up to and including the assignment of the state (`WriteState`), and an
EXIT may come between them or long after. The installers are started without a block:
their end reaches nobody, `installed` is only set by a request.

## 3. Runs

All runs pass. Every property has a mutant in `PROJECT.json`, a plausible bug in
one definition, under which TLC finds it violated.

| run | shows |
|---|---|
| `scone_arp` | `QueueOwnsPackets`: no packet is lost from, or twice in, the queue; `NoWaitBehindLearnedHop`; `HwMirrorsCache`; `QueuedPacketLeaves`: every queued packet leaves, or the drain of a hop evicted in its window goes round for ever |
| `scone_rtable` | `WrittenRowsRoute`: first match equals longest prefix, also while rows are rewritten; `StaticsAreTheOperators`: static routes are neither lost nor doubled; `RoutesFollowTopology`: no trigger is missed |
| `dijkstra` | `RoutesShortest`: a shortest route to each reachable subnet whatever earlier runs left; `WalkEnds`: walks end, and meet freed routers only from unreachable ones |
| `pwospf` | `ImplementsLinkState` (refinement); `FlagsFollowList`: the routing computation never lags behind the list; `QueuedLsuLeaves`: a missed signal only delays |
| `scone_locks` | `LockOrder`; `NoDeadlock`: no circle, and no thread rests with a lock but after the two faulty returns; `NoRace`: every race has an unlocked access on one side |
| `lwtcp` | `StreamIntact`: segments cut, repeated with other boundaries and queued out of sequence give each byte once; `NothingForgotten`, `EofAfterData`, `BuffersReturned` |
| `netconn` | `OneAnswerPerCall`, `NoLostMail`, `WriterCanBeWoken`, `FaultsNeedTheEnd`: memory faults need a reset or an ended stream |
| `lwip_mem` | `HeapSound`, `BuffersFit`, `ChainsOwned`: no pbuf is leaked, shared or freed early |
| `nf2_driver` | `RingAccounts`, `EngineReadsHead`: two senders never both start the engine; `NoPhantomDma`: no wait for a transfer or an interrupt that will not come (these three with recovery beside every context, up to a misjudged clean-up); `AbsentHoldsNothing`: a failed probe gives everything back |
| `reg_proxy` | `StreamIntact`, `SuccessIntact`: success is said only of the right file; `InfoTrue`; `EveryoneServed` |
| `resource_tree` | `NoOrphans`, `ListedOnce`, `RetriesRelease`: repeating a release gets the tree released |
| `application` | `StateMatchesProgram`: the state is true of the program unless an EXIT crossed its write; `StopTakesEffect` |

## 4. Bounds

* `scone_arp`: two hops (an ICMP error waits for another hop than its packet),
  one MAC, two packets, one of which is answered by ICMP, 2 requests instead of 5
  (first, retry, give up), ages up to 2 (the code tells apart 1 and more, and more
  than the ttl), a table of one row so that two entries overflow it. The two
  packets are enough for a hop to lose one, or to go round for ever with both.
* `scone_rtable`: addresses of two bits, a default route, a network, a host in
  it, and the network once static and once computed; two rows, up to two static
  and two dynamic routes, so that the list overflows.
* `dijkstra`: four routers, a square with a diagonal: two equal paths, a longer
  one, a partition that comes and goes, and a subnet with one router.
* `pwospf`: three routers in a line, so that the middle one forwards; sequence
  numbers modulo 2, so that they wrap at once; two packets in flight and two
  events (hello, timeout, restart, interface change), from a converged area and
  from one whose third router is down.
* `scone_locks`: the transport thread and two threads of any roles. A circle
  through the transport thread needs two, a race needs two; more threads
  and longer circles are covered by the proofs (section 7). No pass begins after a thread has
  returned with locks: the rest of the router then stops, as the code does.
* `lwtcp`: three bytes from the client, segments of up to two, so that a byte and
  the next two, or the other way round, are sent separately and together; one loss,
  duplication or timeout, at every point of the connection; two segments on the
  network; the client's numbers wrap during the transfer. TrimFront cuts known bytes
  off a segment, and two segments wait out of sequence. Segments that wait there are
  never longer than what fills the gap before them, because the peer runs the same
  code and sends a queued segment again as it was: the trimming of a tail is in the
  model and cuts nothing. `LwtcpProofs` has no such bounds.
* `netconn`: one connection of either server, one pool thread, three sockets,
  mailboxes of three, one data segment and one reset at any moment. Only one of the
  two servers is live: `Started`, in the specification itself, admits connections
  when one of the command line (`or_cli.c:50`) and the web server (`or_www.c`) listens
  and the other has given up, as after a failed bind; normally both run. The two share
  no netconn and meet only in the transport thread's mailbox and in the socket table,
  where which of the slots the live one holds makes no difference. So contention of
  two servers for the transport thread is not covered here (in `SconeLocks` it is).
* `lwip_mem`: a heap of 24 units with two to an aligned word: one to three
  blocks, exhaustion, a trim to an odd length; one pool header; two references.
* `nf2_driver`: two ports sharing two slots, so one each, full at once; one packet
  from the card; ports brought up twice between two probes, so a port is opened again
  or both are open. One watchdog runs at a time (the kernel has a timer for each port).
  States after a misjudged clean-up are not followed (`Judged`): no property says
  anything about them, and the counters have no bound there. Of the ring's positions
  only the distances from the head matter (`View`), and ports are interchangeable.
* `reg_proxy`: two remote downloads of different files, a remote and a local
  reader, three words in bursts of two over a FIFO of two, one failure, one kill.
* `resource_tree`: a parent with two children is the smallest tree in which the
  loop jumps over one; one more resource, one group, two requests in flight.
* `application`: three instances, two deferred requests, two timers: a stop, a
  restart and a second stop overlap.

`CHECK_DEADLOCK FALSE` is used where the bounds on events let the model stop, and
in `scone_locks`, where a leaked lock really stops the router (`NoDeadlock` is
the statement about everything else).

## 5. Fairness

* `SconeArp`: the two threads run and the clock ticks (weak).
* `SconeRtable`: who writes rows finishes (weak); dijkstra_thread gets the write
  lock it competes for (strong: the operator types finitely fast).
* `Pwospf`: pwospf_lsu_bcast_thread runs; pwospf_lsu_thread's periodic flood
  happens while an LSU is left in the queue (weak). Nothing is assumed of the
  network, the hellos or the timeouts.
* `Nf2Driver`: the card, the interrupt handler and nf2c_tx run (weak), the card gets to
  write and the watchdog fires when it may again and again (strong). Used only by `FullRingDrains`.
* `RegProxy`: board, server and each program that is not killed run (weak).
* `ResourceTree`: the event loop runs (weak); subscriptions call back and the
  client repeats its request (strong: they compete with other handlers).
* `Application`: the event loop and ExecApp's callbacks run, a program that was sent
  KILL ends (weak). Timers are fair in the strong sense: the loop looks at those that
  are due between any two handlers, and only during one can it not. A program that was
  not killed need not end.

The other modules state safety only.

## 6. What the code does not keep

Some modules also define what a comment of the code says of it and the code does
not keep. No run has these definitions among its properties: TLC refutes each of
them under the constants named here.

| definition | comment | what happens |
|---|---|---|
| `SconeArp!NoPacketLeaked` | `send_ip` takes responsibility for freeing the packet | the entry vanishes between the halves of process_arp_reply; the packet re-queued on the entry being drained is lost |
| `Application!SignalsTheStoppedApp` | TERM and KILL go to the app that got `exit` | the timers of an old stop signal a new instance |
| `Application!InstallationEnds` | the proxy stays in installing "until the installation is done" | nobody hears of the end of an installer, and the state stays installing; the spec that expects otherwise is skipped (`application_spec.rb:204`) |
| `ResourceTree!ReleaseReturnsNil` | release returns nil on error | it raises instead |
| `Nf2Driver!FullRingDrains` | nf2c_send "will be called again" | a send skipped on the receive branch leaves the ring full |
| `Lwtcp!FinReachesApplication` | a FIN is indicated to the application | not the FIN that waited on the out-of-sequence queue |

And facts that the passing properties state as their exceptions:
`send_ip_packet` without a route, and a hello with another mask, return with locks
held; start-up, hardware commands, `cli_sping` and some walks of the interface
list use data without its lock (`NoRace`); a walk along `prev_router` may meet a
freed router (`WalkEnds`); a trim to an odd length cuts the heap unaligned, after
which a payload may cover the next header (`BuffersFit`); an exhausted heap makes
the glue write through NULL; a reset lets a thread follow a NULL control block or
a freed netconn (`FaultsNeedTheEnd`); a card of an unknown revision stays enabled
(`AbsentHoldsNothing`); a segment whose data offset points past its end moves the
payload out of its block and wraps the lengths (`BuffersFit`); the drain of a hop that
was evicted in the window of its reply goes round for ever with the locks held
(`QueuedPacketLeaves`); an EXIT that comes before `state = :running` leaves the proxy
`running` without a program, and one that comes after a restart leaves it `stopped`
with one (`overtaken`, `StateMatchesProgram`); recovery in the driver beside another
context takes a passing claim, a transfer begun since the reset or one whose end is
being handled for its own and frees the slot at the head of the ring, and a watchdog
that crosses the end of the handler masks every interrupt (`misjudged`,
`RingAccounts`, `EngineReadsHead`, `NoPhantomDma`).

## 7. Proofs

`SconePacketProofs`, the queue behind the ARP cache (any hops, packets, requests,
rows). `Inductive` proves an invariant that joins the
types, the ownership of packets and the control states; the ownership alone is not
inductive, because the loops rely on the entry they walk being there (`Control`:
`rx.hop` and `arp.hop` name queue entries while `holder` names their thread), and
on no ICMP error existing before its packet is freed (`ErrAfterData`). From it
follow `TypeCorrect`, `PacketOwnership`, `HardwareMirror` and `NoWait`.

`SconePacketProofs`, the buffers of the TCP (any heap, alignment, sizes of
structures, pool and frames). `MemInv`: the headers lead through the heap and back
(`Linked`), free blocks do not touch (`Apart`), the blocks in use are exactly the
pbufs in RAM, and the pbufs are exactly the chains, as disjoint sequences, of the
heads the stack holds, each with the sum of the lengths behind it (`Whole`). None of
`HeapSound`, `BuffersFit` and `ChainsOwned` is inductive alone: a chain is freed as
far as its reference counts reach, and each pbuf of it frees a block. What the
recursive functions over heap and chains compute is proved from the sequence that
witnesses a chain and by least counterexamples (`WFMin`), not by induction over the
data. While mem_malloc splits or plug_holes merges, one block may touch others:
`ApartBut` is the invariant within an operation. A data offset past the segment
leaves the heap and the chains as they are and only the lengths of one pbuf wrong
(`Loose`), so `HeapSound` and `ChainsOwned` need no exception for it.

`SconeRoutingProofs`, the routing table (any width of an address, any routes, any
number of rows). The list is a sequence without bound and every row was written from a place of
it: the invariant asks for a function from rows to places (`Written`), increasing
and leaving out no active entry, and for a list sorted by mask since it was first
changed. The first row that matches then has the longest prefix
(`HardwareRoutes`). `StaticsKept` is an action property: from the types, and from
the fact that sorting keeps every entry once (`SortsBijective`). That the number
of addresses, 2^`Width`, is a positive number is an assumption, since the prover
does not know the exponential.

`SconeRoutingProofs`, compute_rtable (any routers and subnets). Within a run `Sound`
holds after every round of the loop: the routers found are no farther than the
others, their neighbours no farther than one hop more, and every router with a
distance was reached from one that was found. No distance exceeds the number of
routers found, so the loop ends with all of them (`RoundsFinal`), and the distances
are the numbers of hops of the reference (`HopsFacts`). From run to run, `Tree`
holds of prev_router: there is a rank that every pointer lowers. A run gives the
reachable routers their distance as rank, and the others, which keep their
pointers, their old one above all distances; a timeout only cuts pointers. A walk
therefore visits no router twice (`WalkTree`), and from a reachable router it ends
at a neighbour on a shortest path (`WalkNear`). The loop, the walk and the reference
are recursive functions over 0 .. n: `Iterated` shows that each exists, `UpTo` is
the induction over rounds, for the set of the rounds at which a claim holds.
`RoutesAreShortest` assumes `OneLink`: no other router is on two of our subnets. The
code takes the first interface with the neighbour, so with two links to one
neighbour the route to one of our own subnets may leave by the other link. The
instance that TLC checks satisfies `OneLink`.

`SconeLocksProofs` (any set of threads). The traces of a handler are built by a
few combinators, and there is a rule in Hoare's manner for each of them:
`Keeps(A, p, K)` says that program p, begun with locks A held, waits only for
locks that come after all it holds, touches guarded data only under the lock of
the data, and ends with one of K held. One lemma per handler applies the rules;
the inductive invariant is that what is left of every thread's pass keeps them
from what the thread holds, and that a lock held for writing has one holder.
`OrderKept` and `RaceFree` follow at the step a thread is before. `DeadlockFree`:
in a circle each thread waits for a lock of a higher rank than all it holds, the
next one holds that lock and waits for a higher one, and there are 17 ranks. This
invariant quantifies over assignments of locks to the positions of a trace, which
TLC cannot enumerate; TLC checks its consequences.

`PwospfProofs` (any routers, subnets, restarts and events; at least two sequence
numbers, so that a flood is told from none). What is in a router list, in the
queue of pwospf_lsu_bcast_thread and on the wire is only ever what its router
flooded (`Backed`, `Told`): the database alone is not inductive, because an old
advertisement may wait anywhere. All handlers but the restart edit a router's
state and may then flood from it; `HandlerStep` proves the invariant and the step
of `LinkState` for that shape once. `Refinement` joins it with the initial states.

`NetFpgaProofs`, the driver (any ports, slots and counts). nf2c_send takes no lock, so
the invariant is an account: `dma_tx_in_progress` is the number of callers between
their claim and their step back, plus one for a transfer that was started and not
yet cleaned up (`Flight`); that one is the card's, or reported, or in the hands of the
context that will give the slot back, and of no other. The theorems have no
hypotheses: recovery and watchdog run beside everything, and the properties
themselves say that they end with a misjudged clean-up (section 6).

`NetFpgaProofs`, the proxy (any programs, bitfiles, sizes, failures and kills). `Wired`: the
server answers its first connection only, so whoever was answered at open has it
until it ends, and nobody else's request is served. Then `Loading` (the FIFO holds
words of the program's own file once it was found empty), `Streaming` (Virtex and
FIFO together are what was sent, and the FIFO no more than the present burst) and
`Informing` (what was read so far is about the bitfile on the board) are
inductive. The version numbers are modelled in more detail than these properties
alone would need, because `InfoTrue` is about the way they are packed and compared.
The hypotheses: no program of the board's own host is nf_download
(nothing keeps such a one from the board while a client of the proxy downloads);
for `StreamKept`, `Fits`: the FIFO takes a burst and a block of the file is a
number of bursts, which 8, 8 and 1024 words satisfy; for `InformationHolds`, the
parts of versions fit into their bytes and a bound has open parts at its end only,
as the one of selftest. All of them hold in the run.

`NetconnProofs` (any connections, threads, sockets, mailbox and buffer sizes,
resets). A netconn has one owner at a time, from accept to delete (`Places`). So its
owner alone asks for it and fetches from its mailboxes, and a request is in the
transport thread's mailbox, in its hand or answered (`Answers`); the callbacks point
to it until a reset or do_delconn (`Callbacks`), which is why somebody will signal a
writer whose semaphore is at zero (`Writers`); a reader sees NULL only after the end
(`Reading`); and who sleeps on a mailbox with messages has been signalled (`Mail`).
These are mutual, so `Sound` is proved as a whole, one lemma per action. The model
stops at the first undefined behaviour, and the invariant says what such a state
needed to come about.

`OmfProofs`, the tree (any resources, groups and requests). `ListedOnce` is not
inductive alone: release_self deletes the child it stands on from the list it
walks, so the invariant ties the lists to the parents (`Lists`, `Parents`), says
that a resource with an activation of release_self is alive (`FramesLive`), and
that only members of a group listen to it, which is why a callback can revive
nothing that was never created (`Listens`).

`OmfProofs`, the application (any bounds). The invariant joins the types, what is
never true again of an application that was started once (it is not created or
installing, which keeps timers and callbacks of instances away from an installation),
and a match of what runs with what ExecApp has under the app_id, with what the loop is
about to write and with the ends not yet reported. From it follow `AppTypeCorrect` and
`AppStateTruthful`, without hypotheses.

`LwtcpProofs` (any sizes of segments, windows, queues and buffers, any number of
losses, duplications, reorderings and timeouts). A sequence number is turned into a
position in its sender's stream; every segment on a queue, in ooseq or on the network
holds the bytes of its positions, between places where the sender once began a segment
(`SegOK`); unacked and unsent together hold everything from what is acknowledged to
`snd_lbb` (`Sending`), and no end acknowledges more than it has taken, or has taken
more than the other has written (`Told`). Each function of the code is a lemma from a
well-formed control block (`Ok`) to a well-formed one that acknowledges no less
(`Kept`) or whose stream has grown (`Grown`), each handler a composition of them, and
`StepPeer` says that a step of one end leaves the other in order. The hypothesis
`OneShortConnection`, which the run satisfies: one connection, of fewer bytes than
half of the sequence space; beyond that an old segment may be taken for a new one, in
this code as in every TCP that has no timestamps.

The assumptions are those of the `ASSUME` of each module: bounds are natural
numbers, the ages distinguished exceed every ttl, null is not a value, the
transport thread is a thread, a bitfile has one of the two known ID blocks or
none, the heap and the sizes of lwip's structures are aligned, the names of faults
are no routers.

Only model-checked:

* liveness (`QueuedPacketLeaves`, `RoutesFollowTopology`, `QueuedLsuLeaves`,
  `EveryoneServed`, `RetriesRelease`, `StopTakesEffect`): fairness and ENABLED are
  outside the prover.

## 8. Plan

1. Models: both servers at once in `Netconn`, which needs a larger socket table and
   a reduction of its state space first.
2. Models: the driver's watchdogs of two ports at once.
3. Models: the virtual machine proxy, with the hypervisor and the broker as
   external processes.

## 9. Not modelled

* `or_nat.c`: its thread and its commands are commented out in `or_main.c`, and
  `is_wan` is always 0.
* UDP and ICMP of lwip, netconn_connect and the other calls SCONE does not make.
* Packet formats, checksums, parsing and printing of commands, statistics.
* Verilog other than the lookup, the DMA interface and the programming FIFO:
  register-transfer level. Register definitions and bit files are generated.
* Java, Perl and Python support, test libraries, graphical tools.
* `virtual_machine.rb` and the other proxies around shell commands: what they do
  is done by programs and a broker that are not in the repository.
* Interfaces with neighbours that are taken down: the loop at `or_iface.c:284`
  reads a node it has freed, and does not end where that still holds its data.
